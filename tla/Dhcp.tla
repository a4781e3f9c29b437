-------------------------------- MODULE Dhcp --------------------------------
(***************************************************************************)
(* The DHCP client of the BIOS (drivers_raw/ethernet/dhcp_client.c), which *)
(* main() calls once at boot, on a network with several servers and other  *)
(* machines.  Replies are broadcast, because the client asks for it, and   *)
(* the chip queues every datagram for port 68 in the order of arrival.     *)
(*                                                                         *)
(* The client compares neither the transaction number nor the hardware     *)
(* address of what it reads, so neither is in the model: a reply carries   *)
(* the machine it is meant for, and the client does not look at it.        *)
(*                                                                         *)
(* The network loses, duplicates and reorders; a time-out may expire       *)
(* whenever the socket is empty.  `trouble' remembers that the network did *)
(* lose or duplicate a reply, or was slower than a time-out.               *)
(***************************************************************************)
EXTENDS Naturals, Sequences, FiniteSets

CONSTANTS
  Me,        \* this computer
  Others,    \* the other machines on the network that ask for an address
  Servers,   \* the DHCP servers
  Pool,      \* the addresses each server may lease
  Static,    \* 192.168.1.173, the address w5100_dhcp_request starts with
  RX_MAX,    \* bound: datagrams that fit in the 2 KB of the socket
  OneTrouble \* bound: whether at most one reply is lost or duplicated

VARIABLES
  phase,     \* where w5100_dhcp_request is
  sipr,      \* the chip's own address, what the rest of the BIOS uses
  offer,     \* offered_ip and server_ip, with the machine they were meant for
  rx_buf,    \* the reply read last
  rx,        \* what the socket has queued
  requests,  \* what clients have broadcast
  heard,     \* the <<server, request>> the server has answered
  air,       \* replies on their way
  lease,     \* the servers' leases
  trouble,   \* the network lost, duplicated or delayed a reply
  up         \* the servers that are running

dhcpVars == <<phase, sipr, offer, rx_buf, rx, requests, heard, air, lease, trouble, up>>
client == <<phase, sipr, offer, rx_buf>>

Clients == {Me} \cup Others
Addresses == UNION {Pool[s] : s \in Servers}
None == "none"

ASSUME DhcpAssumption ==
  /\ Me \notin Others
  /\ None \notin Clients \cup Servers \cup Addresses
  /\ DOMAIN Pool = Servers
  /\ RX_MAX \in Nat \ {0} /\ OneTrouble \in BOOLEAN

Request == [type : {"DISCOVER", "REQUEST"}, from : Clients,
            addr : Addresses \cup {None}, server : Servers \cup {None}]
Reply == [type : {"OFFER", "ACK", "NAK"}, to : Clients,
          addr : Addresses \cup {None}, server : Servers]
NoReply == [type |-> None, to |-> Me, addr |-> None, server |-> None]

DISCOVER(c) == [type |-> "DISCOVER", from |-> c, addr |-> None, server |-> None]
REQUEST(c, o) == [type |-> "REQUEST", from |-> c, addr |-> o.addr, server |-> o.server]

DhcpInit ==
  /\ phase = "boot" /\ sipr = None /\ offer = NoReply /\ rx_buf = NoReply
  /\ rx = <<>> /\ requests = {} /\ heard = {} /\ air = {}
  /\ lease = [a \in Addresses |-> None]
  /\ trouble = FALSE /\ up \in SUBSET Servers

-----------------------------------------------------------------------------
(* The client.  The socket takes datagrams from its OPEN to its CLOSE.     *)

Listening == phase \in {"offer", "reopen", "answer"}

CLOSE_later(r) == phase' = r /\ UNCHANGED rx

\* CR_CLOSE and return r
CLOSE(r) == phase' = r /\ rx' = <<>>

Discover ==
  /\ phase = "boot"
  /\ phase' = "offer" /\ sipr' = Static /\ rx' = <<>>
  /\ requests' = requests \cup {DISCOVER(Me)}
  /\ UNCHANGED <<offer, rx_buf, heard, air, lease, trouble, up>>

\* the running servers a request is for: a REQUEST names one
Hearers(q) == IF q.type = "DISCOVER" THEN up ELSE {q.server} \cap up

\* an answer is still to come when the time-out expires
Late == air # {} \/ \E q \in requests : \E s \in Hearers(q) : <<s, q>> \notin heard

\* wait_rx_at_least gives up: 30 s for the offer, 50 s for the answer
TimeOut ==
  /\ phase \in {"offer", "answer"} /\ rx = <<>>
  /\ CLOSE("failed")
  /\ trouble' = (trouble \/ Late)
  /\ UNCHANGED <<sipr, offer, rx_buf, requests, heard, air, lease, up>>

\* the first datagram of the queue is taken for the offer
ReadOffer ==
  /\ phase = "offer" /\ rx # <<>>
  /\ rx_buf' = Head(rx)
  /\ IF Head(rx).type = "OFFER"
     THEN phase' = "reopen" /\ offer' = Head(rx) /\ rx' = Tail(rx)
     ELSE CLOSE("failed") /\ UNCHANGED offer
  /\ UNCHANGED <<sipr, requests, heard, air, lease, trouble, up>>

RequestOffered_no_server ==
  /\ phase = "reopen"
  /\ phase' = "answer" /\ sipr' = Static
  /\ rx' \in {rx, <<>>}
  /\ requests' = requests \cup {REQUEST(Me, [offer EXCEPT !.server = None])}
  /\ UNCHANGED <<offer, rx_buf, heard, air, lease, trouble, up>>

\* The socket is opened again without a CLOSE: whether the chip keeps what is
\* queued is its own affair.  The request names the offer's server (option 54,
\* or siaddr when the offer has none).
RequestOffered ==
  /\ phase = "reopen"
  /\ phase' = "answer" /\ sipr' = Static
  /\ rx' \in {rx, <<>>}
  /\ requests' = requests \cup {REQUEST(Me, offer)}
  /\ UNCHANGED <<offer, rx_buf, heard, air, lease, trouble, up>>

ReadAnswer_any ==
  /\ phase = "answer" /\ rx # <<>>
  /\ rx_buf' = Head(rx)
  /\ IF Head(rx).type # "NAK"
     THEN sipr' = Head(rx).addr /\ CLOSE("bound")
     ELSE CLOSE("failed") /\ UNCHANGED sipr
  /\ UNCHANGED <<offer, requests, heard, air, lease, trouble, up>>

\* The first datagram of the queue is taken for the answer; only an ACK will
\* do, and its yiaddr becomes the address.
ReadAnswer ==
  /\ phase = "answer" /\ rx # <<>>
  /\ rx_buf' = Head(rx)
  /\ IF Head(rx).type = "ACK"
     THEN sipr' = Head(rx).addr /\ CLOSE("bound")
     ELSE CLOSE("failed") /\ UNCHANGED sipr
  /\ UNCHANGED <<offer, requests, heard, air, lease, trouble, up>>

Client == Discover \/ TimeOut \/ ReadOffer \/ RequestOffered \/ ReadAnswer

-----------------------------------------------------------------------------
(* Not this program: the other machines, the servers and the network.      *)

\* Bound: once the client is done, the network stops.
Ended == phase \in {"bound", "failed"}

\* Another machine asks, and requests what it was offered.
OtherAsks(c) ==
  /\ ~Ended
  /\ requests' \in {requests \cup {DISCOVER(c)}}
                   \cup {requests \cup {REQUEST(c, o)} :
                           o \in {r \in air : r.type = "OFFER" /\ r.to = c}}
  /\ UNCHANGED <<client, rx, heard, air, lease, trouble, up>>

\* A server offers an address nobody has, and leases it to the first that
\* requests it.
Hear(s, q) ==
  /\ ~Ended
  /\ q \in requests /\ s \in Hearers(q) /\ <<s, q>> \notin heard
  /\ heard' = heard \cup {<<s, q>>}
  /\ LET free(a) == lease[a] \in {None, q.from}
         answer(t, a) == air' = air \cup {[type |-> t, to |-> q.from, addr |-> a, server |-> s]}
     IN \/ /\ q.type = "DISCOVER"
           /\ IF \E a \in Pool[s] : free(a)
              THEN \E a \in {b \in Pool[s] : free(b)} : answer("OFFER", a)
              ELSE UNCHANGED air
           /\ UNCHANGED lease
        \/ /\ q.type = "REQUEST"
           /\ IF free(q.addr)
              THEN lease' = [lease EXCEPT ![q.addr] = q.from] /\ answer("ACK", q.addr)
              ELSE UNCHANGED lease /\ answer("NAK", None)
  /\ UNCHANGED <<client, rx, requests, trouble, up>>

\* A reply reaches the socket if it is open and has room.
Arrive(m) == rx' = IF Listening /\ Len(rx) < RX_MAX THEN Append(rx, m) ELSE rx

DeliverReply(m) ==
  /\ ~Ended
  /\ m \in air /\ air' = air \ {m} /\ Arrive(m)
  /\ UNCHANGED <<client, requests, heard, lease, trouble, up>>

Disturb(m) ==
  /\ ~Ended /\ (OneTrouble => ~trouble)
  /\ m \in air /\ trouble' = TRUE
  /\ \/ air' = air \ {m} /\ UNCHANGED rx     \* lost
     \/ UNCHANGED air /\ Arrive(m)           \* and once more later
  /\ UNCHANGED <<client, requests, heard, lease, up>>

Network == \E m \in air : DeliverReply(m)

DhcpNext ==
  \/ Client
  \/ \E c \in Others : OtherAsks(c)
  \/ \E s \in Servers, q \in requests : Hear(s, q)
  \/ \E m \in air : DeliverReply(m) \/ Disturb(m)

DhcpSpec == DhcpInit /\ [][DhcpNext]_dhcpVars
FairDhcpSpec ==
  /\ DhcpSpec
  /\ WF_dhcpVars(Client)
  /\ \A s \in Servers : WF_dhcpVars(\E q \in requests : Hear(s, q))
  /\ WF_dhcpVars(Network)

-----------------------------------------------------------------------------
\* The state has its types, and the socket holds nothing outside OPEN .. CLOSE.
DhcpTypeOK ==
  /\ phase \in {"boot", "offer", "reopen", "answer", "bound", "failed"}
  /\ sipr \in Addresses \cup {Static, None}
  /\ {offer, rx_buf} \subseteq Reply \cup {NoReply}
  /\ rx \in Seq(Reply) /\ Len(rx) <= RX_MAX /\ (rx # <<>> => Listening)
  /\ requests \subseteq Request /\ heard \subseteq Servers \X requests
  /\ air \subseteq Reply
  /\ lease \in [Addresses -> Clients \cup {None}]
  /\ trouble \in BOOLEAN /\ up \subseteq Servers

\* The one case in which the client may take what is not its own: it read a
\* reply that was meant for another machine.
ReadForeign == offer.to # Me \/ rx_buf.to # Me

\* An address the client reports as obtained is one that its server has leased
\* to this computer, whatever the second server, the duplicates and the late
\* replies put in front of it in the socket, unless the client was given
\* another machine's reply.
OwnLease == phase = "bound" /\ ~ReadForeign => sipr \in Pool[offer.server] /\ lease[sipr] = Me

\* Nobody else asks, one server is running, and the network loses and
\* duplicates nothing and is in time.
Quiet ==
  /\ ~trouble
  /\ \A q \in requests : q.from = Me
  /\ Cardinality(up) = 1

\* The request comes to an end, a lost offer, request or answer being a failure
\* after a time, and on a quiet network it ends well: none of the client's own
\* steps throws away, overtakes or misdirects the one exchange it needs.
RequestEnds == <>Ended /\ ([]Quiet => <>(phase = "bound"))
=============================================================================
