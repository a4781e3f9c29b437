---------------------------- MODULE FileTransfer ----------------------------
(***************************************************************************)
(* A file on its way from a PC to the Orion68: tools/sender2 at one end,   *)
(* the BIOS command receiver (recv.c) at the other, between them TCP and   *)
(* socket 0 of the W5100, the network chip, which recv.c polls.            *)
(*                                                                         *)
(* Byte k of what the sender has for transfer i is <<i, k>>: the HEADER,   *)
(* with size and name, and the file behind it.  The sender's buffer is     *)
(* HEADER + tam bytes long and the sender writes tam of them.              *)
(*                                                                         *)
(* The chip counts what it has received while recv.c reads the count, one  *)
(* byte (DIGIT) of the register at a time; in which order is the           *)
(* compiler's choice, for C leaves it open in w5100_read16.                *)
(***************************************************************************)
EXTENDS Naturals

CONSTANTS HEADER,       (* bytes of the header: 21                          *)
          RX_SIZE,      (* the chip's receive memory: 2048                  *)
          DIGIT,        (* values of a byte of a register: 256              *)
          Length,       (* the lengths of files that are sent               *)
          Transfers,    (* bounds how many connections are made             *)
          JUNK,         (* a byte of RAM nobody has written                 *)
          NONE          (* no file, no value read                           *)

ASSUME FileTransferAssumption ==
    /\ HEADER \in Nat \ {0}
    /\ RX_SIZE \in Nat /\ RX_SIZE >= HEADER
    /\ DIGIT \in Nat /\ DIGIT > 1
    /\ Length \subseteq Nat \ {0} /\ \E n \in Length : \A m \in Length : m <= n
    /\ Transfers \in Nat
    /\ NONE \notin Nat

VARIABLES
    (* the sender: how far it is, its connection, and what was written on it *)
    sender, transfer, length, sent,
    (* the chip: the socket's status, how many bytes of the connection have  *)
    (* arrived and how many were taken (S0_RX_RD), "Arq lido" sent           *)
    sr, arrived, taken, acked,
    (* recv.c: its place, the state of its static variables, its RAM buffer, *)
    (* and the file it saved last                                            *)
    at, estado, bytes_recebidos, tamanho_total, BUFFER_ARQUIVO, saved,
    (* w5100_get_rx_size: first read, half-read register, order, result      *)
    val1, half, lowFirst, rx_avail

pc       == <<sender, transfer, length, sent>>
chip     == <<sr, arrived, taken, acked>>
receiver == <<estado, bytes_recebidos, tamanho_total, BUFFER_ARQUIVO, saved>>
reading  == <<val1, half, lowFirst, rx_avail>>
vars     == <<pc, chip, at, receiver, reading>>

Lesser(a, b) == IF a < b THEN a ELSE b
Longest      == CHOOSE n \in Length : \A m \in Length : m <= n
RAM          == 1..HEADER + Longest

Init ==
    /\ sender = "idle" /\ transfer = 0 /\ sent = 0
    /\ length \in [1..Transfers -> Length]
    /\ sr = "CLOSED" /\ arrived = 0 /\ taken = 0 /\ acked = FALSE
    /\ at = "shell" /\ estado = "HEADER" /\ bytes_recebidos = 0 /\ tamanho_total = 0
    /\ BUFFER_ARQUIVO = [k \in RAM |-> <<0, JUNK>>]
    /\ saved = NONE
    /\ val1 = NONE /\ half = NONE /\ rx_avail = 0
    /\ lowFirst \in BOOLEAN

-----------------------------------------------------------------------------
(* The sender. *)
conectar_servidor ==
    /\ sender = "idle" /\ transfer < Transfers
    /\ sr = "LISTEN"
    /\ sender' = "sending" /\ transfer' = transfer + 1 /\ sent' = 0
    /\ sr' = "ESTABLISHED" /\ acked' = FALSE
    /\ UNCHANGED <<length, arrived, taken, at, receiver, reading>>

(* send() takes some of what is left; after the last of it the sender      *)
(* waits for the answer.                                                   *)
escrever_dados ==
    /\ sender = "sending"
    /\ sent' \in sent + 1..length[transfer]
    /\ sender' = IF sent' = length[transfer] THEN "waiting" ELSE sender
    /\ UNCHANGED <<transfer, length, chip, at, receiver, reading>>

ler_dados ==
    /\ sender = "waiting" /\ acked
    /\ sender' = "confirmed"
    /\ UNCHANGED <<transfer, length, sent, chip, at, receiver, reading>>

SenderCloses ==
    /\ sender = "confirmed"
    /\ sender' = "closed"
    /\ UNCHANGED <<transfer, length, sent, chip, at, receiver, reading>>

(* The PC's program is killed. *)
SenderDies ==
    /\ sender \in {"sending", "waiting"}
    /\ sender' = "closed"
    /\ UNCHANGED <<transfer, length, sent, chip, at, receiver, reading>>

-----------------------------------------------------------------------------
(* TCP and the chip. *)
Deliver ==
    /\ sr = "ESTABLISHED"
    /\ arrived' \in arrived + 1..Lesser(sent, taken + RX_SIZE)
    /\ UNCHANGED <<pc, sr, taken, acked, at, receiver, reading>>

(* The end of the sender's stream comes behind all of its bytes. *)
DeliverEnd ==
    /\ sender = "closed"
    /\ IF sr = "ESTABLISHED"
       THEN arrived = sent /\ sr' = "CLOSE_WAIT"
       ELSE UNCHANGED sr
    /\ sender' = "idle"
    /\ UNCHANGED <<transfer, length, sent, arrived, taken, acked, at, receiver, reading>>

(* The connection is reset: bytes on the way are lost. *)
Reset ==
    /\ sender = "closed" /\ sr = "ESTABLISHED"
    /\ sender' = "idle"
    /\ sr' = "CLOSED"
    /\ UNCHANGED <<transfer, length, sent, arrived, taken, acked, at, receiver, reading>>

ChipCloses ==
    /\ sr = "DISCONNECTING"
    /\ sr' = "CLOSED"
    /\ UNCHANGED <<pc, arrived, taken, acked, at, receiver, reading>>

-----------------------------------------------------------------------------
(* recvmain, and one turn of w5100_getter_loop after the other. *)
recvmain ==
    /\ at = "shell"
    /\ at' = "poll"
    /\ UNCHANGED <<pc, chip, receiver, reading>>

(* Mutant: the state of an interrupted transfer is kept. *)
PollClosedKeepsState ==
    /\ at = "poll" /\ sr = "CLOSED"
    /\ sr' = "INIT" /\ arrived' = 0 /\ taken' = 0
    /\ UNCHANGED <<pc, acked, at, receiver, reading>>

(* CR_OPEN starts from an empty receive memory. *)
PollClosed ==
    /\ at = "poll" /\ sr = "CLOSED"
    /\ sr' = "INIT" /\ arrived' = 0 /\ taken' = 0
    /\ estado' = "HEADER" /\ bytes_recebidos' = 0
    /\ UNCHANGED <<pc, acked, at, tamanho_total, BUFFER_ARQUIVO, saved, reading>>

PollInit ==
    /\ at = "poll" /\ sr = "INIT"
    /\ sr' = "LISTEN"
    /\ UNCHANGED <<pc, arrived, taken, acked, at, receiver, reading>>

PollEstablished ==
    /\ at = "poll" /\ sr = "ESTABLISHED"
    /\ at' = "size"
    /\ UNCHANGED <<pc, chip, receiver, reading>>

(* The sender has gone: what is in the buffer is saved all the same. *)
PollCloseWait ==
    /\ at = "poll" /\ sr = "CLOSE_WAIT"
    /\ sr' = "DISCONNECTING"
    /\ at' = "save"
    /\ UNCHANGED <<pc, arrived, taken, acked, receiver, reading>>

-----------------------------------------------------------------------------
(* w5100_get_rx_size: twice the same value, or one that is 0. *)
Register  == arrived - taken
HighDigit == Register \div DIGIT
LowDigit  == Register % DIGIT

ReadFirstHalf ==
    /\ at = "size" /\ half = NONE
    /\ half' = IF lowFirst THEN LowDigit ELSE HighDigit
    /\ UNCHANGED <<pc, chip, at, receiver, val1, lowFirst, rx_avail>>

Read16 == IF lowFirst THEN HighDigit * DIGIT + half ELSE half * DIGIT + LowDigit

(* Mutant: the register is read once. *)
AcceptsAny(v) == TRUE

Accepts(v) == v = IF val1 = NONE THEN 0 ELSE val1

ReadSecondHalf ==
    /\ at = "size" /\ half # NONE
    /\ half' = NONE
    /\ IF Accepts(Read16)
       THEN /\ at' = "receive"
            /\ rx_avail' = Read16
            /\ val1' = NONE
       ELSE /\ val1' = IF val1 = NONE THEN Read16 ELSE NONE
            /\ UNCHANGED <<at, rx_avail>>
    /\ UNCHANGED <<pc, chip, receiver, lowFirst>>

-----------------------------------------------------------------------------
(* The next n bytes go to the buffer, behind the first `from`. *)
w5100_recv_bytes(from, n) ==
    /\ BUFFER_ARQUIVO' = [k \in RAM |-> IF k \in from + 1..from + n
                                        THEN <<transfer, taken + k - from>>
                                        ELSE BUFFER_ARQUIVO[k]]
    /\ taken' = taken + n

(* The header tells the length of the file of its transfer. *)
ReceiveHeader ==
    /\ at = "receive" /\ estado = "HEADER"
    /\ at' = "poll"
    /\ IF rx_avail >= HEADER
       THEN /\ w5100_recv_bytes(0, HEADER)
            /\ tamanho_total' = length[transfer]
            /\ bytes_recebidos' = HEADER
            /\ estado' = "PAYLOAD"
       ELSE UNCHANGED <<taken, BUFFER_ARQUIVO, tamanho_total, bytes_recebidos, estado>>
    /\ UNCHANGED <<pc, sr, arrived, acked, saved, reading>>

Block == Lesser(rx_avail, tamanho_total - bytes_recebidos)

(* Mutant: one byte short of the end is taken for the end. *)
CompleteTooSoon(n) == n + 1 >= tamanho_total

(* Mutant: one byte more is waited for. *)
CompleteTooLate(n) == n > tamanho_total

Complete(n) == n >= tamanho_total

ReceivePayload ==
    /\ at = "receive" /\ estado = "PAYLOAD"
    /\ rx_avail > 0
    /\ ~Complete(bytes_recebidos + Block)
    /\ w5100_recv_bytes(bytes_recebidos, Block)
    /\ bytes_recebidos' = bytes_recebidos + Block
    /\ at' = "poll"
    /\ UNCHANGED <<pc, sr, arrived, acked, estado, tamanho_total, saved, reading>>

(* The last of it: "Arq lido", and the end of the connection. *)
ReceiveLast ==
    /\ at = "receive" /\ estado = "PAYLOAD"
    /\ rx_avail > 0
    /\ Complete(bytes_recebidos + Block)
    /\ w5100_recv_bytes(bytes_recebidos, Block)
    /\ bytes_recebidos' = bytes_recebidos + Block
    /\ estado' = "HEADER"
    /\ acked' = (sr # "CLOSED")
    /\ sr' = IF sr = "CLOSED" THEN sr ELSE "DISCONNECTING"
    /\ at' = "save"
    /\ UNCHANGED <<pc, arrived, tamanho_total, saved, reading>>

ReceiveNothing ==
    /\ at = "receive" /\ estado = "PAYLOAD"
    /\ rx_avail = 0
    /\ at' = "poll"
    /\ UNCHANGED <<pc, chip, receiver, reading>>

(* saving_file writes tamanho_total bytes from behind the header, whatever *)
(* was received; it may fail at the disk, and then nothing complete is     *)
(* there.                                                                  *)
saving_file ==
    /\ at = "save"
    /\ saved' \in {NONE} \cup
                  (IF tamanho_total = 0 THEN {saved}
                   ELSE {[of |-> BUFFER_ARQUIVO[1][1],
                          data |-> [k \in 1..tamanho_total |-> BUFFER_ARQUIVO[HEADER + k]]]})
    /\ at' = "shell"
    /\ UNCHANGED <<pc, chip, estado, bytes_recebidos, tamanho_total, BUFFER_ARQUIVO, reading>>

-----------------------------------------------------------------------------
Receiver == \/ PollClosed \/ PollInit \/ PollEstablished \/ PollCloseWait
            \/ ReadFirstHalf \/ ReadSecondHalf
            \/ ReceiveHeader \/ ReceivePayload \/ ReceiveLast \/ ReceiveNothing
            \/ saving_file

Next == \/ conectar_servidor \/ escrever_dados \/ ler_dados \/ SenderCloses \/ SenderDies
        \/ Deliver \/ DeliverEnd \/ Reset \/ ChipCloses
        \/ recvmain \/ Receiver

(* The network delivers, the receiver polls for ever, the sender reads.    *)
(* Nobody need start a transfer or call the receiver.                      *)
Fairness == WF_vars(Deliver) /\ WF_vars(Receiver) /\ WF_vars(ler_dados)

Spec == Init /\ [][Next]_vars /\ Fairness

-----------------------------------------------------------------------------
(* The variables have their types; the chip never holds more than its      *)
(* memory, nor is more taken from it than has arrived.                     *)
TypeOK ==
    /\ sender \in {"idle", "sending", "waiting", "confirmed", "closed"}
    /\ transfer \in 0..Transfers
    /\ sr \in {"CLOSED", "INIT", "LISTEN", "ESTABLISHED", "CLOSE_WAIT", "DISCONNECTING"}
    /\ taken <= arrived /\ arrived <= sent /\ arrived - taken <= RX_SIZE
    /\ acked \in BOOLEAN
    /\ at \in {"shell", "poll", "size", "receive", "save"}
    /\ estado \in {"HEADER", "PAYLOAD"}
    /\ BUFFER_ARQUIVO \in [RAM -> (0..Transfers) \X (RAM \cup {JUNK})]

(* In the middle of a file, the buffer begins with exactly what was taken  *)
(* from this connection, byte for byte and in order: nothing is left in    *)
(* the receiver's static variables of a transfer that broke off before.    *)
ReceivedIsSent ==
    estado = "PAYLOAD" =>
        /\ bytes_recebidos = taken
        /\ \A k \in 1..taken : BUFFER_ARQUIVO[k] = <<transfer, k>>

(* "Arq lido" is sent only when all that the sender wrote is in the buffer *)
(* and until the next connection it stays there.                           *)
AckMeansReceived ==
    acked => \A k \in 1..length[transfer] : BUFFER_ARQUIVO[k] = <<transfer, k>>

(* Who has sent a file longer than the header hears of it, or is killed.   *)
(* With one that is not, ReceiveLast is out of reach: the receiver wants   *)
(* one more byte, the sender its answer.                                   *)
Confirmed ==
    (sender = "waiting" /\ length[transfer] > HEADER) ~> sender # "waiting"

(* The sender reports success only if the file is there, unless the disk   *)
(* failed: sender.c says it sends the complete file.                       *)
ConfirmedIsSaved ==
    sender = "confirmed" /\ at = "shell" /\ saved # NONE =>
        saved.data = [k \in 1..length[transfer] |-> <<transfer, HEADER + k>>]
=============================================================================
