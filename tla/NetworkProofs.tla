----------------------------- MODULE NetworkProofs ----------------------------
(***************************************************************************)
(* Proofs about the two users of the W5100 in the BIOS.                    *)
(*                                                                         *)
(* FileTransfer, for any number and length of files, any size of the       *)
(* chip's memory and any width of its registers.                           *)
(*                                                                         *)
(* Dhcp, for every set of servers and of other machines, every             *)
(* distribution of the addresses and every size of the socket's memory.    *)
(***************************************************************************)
EXTENDS FileTransfer, Dhcp, Integers, SequenceTheorems, TLAPS

-------------------------------------------------------------------------------
(* FileTransfer.                                                           *)

Types ==
    /\ sender \in {"idle", "sending", "waiting", "confirmed", "closed"}
    /\ transfer \in 0..Transfers /\ length \in [1..Transfers -> Length]
    /\ sr \in {"CLOSED", "INIT", "LISTEN", "ESTABLISHED", "CLOSE_WAIT", "DISCONNECTING"}
    /\ {sent, arrived, taken, bytes_recebidos, tamanho_total, rx_avail} \subseteq Nat
    /\ {val1, half} \subseteq Nat \cup {NONE} /\ {acked, lowFirst} \subseteq BOOLEAN
    /\ at \in {"shell", "poll", "size", "receive", "save"} /\ estado \in {"HEADER", "PAYLOAD"}
    /\ BUFFER_ARQUIVO \in [RAM -> (0..Transfers) \X (RAM \cup {JUNK})]

(* What is on its way. *)
Counts ==
    /\ taken <= arrived /\ arrived <= sent /\ arrived - taken <= RX_SIZE
    /\ IF transfer = 0 THEN sent = 0 ELSE sent <= length[transfer]
    /\ sender \in {"sending", "waiting", "confirmed"} => transfer # 0

(* Where the receiver stands says how far the connection can be. *)
Phases ==
    /\ sr \in {"INIT", "LISTEN"} => at = "poll" /\ estado = "HEADER" /\ arrived = 0
    /\ sr = "ESTABLISHED" => at \in {"poll", "size", "receive"}
    /\ sr = "ESTABLISHED" \/ at \in {"size", "receive"} =>
          transfer # 0 /\ ~acked /\ (estado = "HEADER" => taken = 0)
    /\ at \in {"size", "receive"} => sr \in {"ESTABLISHED", "CLOSE_WAIT", "CLOSED"}
    /\ acked => transfer # 0 /\ sr # "CLOSE_WAIT" /\ estado = "HEADER"

Payload ==
    estado = "PAYLOAD" =>
        /\ transfer # 0 /\ tamanho_total = length[transfer]
        /\ HEADER <= taken /\ taken <= length[transfer]

(* A value read of the register is never more than what has arrived.  With *)
(* the high digit first none of the readings can be; with the low digit    *)
(* first one can, but not a second one that is equal to it.                *)
Reading ==
    /\ at = "receive" => rx_avail <= arrived - taken
    /\ at # "size" => val1 = NONE /\ half = NONE
    /\ at = "size" /\ lowFirst =>
          \E early, late \in 0..arrived - taken :
             /\ early <= late
             /\ half # NONE => half = late % DIGIT
             /\ val1 # NONE => \E x \in 0..DIGIT - 1 : val1 = (early \div DIGIT) * DIGIT + x
    /\ at = "size" /\ ~lowFirst /\ half # NONE =>
          \E early \in 0..arrived - taken : half = early \div DIGIT

IInv == Types /\ Counts /\ Phases /\ Payload /\ Reading /\ ReceivedIsSent /\ AckMeansReceived

USE FileTransferAssumption

LEMMA Sizes ==
    /\ HEADER \in Nat /\ HEADER > 0 /\ RX_SIZE \in Nat /\ DIGIT \in Nat /\ DIGIT > 1
    /\ Transfers \in Nat /\ NONE \notin Nat
    /\ Longest \in Length /\ \A n \in Length : n \in Nat /\ n > 0 /\ n <= Longest
  <1>1. \E n \in Length : \A m \in Length : m <= n
    BY DEF FileTransferAssumption
  <1>2. Longest \in Length /\ \A m \in Length : m <= Longest
    BY <1>1 DEF Longest
  <1> QED
    BY <1>2 DEF FileTransferAssumption

-----------------------------------------------------------------------------
(* Digits. *)
LEMMA Digits ==
  ASSUME NEW n \in Nat
  PROVE  /\ n \div DIGIT \in Nat /\ n % DIGIT \in 0..DIGIT - 1
         /\ n = (n \div DIGIT) * DIGIT + (n % DIGIT)
  <1> DEFINE q == n \div DIGIT
             r == n % DIGIT
  <1>1. r \in 0..DIGIT - 1 /\ q \in Int
    BY Sizes
  <1>2. ASSUME NEW a, NEW b, a = q, b = r PROVE n = DIGIT * a + b
    BY <1>2, Sizes
  <1> HIDE DEF q, r
  <1>3. n = DIGIT * q + r
    BY <1>2
  <1>4. q \in Nat
    <2> SUFFICES ASSUME q < 0 PROVE FALSE
      BY <1>1
    <2>1. DIGIT * q <= DIGIT * (-1)
      BY <1>1, Sizes
    <2> QED
      BY <1>1, <1>3, <2>1, Sizes
  <1>5. DIGIT * q = q * DIGIT
    BY <1>4, Sizes
  <1> QED
    BY <1>1, <1>3, <1>4, <1>5 DEF q, r

(* A smaller high digit makes a smaller number. *)
LEMMA HighFirst ==
  ASSUME NEW a \in Nat, NEW b \in Nat, NEW x \in 0..DIGIT - 1, a < b
  PROVE  a * DIGIT + x < b * DIGIT
  <1>1. (a + 1) * DIGIT <= b * DIGIT
    BY Sizes
  <1>2. (a + 1) * DIGIT = a * DIGIT + DIGIT
    BY Sizes
  <1>3. a * DIGIT \in Nat /\ b * DIGIT \in Nat
    BY Sizes
  <1> QED
    BY <1>1, <1>2, <1>3, Sizes

LEMMA Monotone ==
  ASSUME NEW m \in Nat, NEW n \in Nat, m <= n
  PROVE  m \div DIGIT <= n \div DIGIT
  <1> DEFINE a == m \div DIGIT
             b == n \div DIGIT
  <1>1. /\ a \in Nat /\ m % DIGIT \in 0..DIGIT - 1 /\ m = a * DIGIT + (m % DIGIT)
        /\ b \in Nat /\ n % DIGIT \in 0..DIGIT - 1 /\ n = b * DIGIT + (n % DIGIT)
    BY Digits
  <1> HIDE DEF a, b
  <1> SUFFICES ASSUME b < a PROVE FALSE
    BY <1>1 DEF a, b
  <1>2. b * DIGIT + (n % DIGIT) < a * DIGIT
    BY <1>1, HighFirst
  <1>3. a * DIGIT \in Nat
    BY <1>1, Sizes
  <1> QED
    BY <1>1, <1>2, <1>3, Sizes

(* The high digit read first: the value was exceeded by then. *)
LEMMA TornHighFirst ==
  ASSUME NEW early \in Nat, NEW now \in Nat, early <= now
  PROVE  (early \div DIGIT) * DIGIT + (now % DIGIT) <= now
  <1> DEFINE a == early \div DIGIT
             b == now \div DIGIT
  <1>1. a \in Nat /\ b \in Nat /\ now % DIGIT \in 0..DIGIT - 1 /\ now = b * DIGIT + (now % DIGIT)
    BY Digits
  <1>2. a <= b
    BY Monotone
  <1> HIDE DEF a, b
  <1>3. a * DIGIT <= b * DIGIT /\ a * DIGIT \in Nat /\ b * DIGIT \in Nat
    BY <1>1, <1>2, Sizes
  <1> QED
    BY <1>1, <1>3, Sizes DEF a

(* Numbers with their digits: equal only if the digits are. *)
LEMMA SameHigh ==
  ASSUME NEW a \in Nat, NEW b \in Nat, NEW x \in 0..DIGIT - 1, NEW y \in 0..DIGIT - 1,
         a * DIGIT + x = b * DIGIT + y
  PROVE  a = b
  <1>1. a * DIGIT \in Nat /\ b * DIGIT \in Nat
    BY Sizes
  <1>2. ~(a < b)
    BY <1>1, HighFirst, Sizes
  <1>3. ~(b < a)
    BY <1>1, HighFirst, Sizes
  <1> QED
    BY <1>2, <1>3

(* The low digit read first: if an earlier reading gave the same value,    *)
(* the high digit has not changed in between, and the value was right when *)
(* the low digit was read.                                                 *)
LEMMA TornLowFirst ==
  ASSUME NEW early \in Nat, NEW late \in Nat, NEW now \in Nat, early <= late, late <= now,
         NEW x \in 0..DIGIT - 1,
         (now \div DIGIT) * DIGIT + (late % DIGIT) = (early \div DIGIT) * DIGIT + x
  PROVE  (now \div DIGIT) * DIGIT + (late % DIGIT) <= now
  <1>1. /\ now \div DIGIT \in Nat /\ early \div DIGIT \in Nat /\ late \div DIGIT \in Nat
        /\ late % DIGIT \in 0..DIGIT - 1 /\ late = (late \div DIGIT) * DIGIT + (late % DIGIT)
    BY Digits
  <1>2. now \div DIGIT = early \div DIGIT
    BY <1>1, SameHigh
  <1>3. early \div DIGIT <= late \div DIGIT /\ late \div DIGIT <= now \div DIGIT
    BY Monotone
  <1>4. late \div DIGIT = now \div DIGIT
    BY <1>1, <1>2, <1>3
  <1> QED
    BY <1>1, <1>4
-----------------------------------------------------------------------------
LEMMA InitIInv == Init => IInv
  <1> SUFFICES ASSUME Init PROVE IInv
    OBVIOUS
  <1>1. Types
    <2>1. BUFFER_ARQUIVO \in [RAM -> (0..Transfers) \X (RAM \cup {JUNK})]
      BY Sizes DEF Init
    <2>2. length \in [1..Transfers -> Length] /\ transfer \in 0..Transfers
      BY Sizes DEF Init
    <2>3. lowFirst \in BOOLEAN /\ acked \in BOOLEAN
      BY DEF Init
    <2> QED
      BY <2>1, <2>2, <2>3 DEF Init, Types
  <1>2. Counts
    BY Sizes DEF Init, Counts
  <1>3. Phases /\ Payload /\ Reading /\ ReceivedIsSent /\ AckMeansReceived
    BY DEF Init, Phases, Payload, Reading, ReceivedIsSent, AckMeansReceived
  <1> QED
    BY <1>1, <1>2, <1>3 DEF IInv

(* More may arrive between the reading of one digit and the next. *)
LEMMA ReadingGrows ==
  ASSUME IInv, arrived' \in Nat, arrived <= arrived',
         UNCHANGED <<taken, at, reading>>
  PROVE  Reading'
  <1> USE DEF IInv, Types, Counts, reading
  <1>1. at' = "receive" => rx_avail' <= arrived' - taken'
    BY DEF Reading
  <1>2. 0..arrived - taken \subseteq (0..arrived - taken)'
    OBVIOUS
  <1>3. (at = "size" /\ lowFirst =>
          \E early, late \in 0..arrived - taken :
             /\ early <= late
             /\ half # NONE => half = late % DIGIT
             /\ val1 # NONE => \E x \in 0..DIGIT - 1 : val1 = (early \div DIGIT) * DIGIT + x)'
    <2> SUFFICES ASSUME at = "size", lowFirst
                 PROVE  \E early, late \in 0..arrived' - taken' :
             /\ early <= late
             /\ half # NONE => half = late % DIGIT
             /\ val1 # NONE => \E x \in 0..DIGIT - 1 : val1 = (early \div DIGIT) * DIGIT + x
      OBVIOUS
    <2>1. PICK early, late \in 0..arrived - taken :
             /\ early <= late
             /\ half # NONE => half = late % DIGIT
             /\ val1 # NONE => \E x \in 0..DIGIT - 1 : val1 = (early \div DIGIT) * DIGIT + x
      BY DEF Reading
    <2>2. early \in 0..arrived' - taken' /\ late \in 0..arrived' - taken'
      BY <1>2
    <2> QED
      BY <2>1, <2>2
  <1>4. (at = "size" /\ ~lowFirst /\ half # NONE =>
          \E early \in 0..arrived - taken : half = early \div DIGIT)'
    BY <1>2 DEF Reading
  <1> QED
    BY <1>1, <1>3, <1>4 DEF Reading

(* A step that leaves the receiver, its place and the counts alone. *)
LEMMA SameReceiver ==
  ASSUME IInv, UNCHANGED <<length, transfer, taken, at, receiver, reading>>,
         arrived' \in Nat, arrived <= arrived', acked' = acked
  PROVE  Payload' /\ Reading' /\ ReceivedIsSent' /\ AckMeansReceived'
  <1>1. Reading'
    BY ReadingGrows DEF IInv
  <1> QED
    BY <1>1 DEF IInv, Payload, ReceivedIsSent, AckMeansReceived, receiver

LEMMA SenderStep ==
  ASSUME IInv,
         conectar_servidor \/ escrever_dados \/ ler_dados \/ SenderCloses \/ SenderDies
  PROVE  IInv'
  <1> USE DEF IInv
  <1>1. CASE conectar_servidor
    <2>1. /\ transfer' = transfer + 1 /\ transfer' \in 1..Transfers /\ sent' = 0 /\ acked' = FALSE
          /\ sr = "LISTEN" /\ sr' = "ESTABLISHED" /\ sender' = "sending"
          /\ at = "poll" /\ estado = "HEADER" /\ arrived = 0 /\ taken = 0
          /\ UNCHANGED <<length, arrived, taken, at, estado, bytes_recebidos, tamanho_total,
                         BUFFER_ARQUIVO, saved, val1, half, lowFirst, rx_avail>>
      BY <1>1, Sizes DEF conectar_servidor, Phases, Types, Counts, receiver, reading
    <2>2. length[transfer'] \in Nat
      BY <2>1, Sizes DEF Types
    <2>3. Types'
      <3>1. transfer' \in 0..Transfers
        BY <2>1, Sizes
      <3> QED
        BY <2>1, <3>1 DEF Types
    <2>4. Counts' /\ Phases' /\ Payload' /\ ReceivedIsSent' /\ AckMeansReceived'
      BY <2>1, <2>2, Sizes DEF Counts, Phases, Payload, ReceivedIsSent, AckMeansReceived
    <2>5. Reading'
      BY <2>1 DEF Reading
    <2> QED
      BY <2>3, <2>4, <2>5
  <1>2. CASE escrever_dados
    <2>1. /\ transfer # 0 /\ sent' \in sent + 1..length[transfer]
          /\ sender' \in {"sending", "waiting"}
          /\ UNCHANGED <<transfer, length, sr, arrived, taken, acked, at, receiver, reading>>
      BY <1>2 DEF escrever_dados, Counts, chip
    <2>2. length[transfer] \in Nat
      <3>1. transfer \in 1..Transfers
        BY <2>1, Sizes DEF Types
      <3> QED
        BY <3>1, Sizes DEF Types
    <2>3. Types' /\ Counts' /\ Phases'
      BY <2>1, <2>2 DEF Types, Counts, Phases, receiver, reading
    <2>4. Payload' /\ Reading' /\ ReceivedIsSent' /\ AckMeansReceived'
      BY <2>1, SameReceiver DEF Types
    <2> QED
      BY <2>3, <2>4
  <1>3. CASE ler_dados \/ SenderCloses \/ SenderDies
    <2>1. /\ sender' \in {"confirmed", "closed"} /\ transfer # 0
          /\ UNCHANGED <<transfer, length, sent, sr, arrived, taken, acked, at, receiver, reading>>
      BY <1>3 DEF ler_dados, SenderCloses, SenderDies, Counts, chip
    <2>2. Types' /\ Counts' /\ Phases'
      BY <2>1 DEF Types, Counts, Phases, receiver, reading
    <2>3. Payload' /\ Reading' /\ ReceivedIsSent' /\ AckMeansReceived'
      BY <2>1, SameReceiver DEF Types
    <2> QED
      BY <2>2, <2>3
  <1> QED
    BY <1>1, <1>2, <1>3

LEMMA ChipStep ==
  ASSUME IInv, Deliver \/ DeliverEnd \/ Reset \/ ChipCloses
  PROVE  IInv'
  <1> USE DEF IInv
  <1>1. CASE Deliver
    <2>1. /\ sr = "ESTABLISHED" /\ arrived' \in arrived + 1..Lesser(sent, taken + RX_SIZE)
          /\ UNCHANGED <<sender, transfer, length, sent, sr, taken, acked, at, receiver, reading>>
      BY <1>1 DEF Deliver, pc
    <2>2. arrived' \in Nat /\ arrived <= arrived' /\ arrived' <= sent /\ arrived' - taken <= RX_SIZE
      BY <2>1, Sizes DEF Types, Lesser
    <2>3. Types' /\ Counts' /\ Phases'
      BY <2>1, <2>2, Sizes DEF Types, Counts, Phases, receiver, reading
    <2>4. Payload' /\ Reading' /\ ReceivedIsSent' /\ AckMeansReceived'
      BY <2>1, <2>2, SameReceiver
    <2> QED
      BY <2>3, <2>4
  <1>2. CASE DeliverEnd \/ Reset \/ ChipCloses
    <2>1. /\ sr' = sr \/ (sr = "ESTABLISHED" /\ sr' \in {"CLOSE_WAIT", "CLOSED"})
             \/ (sr = "DISCONNECTING" /\ sr' = "CLOSED")
          /\ sender' \in {sender, "idle"}
          /\ UNCHANGED <<transfer, length, sent, arrived, taken, acked, at, receiver, reading>>
      BY <1>2 DEF DeliverEnd, Reset, ChipCloses, pc
    <2>2. Types' /\ Counts'
      BY <2>1 DEF Types, Counts, receiver, reading
    <2>3. Phases'
      BY <2>1 DEF Types, Phases, receiver
    <2>4. Payload' /\ Reading' /\ ReceivedIsSent' /\ AckMeansReceived'
      BY <2>1, SameReceiver DEF Types
    <2> QED
      BY <2>2, <2>3, <2>4
  <1> QED
    BY <1>1, <1>2

-----------------------------------------------------------------------------
LEMMA PollStep ==
  ASSUME IInv,
         recvmain \/ PollClosed \/ PollInit \/ PollEstablished \/ PollCloseWait \/ saving_file
  PROVE  IInv'
  <1> USE DEF IInv
  <1>1. CASE recvmain \/ PollInit \/ PollCloseWait \/ saving_file
    <2>1. /\ at \notin {"size", "receive"} /\ at' \in {"poll", "save", "shell"}
          /\ UNCHANGED <<sender, transfer, length, sent, arrived, taken, acked, estado,
                         bytes_recebidos, tamanho_total, BUFFER_ARQUIVO, reading>>
      BY <1>1 DEF recvmain, PollInit, PollCloseWait, saving_file, pc, chip, receiver
    <2>2. Types' /\ Counts'
      BY <1>1, <2>1 DEF Types, Counts, reading, recvmain, PollInit, PollCloseWait, saving_file, chip
    <2>3. Phases'
      BY <1>1, <2>1 DEF Types, Phases, recvmain, PollInit, PollCloseWait, saving_file, chip
    <2>4. Payload' /\ Reading' /\ ReceivedIsSent' /\ AckMeansReceived'
      BY <2>1 DEF Payload, Reading, ReceivedIsSent, AckMeansReceived, reading
    <2> QED
      BY <2>2, <2>3, <2>4
  <1>2. CASE PollClosed
    <2>1. /\ at = "poll" /\ sr = "CLOSED" /\ sr' = "INIT" /\ arrived' = 0 /\ taken' = 0
          /\ estado' = "HEADER" /\ bytes_recebidos' = 0
          /\ UNCHANGED <<sender, transfer, length, sent, acked, at, tamanho_total,
                         BUFFER_ARQUIVO, saved, val1, half, lowFirst, rx_avail>>
      BY <1>2 DEF PollClosed, pc, reading
    <2>2. Types' /\ Counts' /\ Phases'
      BY <2>1, Sizes DEF Types, Counts, Phases
    <2>3. Payload' /\ Reading' /\ ReceivedIsSent' /\ AckMeansReceived'
      BY <2>1 DEF Payload, Reading, ReceivedIsSent, AckMeansReceived
    <2> QED
      BY <2>2, <2>3
  <1>3. CASE PollEstablished
    <2>1. /\ at = "poll" /\ sr = "ESTABLISHED" /\ at' = "size" /\ val1 = NONE /\ half = NONE
          /\ UNCHANGED <<sender, transfer, length, sent, sr, arrived, taken, acked, estado,
                         bytes_recebidos, tamanho_total, BUFFER_ARQUIVO, saved, val1, half,
                         lowFirst, rx_avail>>
      BY <1>3 DEF PollEstablished, pc, chip, receiver, reading, Reading
    <2>2. Types' /\ Counts' /\ Phases'
      BY <2>1 DEF Types, Counts, Phases
    <2>3. 0 \in 0..arrived - taken
      BY DEF Types, Counts
    <2>4. Reading'
      BY <2>1, <2>3 DEF Reading
    <2>5. Payload' /\ ReceivedIsSent' /\ AckMeansReceived'
      BY <2>1 DEF Payload, ReceivedIsSent, AckMeansReceived
    <2> QED
      BY <2>2, <2>4, <2>5
  <1> QED
    BY <1>1, <1>2, <1>3
-----------------------------------------------------------------------------
(* What reading the register leaves alone. *)
LEMMA ReadingOnly ==
  ASSUME IInv, at = "size", at' \in {"size", "receive"}, Reading',
         UNCHANGED <<pc, chip, receiver, lowFirst>>,
         {val1', half'} \subseteq Nat \cup {NONE}, rx_avail' \in Nat
  PROVE  IInv'
  <1> USE DEF IInv, pc, chip, receiver
  <1>1. Types' /\ Counts'
    BY DEF Types, Counts
  <1>2. Phases'
    BY DEF Phases
  <1>3. Payload' /\ ReceivedIsSent' /\ AckMeansReceived'
    BY DEF Payload, ReceivedIsSent, AckMeansReceived
  <1> QED
    BY <1>1, <1>2, <1>3

LEMMA FirstHalfStep ==
  ASSUME IInv, ReadFirstHalf
  PROVE  IInv'
  <1> DEFINE n == arrived - taken
  <1>1. /\ at = "size" /\ at' = "size" /\ half = NONE
        /\ half' = IF lowFirst THEN n % DIGIT ELSE n \div DIGIT
        /\ UNCHANGED <<pc, chip, receiver, lowFirst>> /\ UNCHANGED <<val1, rx_avail, arrived, taken>>
    BY DEF ReadFirstHalf, LowDigit, HighDigit, Register, chip
  <1>2. n \in Nat /\ rx_avail \in Nat /\ val1 \in Nat \cup {NONE}
    BY DEF IInv, Types, Counts
  <1>3. n % DIGIT \in Nat /\ n \div DIGIT \in Nat
    BY <1>2, Digits, Sizes
  <1>4. half' \in Nat /\ half' # NONE
    BY <1>1, <1>3, Sizes
  <1>5. Reading'
    <2>1. CASE lowFirst
      <3>1. PICK early, late \in 0..n :
               /\ early <= late
               /\ val1 # NONE => \E x \in 0..DIGIT - 1 : val1 = (early \div DIGIT) * DIGIT + x
        BY <1>1, <2>1 DEF IInv, Reading
      <3>2. n \in 0..n' /\ early \in 0..n' /\ early <= n /\ half' = n % DIGIT
        BY <1>1, <1>2, <2>1, <3>1
      <3> HIDE DEF n
      <3>3. \E e, l \in 0..n' :
               /\ e <= l
               /\ half' # NONE => half' = l % DIGIT
               /\ val1' # NONE => \E x \in 0..DIGIT - 1 : val1' = (e \div DIGIT) * DIGIT + x
        BY <1>1, <3>1, <3>2
      <3> QED
        BY <1>1, <2>1, <3>3 DEF Reading, n
    <2>2. CASE ~lowFirst
      <3>1. half' = n \div DIGIT /\ n \in 0..n'
        BY <1>1, <1>2, <2>2
      <3> QED
        BY <1>1, <2>2, <3>1 DEF Reading
    <2> QED
      BY <2>1, <2>2
  <1> QED
    BY <1>1, <1>2, <1>4, <1>5, ReadingOnly

(* What is accepted has arrived. *)
LEMMA SecondHalfStep ==
  ASSUME IInv, ReadSecondHalf
  PROVE  IInv'
  <1> DEFINE n == arrived - taken
             v == Read16
  <1>1. /\ at = "size" /\ half # NONE /\ half' = NONE
        /\ UNCHANGED <<pc, chip, receiver, lowFirst>> /\ UNCHANGED <<arrived, taken>>
        /\ v = IF lowFirst THEN (n \div DIGIT) * DIGIT + half ELSE half * DIGIT + (n % DIGIT)
    BY DEF ReadSecondHalf, Read16, LowDigit, HighDigit, Register, chip
  <1>2. n \in Nat /\ rx_avail \in Nat /\ val1 \in Nat \cup {NONE} /\ half \in Nat
    BY <1>1 DEF IInv, Types, Counts
  <1>3. n % DIGIT \in 0..DIGIT - 1 /\ n \div DIGIT \in Nat
    BY <1>2, Digits
  <1>4. v \in Nat
    <2>1. (n \div DIGIT) * DIGIT \in Nat /\ half * DIGIT \in Nat /\ n % DIGIT \in Nat
      BY <1>2, <1>3, Sizes
    <2> HIDE DEF n, v
    <2> QED
      BY <1>1, <1>2, <2>1
  <1> HIDE DEF v
  <1>5. CASE Accepts(v)
    <2>1. at' = "receive" /\ rx_avail' = v /\ val1' = NONE
      BY <1>5 DEF ReadSecondHalf, v
    <2>2. v <= n
      <3>1. CASE val1 = NONE
        BY <1>2, <1>5, <3>1 DEF Accepts
      <3>2. CASE val1 # NONE /\ lowFirst
        <4>1. PICK early, late \in 0..n :
                 /\ early <= late /\ half = late % DIGIT
                 /\ \E x \in 0..DIGIT - 1 : val1 = (early \div DIGIT) * DIGIT + x
          BY <1>1, <3>2 DEF IInv, Reading
        <4>2. PICK x \in 0..DIGIT - 1 : val1 = (early \div DIGIT) * DIGIT + x
          BY <4>1
        <4>3. v = (n \div DIGIT) * DIGIT + (late % DIGIT) /\ v = (early \div DIGIT) * DIGIT + x
          BY <1>1, <1>5, <3>2, <4>1, <4>2 DEF Accepts
        <4>4. early \in Nat /\ late \in Nat /\ early <= late /\ late <= n
          BY <1>2, <4>1
        <4> HIDE DEF n
        <4> QED
          BY <1>2, <4>2, <4>3, <4>4, TornLowFirst
      <3>3. CASE val1 # NONE /\ ~lowFirst
        <4>1. PICK early \in 0..n : half = early \div DIGIT
          BY <1>1, <3>3 DEF IInv, Reading
        <4>2. v = (early \div DIGIT) * DIGIT + (n % DIGIT) /\ early \in Nat /\ early <= n
          BY <1>1, <1>2, <3>3, <4>1
        <4> HIDE DEF n
        <4> QED
          BY <1>2, <4>2, TornHighFirst
      <3> QED
        BY <3>1, <3>2, <3>3
    <2>3. Reading'
      BY <1>1, <2>1, <2>2 DEF Reading
    <2> QED
      BY <1>1, <1>2, <1>4, <2>1, <2>3, ReadingOnly
  <1>6. CASE ~Accepts(v)
    <2>1. at' = "size" /\ rx_avail' = rx_avail /\ val1' = IF val1 = NONE THEN v ELSE NONE
      BY <1>1, <1>6 DEF ReadSecondHalf, v
    <2>2. Reading'
      <3>1. CASE lowFirst
        <4>1. \E x \in 0..DIGIT - 1 : v = (n \div DIGIT) * DIGIT + x
          <5>1. PICK late \in 0..n : half = late % DIGIT
            BY <1>1, <3>1 DEF IInv, Reading
          <5>2. half \in 0..DIGIT - 1
            BY <1>2, <5>1, Sizes
          <5> QED
            BY <1>1, <3>1, <5>2
        <4>2. n' = n /\ n \in 0..n
          BY <1>1, <1>2
        <4> HIDE DEF n
        <4>3. \E e, l \in 0..n' :
                 /\ e <= l
                 /\ half' # NONE => half' = l % DIGIT
                 /\ val1' # NONE => \E x \in 0..DIGIT - 1 : val1' = (e \div DIGIT) * DIGIT + x
          <5>1. n \in 0..n' /\ half' = NONE
            BY <1>1, <4>2
          <5>2. val1' # NONE => \E x \in 0..DIGIT - 1 : val1' = (n \div DIGIT) * DIGIT + x
            BY <2>1, <4>1
          <5>3. n <= n
            BY <1>2
          <5> QED
            BY <5>1, <5>2, <5>3
        <4> QED
          BY <1>1, <2>1, <3>1, <4>3 DEF Reading, n
      <3>2. CASE ~lowFirst
        BY <1>1, <2>1, <3>2 DEF Reading
      <3> QED
        BY <3>1, <3>2
    <2> QED
      BY <1>1, <1>2, <1>4, <2>1, <2>2, ReadingOnly
  <1> QED
    BY <1>5, <1>6

-----------------------------------------------------------------------------
(* Bytes go from the connection to the buffer, in order. *)
LEMMA Received ==
  ASSUME Types, transfer # 0, NEW n \in Nat, w5100_recv_bytes(taken, n), UNCHANGED transfer,
         taken + n <= length[transfer] \/ taken + n <= HEADER,
         \A k \in 1..taken : BUFFER_ARQUIVO[k] = <<transfer, k>>
  PROVE  /\ taken' = taken + n /\ taken' \in Nat
         /\ BUFFER_ARQUIVO' \in [RAM -> (0..Transfers) \X (RAM \cup {JUNK})]
         /\ \A k \in 1..taken + n : BUFFER_ARQUIVO'[k] = <<transfer, k>>
  <1>1. taken \in Nat /\ transfer \in 1..Transfers
    BY Sizes DEF Types
  <1>2. taken + n <= HEADER + Longest
    <2>1. length[transfer] \in Nat /\ length[transfer] <= Longest /\ Longest \in Nat
      BY <1>1, Sizes DEF Types
    <2>2. HEADER \in Nat
      BY Sizes
    <2> QED
      BY <1>1, <2>1, <2>2
  <1>3. \A k \in 1..taken + n : k \in RAM
    BY <1>1, <1>2, Sizes DEF RAM
  <1>4. /\ taken' = taken + n
        /\ BUFFER_ARQUIVO' = [k \in RAM |-> IF k \in taken + 1..taken + n
                                  THEN <<transfer, taken + k - taken>> ELSE BUFFER_ARQUIVO[k]]
    BY DEF w5100_recv_bytes
  <1>5. \A k \in RAM : BUFFER_ARQUIVO'[k] = IF k \in taken + 1..taken + n
                                             THEN <<transfer, k>> ELSE BUFFER_ARQUIVO[k]
    BY <1>1, <1>4, Sizes DEF RAM
  <1>6. BUFFER_ARQUIVO' \in [RAM -> (0..Transfers) \X (RAM \cup {JUNK})]
    BY <1>1, <1>4, <1>5 DEF Types
  <1>7. \A k \in 1..taken + n : k \in 1..taken \/ k \in taken + 1..taken + n
    BY <1>1
  <1> QED
    BY <1>1, <1>3, <1>4, <1>5, <1>6, <1>7

LEMMA HeaderStep ==
  ASSUME IInv, ReceiveHeader
  PROVE  IInv'
  <1> USE DEF IInv
  <1>1. /\ at = "receive" /\ estado = "HEADER" /\ at' = "poll"
        /\ UNCHANGED <<sender, transfer, length, sent, sr, arrived, acked, saved,
                       val1, half, lowFirst, rx_avail>>
    BY DEF ReceiveHeader, pc, reading
  <1>2. /\ taken = 0 /\ transfer # 0 /\ ~acked /\ sr \in {"ESTABLISHED", "CLOSE_WAIT", "CLOSED"}
        /\ rx_avail <= arrived - taken /\ val1 = NONE /\ half = NONE
    BY <1>1 DEF Phases, Reading
  <1>3. Reading' /\ AckMeansReceived'
    BY <1>1, <1>2 DEF Reading, AckMeansReceived
  <1>4. CASE rx_avail >= HEADER
    <2>1. /\ w5100_recv_bytes(taken, HEADER) /\ tamanho_total' = length[transfer]
          /\ bytes_recebidos' = HEADER /\ estado' = "PAYLOAD"
      BY <1>2, <1>4 DEF ReceiveHeader
    <2>2. length[transfer] \in Nat /\ arrived <= length[transfer] /\ HEADER <= arrived
      <3>1. transfer \in 1..Transfers /\ {taken, arrived, sent, rx_avail} \subseteq Nat
        BY <1>2, Sizes DEF Types
      <3>2. length[transfer] \in Nat
        BY <3>1, Sizes DEF Types
      <3>3. arrived <= sent /\ sent <= length[transfer]
        BY <1>2 DEF Counts
      <3> QED
        BY <1>2, <1>4, <3>1, <3>2, <3>3, Sizes
    <2>3. taken + HEADER <= HEADER /\ \A k \in 1..taken : BUFFER_ARQUIVO[k] = <<transfer, k>>
      BY <1>2, Sizes
    <2>4. /\ taken' = HEADER
          /\ BUFFER_ARQUIVO' \in [RAM -> (0..Transfers) \X (RAM \cup {JUNK})]
          /\ \A k \in 1..HEADER : BUFFER_ARQUIVO'[k] = <<transfer, k>>
      <3>1. /\ taken' = taken + HEADER
            /\ BUFFER_ARQUIVO' \in [RAM -> (0..Transfers) \X (RAM \cup {JUNK})]
            /\ \A k \in 1..taken + HEADER : BUFFER_ARQUIVO'[k] = <<transfer, k>>
        BY <1>1, <1>2, <2>1, <2>3, Received, Sizes
      <3>2. taken + HEADER = HEADER
        BY <1>2, Sizes
      <3> QED
        BY <3>1, <3>2
    <2>5. Types'
      BY <1>1, <2>1, <2>2, <2>4, Sizes DEF Types
    <2>6. Counts'
      BY <1>1, <1>2, <2>2, <2>4, Sizes DEF Types, Counts
    <2>7. Phases' /\ Payload' /\ ReceivedIsSent'
      BY <1>1, <1>2, <2>1, <2>2, <2>4, Sizes DEF Types, Phases, Payload, ReceivedIsSent
    <2> QED
      BY <1>3, <2>5, <2>6, <2>7
  <1>5. CASE ~(rx_avail >= HEADER)
    <2>1. UNCHANGED <<taken, BUFFER_ARQUIVO, tamanho_total, bytes_recebidos, estado>>
      BY <1>5 DEF ReceiveHeader
    <2> QED
      BY <1>1, <1>2, <1>3, <2>1 DEF Types, Counts, Phases, Payload, ReceivedIsSent
  <1> QED
    BY <1>4, <1>5

(* A block never goes past the end of the file, nor past what has arrived. *)
LEMMA BlockStep ==
  ASSUME IInv, ReceivePayload \/ ReceiveLast
  PROVE  /\ Block \in Nat /\ taken + Block <= arrived /\ taken + Block <= length[transfer]
         /\ taken' = taken + Block /\ taken' \in Nat /\ bytes_recebidos' = taken'
         /\ BUFFER_ARQUIVO' \in [RAM -> (0..Transfers) \X (RAM \cup {JUNK})]
         /\ \A k \in 1..taken' : BUFFER_ARQUIVO'[k] = <<transfer, k>>
  <1> USE DEF IInv
  <1>1. /\ at = "receive" /\ estado = "PAYLOAD" /\ UNCHANGED transfer
        /\ w5100_recv_bytes(bytes_recebidos, Block) /\ bytes_recebidos' = bytes_recebidos + Block
    BY DEF ReceivePayload, ReceiveLast, pc
  <1>2. /\ bytes_recebidos = taken /\ tamanho_total = length[transfer]
        /\ taken <= length[transfer] /\ rx_avail <= arrived - taken /\ transfer # 0
        /\ \A k \in 1..taken : BUFFER_ARQUIVO[k] = <<transfer, k>>
    BY <1>1 DEF Payload, ReceivedIsSent, Reading
  <1>3. {taken, arrived, rx_avail, tamanho_total} \subseteq Nat
    BY DEF Types
  <1>4. Block = IF rx_avail < length[transfer] - taken THEN rx_avail ELSE length[transfer] - taken
    BY <1>2 DEF Block, Lesser
  <1>5. Block \in Nat /\ taken + Block <= arrived /\ taken + Block <= length[transfer]
    BY <1>2, <1>3, <1>4
  <1> HIDE DEF Block
  <1>6. w5100_recv_bytes(taken, Block)
    BY <1>1, <1>2
  <1>7. /\ taken' = taken + Block /\ taken' \in Nat
        /\ BUFFER_ARQUIVO' \in [RAM -> (0..Transfers) \X (RAM \cup {JUNK})]
        /\ \A k \in 1..taken + Block : BUFFER_ARQUIVO'[k] = <<transfer, k>>
    BY <1>1, <1>2, <1>5, <1>6, Received
  <1> QED
    BY <1>1, <1>2, <1>5, <1>7

LEMMA PayloadStep ==
  ASSUME IInv, ReceivePayload \/ ReceiveLast \/ ReceiveNothing
  PROVE  IInv'
  <1> USE DEF IInv
  <1>1. /\ at = "receive" /\ estado = "PAYLOAD" /\ at' # "size" /\ at' # "receive"
        /\ UNCHANGED <<sender, transfer, length, sent, arrived, tamanho_total, saved,
                       val1, half, lowFirst, rx_avail>>
    BY DEF ReceivePayload, ReceiveLast, ReceiveNothing, pc, chip, receiver, reading
  <1>2. /\ transfer # 0 /\ ~acked /\ sr \in {"ESTABLISHED", "CLOSE_WAIT", "CLOSED"}
        /\ val1 = NONE /\ half = NONE
        /\ bytes_recebidos = taken /\ tamanho_total = length[transfer] /\ HEADER <= taken
    BY <1>1 DEF Phases, Reading, Payload, ReceivedIsSent
  <1>3. Reading'
    BY <1>1, <1>2 DEF Reading
  <1>4. CASE ReceivePayload \/ ReceiveLast
    <2>1. /\ Block \in Nat /\ taken + Block <= arrived /\ taken + Block <= length[transfer]
          /\ taken' = taken + Block /\ taken' \in Nat /\ bytes_recebidos' = taken'
          /\ BUFFER_ARQUIVO' \in [RAM -> (0..Transfers) \X (RAM \cup {JUNK})]
          /\ \A k \in 1..taken' : BUFFER_ARQUIVO'[k] = <<transfer, k>>
      BY <1>4, BlockStep
    <2>2. \/ sr' = sr /\ acked' = acked /\ at' = "poll" /\ estado' = "PAYLOAD"
          \/ /\ sr' \in {"CLOSED", "DISCONNECTING"} /\ acked' \in BOOLEAN
             /\ at' = "save" /\ estado' = "HEADER"
      BY <1>4 DEF ReceivePayload, ReceiveLast
    <2> HIDE DEF Block
    <2>3. Types'
      BY <1>1, <1>2, <2>1, <2>2 DEF Types
    <2>4. Counts'
      BY <1>1, <2>1, Sizes DEF Types, Counts
    <2>5. Phases'
      BY <1>1, <1>2, <2>1, <2>2 DEF Phases
    <2>6. Payload' /\ ReceivedIsSent'
      BY <1>1, <1>2, <2>1, <2>2, Sizes DEF Types, Payload, ReceivedIsSent
    <2>7. AckMeansReceived'
      <3>1. CASE ReceivePayload
        BY <1>2, <3>1 DEF ReceivePayload, AckMeansReceived
      <3>2. CASE ReceiveLast
        <4>1. taken + Block >= length[transfer]
          BY <1>2, <3>2 DEF ReceiveLast, Complete
        <4>2. taken' = length[transfer]
          <5>1. length[transfer] \in Nat /\ taken \in Nat
            BY <1>2 DEF Types
          <5> QED
            BY <2>1, <4>1, <5>1
        <4> QED
          BY <1>1, <2>1, <4>2 DEF AckMeansReceived
      <3> QED
        BY <1>4, <3>1, <3>2
    <2> QED
      BY <1>3, <2>3, <2>4, <2>5, <2>6, <2>7
  <1>5. CASE ReceiveNothing
    <2>1. at' = "poll" /\ UNCHANGED <<chip, receiver>>
      BY <1>5 DEF ReceiveNothing
    <2> QED
      BY <1>1, <1>2, <1>3, <2>1
      DEF Types, Counts, Phases, Payload, ReceivedIsSent, AckMeansReceived, chip, receiver
  <1> QED
    BY <1>4, <1>5

-----------------------------------------------------------------------------
LEMMA StepIInv ==
  ASSUME IInv, [Next]_vars
  PROVE  IInv'
  <1>1. CASE conectar_servidor \/ escrever_dados \/ ler_dados \/ SenderCloses \/ SenderDies
    BY <1>1, SenderStep
  <1>2. CASE Deliver \/ DeliverEnd \/ Reset \/ ChipCloses
    BY <1>2, ChipStep
  <1>3. CASE recvmain \/ PollClosed \/ PollInit \/ PollEstablished \/ PollCloseWait \/ saving_file
    BY <1>3, PollStep
  <1>4. CASE ReadFirstHalf
    BY <1>4, FirstHalfStep
  <1>5. CASE ReadSecondHalf
    BY <1>5, SecondHalfStep
  <1>6. CASE ReceiveHeader
    BY <1>6, HeaderStep
  <1>7. CASE ReceivePayload \/ ReceiveLast \/ ReceiveNothing
    BY <1>7, PayloadStep
  <1>8. CASE UNCHANGED vars
    BY <1>8 DEF IInv, vars, pc, chip, receiver, reading, Types, Counts, Phases, Payload,
                Reading, ReceivedIsSent, AckMeansReceived
  <1> QED
    BY <1>1, <1>2, <1>3, <1>4, <1>5, <1>6, <1>7, <1>8 DEF Next, Receiver

LEMMA Invariance == Spec => []IInv
  <1>1. IInv /\ [Next]_vars => IInv'
    BY StepIInv
  <1> QED
    BY InitIInv, <1>1, PTL DEF Spec

-----------------------------------------------------------------------------
(* The types, and the limits of the chip's memory: no more is ever taken   *)
(* out of it than has arrived, whatever value a torn reading of the size   *)
(* register gives.                                                         *)
THEOREM TypeCorrect == Spec => []TypeOK
  <1>1. IInv => TypeOK
    BY DEF IInv, Types, Counts, TypeOK
  <1> QED
    BY Invariance, <1>1, PTL

(* What recv.c has in its buffer of a file in progress is what was sent,   *)
(* byte for byte, whatever transfers broke off before.                     *)
THEOREM BytesInOrder == Spec => []ReceivedIsSent
  <1>1. IInv => ReceivedIsSent
    BY DEF IInv
  <1> QED
    BY Invariance, <1>1, PTL

(* recv.c answers "Arq lido" only with everything the sender writes in its *)
(* buffer.                                                                 *)
THEOREM AckIsTrue == Spec => []AckMeansReceived
  <1>1. IInv => AckMeansReceived
    BY DEF IInv
  <1> QED
    BY Invariance, <1>1, PTL

-------------------------------------------------------------------------------
(* Dhcp.                                                                   *)

\* The replies that are still to be read.
Unread == air \cup {rx[i] : i \in 1..Len(rx)}

\* What a server says of an address in a reply: the address is one of its
\* own, and an ACK means that it is leased to the machine it is meant for.
Truthful(m) ==
  /\ m.type \in {"OFFER", "ACK"} => m.addr \in Pool[m.server]
  /\ m.type = "ACK" => lease[m.addr] = m.to

\* An ACK for this computer comes from the server that it asked.
Asked(m) == m.type = "ACK" /\ m.to = Me => m.server = offer.server /\ offer.type = "OFFER"

\* A request names an address of the server it names; this computer has sent
\* one only if it took an offer, and then for what that offer said.
RequestsTrue ==
  \A q \in requests : q.type = "REQUEST" =>
     /\ q.server \in Servers /\ q.addr \in Pool[q.server]
     /\ q.from = Me => phase \in {"answer", "bound", "failed"} /\ q.server = offer.server
                       /\ offer.type = "OFFER"

\* The offer that is being requested.
OfferTrue ==
  phase \in {"reopen", "answer"} =>
     offer.type = "OFFER" /\ offer.server \in Servers /\ offer.addr \in Pool[offer.server]

\* The inductive invariant: the types, what is known of every unread reply (none
\* is an ACK for this computer before it has requested anything), of the
\* requests and of the offer, and the property itself.
DhcpIInv ==
  /\ DhcpTypeOK
  /\ \A m \in Unread : Truthful(m) /\ Asked(m)
  /\ \A m \in Unread : m.type = "ACK" /\ m.to = Me => phase \notin {"boot", "offer", "reopen"}
  /\ RequestsTrue
  /\ OfferTrue
  /\ OwnLease

-----------------------------------------------------------------------------
HIDE FileTransferAssumption
USE DhcpAssumption

\* Every address a server has is an address, and servers have nothing else.
LEMMA PoolAddresses == \A s \in Servers : \A a \in Pool[s] : a \in Addresses /\ a # None
  BY DEF Addresses

\* A reply in the socket has the type of a reply.
LEMMA UnreadReply == DhcpTypeOK => \A m \in Unread : m \in Reply
  <1> SUFFICES ASSUME DhcpTypeOK, NEW m \in Unread PROVE m \in Reply
    OBVIOUS
  <1>1. \A i \in 1..Len(rx) : rx[i] \in Reply
    BY DEF DhcpTypeOK
  <1> QED
    BY <1>1 DEF Unread, DhcpTypeOK

\* Closing the socket, or taking its first datagram, leaves no new reply.
LEMMA TailUnread ==
  ASSUME NEW S, NEW q \in Seq(S), q # <<>>
  PROVE  {Tail(q)[i] : i \in 1..Len(Tail(q))} \subseteq {q[i] : i \in 1..Len(q)}
  <1> SUFFICES ASSUME NEW i \in 1..Len(Tail(q))
               PROVE  \E j \in 1..Len(q) : Tail(q)[i] = q[j]
    OBVIOUS
  <1>1. Len(Tail(q)) = Len(q) - 1 /\ Tail(q)[i] = q[i + 1] /\ Len(q) \in Nat
    OBVIOUS
  <1>2. i + 1 \in 1..Len(q)
    BY <1>1
  <1> QED
    BY <1>1, <1>2

\* A datagram that reaches the socket is the only new one.
LEMMA AppendUnread ==
  ASSUME NEW S, NEW q \in Seq(S), NEW m \in S
  PROVE  {Append(q, m)[i] : i \in 1..Len(Append(q, m))} \subseteq {q[i] : i \in 1..Len(q)} \cup {m}
  <1> SUFFICES ASSUME NEW i \in 1..Len(Append(q, m))
               PROVE  Append(q, m)[i] = m \/ \E j \in 1..Len(q) : Append(q, m)[i] = q[j]
    OBVIOUS
  <1>1. Len(Append(q, m)) = Len(q) + 1 /\ Len(q) \in Nat
    OBVIOUS
  <1>2. CASE i = Len(q) + 1
    BY <1>2
  <1>3. CASE i # Len(q) + 1
    <2>1. i \in 1..Len(q) /\ Append(q, m)[i] = q[i]
      BY <1>1, <1>3
    <2> QED
      BY <2>1
  <1> QED
    BY <1>2, <1>3

LEMMA ArriveUnread ==
  ASSUME DhcpTypeOK, NEW m \in air, Arrive(m), air' \subseteq air
  PROVE  Unread' \subseteq Unread
  <1>1. m \in Reply /\ rx \in Seq(Reply)
    BY DEF DhcpTypeOK
  <1>2. CASE rx' = rx
    BY <1>2 DEF Unread
  <1>3. CASE rx' = Append(rx, m)
    BY <1>1, <1>3, AppendUnread DEF Unread
  <1> QED
    BY <1>2, <1>3 DEF Arrive

-----------------------------------------------------------------------------
\* At the start nothing is under way.
LEMMA InitDhcpIInv == DhcpInit => DhcpIInv
  <1> SUFFICES ASSUME DhcpInit PROVE DhcpIInv
    OBVIOUS
  <1>1. DhcpTypeOK
    <2>1. rx \in Seq(Reply) /\ Len(rx) <= RX_MAX /\ rx = <<>>
      BY DEF DhcpInit
    <2>2. heard \subseteq Servers \X requests /\ requests \subseteq Request /\ air \subseteq Reply
      BY DEF DhcpInit
    <2>3. lease \in [Addresses -> Clients \cup {None}] /\ up \subseteq Servers
      BY DEF DhcpInit
    <2> QED
      BY <2>1, <2>2, <2>3 DEF DhcpInit, DhcpTypeOK
  <1>2. Unread = {}
    BY DEF DhcpInit, Unread
  <1> QED
    BY <1>1, <1>2 DEF DhcpInit, DhcpIInv, RequestsTrue, OfferTrue, OwnLease

\* Each step keeps the types.
LEMMA StepTypeOK == DhcpTypeOK /\ OfferTrue /\ [DhcpNext]_dhcpVars => DhcpTypeOK'
  <1> SUFFICES ASSUME DhcpTypeOK, OfferTrue, [DhcpNext]_dhcpVars PROVE DhcpTypeOK'
    OBVIOUS
  <1> USE DEF DhcpTypeOK, Listening, CLOSE
  <1>1. CASE UNCHANGED dhcpVars
    BY <1>1 DEF dhcpVars
  <1>2. CASE Discover
    BY <1>2 DEF Discover, DISCOVER, Request, Clients
  <1>3. CASE TimeOut
    BY <1>3 DEF TimeOut, Late
  <1>4. CASE ReadOffer
    <2>1. Head(rx) \in Reply /\ Tail(rx) \in Seq(Reply) /\ Len(Tail(rx)) <= RX_MAX
      BY <1>4 DEF ReadOffer
    <2>2. UNCHANGED <<sipr, requests, heard, air, lease, trouble, up>> /\ rx_buf' \in Reply
      BY <1>4, <2>1 DEF ReadOffer
    <2>3. offer' \in Reply \cup {NoReply} /\ phase' \in {"reopen", "failed"}
      BY <1>4, <2>1 DEF ReadOffer
    <2>4. rx' \in Seq(Reply) /\ Len(rx') <= RX_MAX /\ (rx' # <<>> => phase' = "reopen")
      <3>1. CASE rx' = <<>>
        BY <3>1
      <3>2. CASE rx' = Tail(rx) /\ phase' = "reopen"
        BY <2>1, <3>2
      <3> QED
        BY <1>4, <3>1, <3>2 DEF ReadOffer
    <2>5. {offer, rx_buf}' \subseteq Reply \cup {NoReply}
      BY <2>2, <2>3
    <2> QED
      BY <2>2, <2>3, <2>4, <2>5
  <1>5. CASE RequestOffered
    <2>1. REQUEST(Me, offer) \in Request
      BY <1>5, PoolAddresses DEF RequestOffered, OfferTrue, REQUEST, Request, Clients
    <2>2. heard' \subseteq Servers \X requests'
      BY <1>5 DEF RequestOffered
    <2>3. UNCHANGED <<offer, rx_buf, air, lease, trouble, up>> /\ phase' = "answer" /\ sipr' = Static
      BY <1>5 DEF RequestOffered
    <2>4. rx' \in Seq(Reply) /\ Len(rx') <= RX_MAX
      <3>1. CASE rx' = <<>>
        BY <3>1
      <3>2. CASE rx' = rx
        BY <3>2
      <3> QED
        BY <1>5, <3>1, <3>2 DEF RequestOffered
    <2>5. requests' \subseteq Request
      BY <1>5, <2>1 DEF RequestOffered
    <2>6. {offer, rx_buf}' \subseteq Reply \cup {NoReply}
      BY <2>3
    <2> QED
      BY <2>2, <2>3, <2>4, <2>5, <2>6
  <1>6. CASE ReadAnswer
    <2>1. Head(rx) \in Reply
      BY <1>6 DEF ReadAnswer
    <2>2. UNCHANGED <<offer, requests, heard, air, lease, trouble, up>>
          /\ rx' = <<>> /\ rx_buf' \in Reply /\ phase' \in {"bound", "failed"}
      BY <1>6, <2>1 DEF ReadAnswer
    <2>3. sipr' \in Addresses \cup {Static, None}
      BY <1>6, <2>1 DEF ReadAnswer, Reply
    <2>4. rx' \in Seq(Reply) /\ Len(rx') <= RX_MAX
      BY <2>2
    <2> QED
      BY <2>2, <2>3, <2>4
  <1>7. ASSUME NEW c \in Others, OtherAsks(c) PROVE DhcpTypeOK'
    <2>1. requests' \subseteq Request /\ requests \subseteq requests'
      BY <1>7 DEF OtherAsks, DISCOVER, REQUEST, Request, Reply, Clients
    <2> QED
      BY <1>7, <2>1 DEF OtherAsks, client
  <1>8. ASSUME NEW s \in Servers, NEW q \in requests, Hear(s, q) PROVE DhcpTypeOK'
    <2>1. air' \subseteq Reply
      BY <1>8, PoolAddresses DEF Hear, Request, Reply
    <2>2. lease' \in [Addresses -> Clients \cup {None}]
      BY <1>8 DEF Hear, Request
    <2>3. heard' \subseteq Servers \X requests'
      BY <1>8 DEF Hear
    <2> QED
      BY <1>8, <2>1, <2>2, <2>3 DEF Hear, client
  <1>9. ASSUME NEW m \in air, DeliverReply(m) \/ Disturb(m) PROVE DhcpTypeOK'
    <2>1. rx' \in Seq(Reply) /\ Len(rx') <= RX_MAX /\ (rx' # <<>> => Listening)
      BY <1>9 DEF DeliverReply, Disturb, Arrive
    <2>2. air' \subseteq air /\ UNCHANGED <<client, requests, heard, lease, up>>
      BY <1>9 DEF DeliverReply, Disturb
    <2>3. trouble' \in BOOLEAN
      BY <1>9 DEF DeliverReply, Disturb
    <2> QED
      BY <2>1, <2>2, <2>3 DEF client
  <1> QED
    BY <1>1, <1>2, <1>3, <1>4, <1>5, <1>6, <1>7, <1>8, <1>9 DEF DhcpNext, Client

\* What was said in the replies remains true while no lease changes.
LEMMA KeepTrue ==
  ASSUME DhcpIInv, UNCHANGED lease, Unread' \subseteq Unread
  PROVE  \A m \in Unread' : Truthful(m)'
  BY DEF DhcpIInv, Truthful

\* The client takes a datagram from the socket or empties it.
LEMMA ClientUnread == DhcpTypeOK /\ Client => Unread' \subseteq Unread
  <1> SUFFICES ASSUME DhcpTypeOK, Client PROVE Unread' \subseteq Unread
    OBVIOUS
  <1>1. air' = air
    BY DEF Client, Discover, TimeOut, ReadOffer, RequestOffered, ReadAnswer
  <1>2. rx' = <<>> \/ rx' = rx \/ (rx # <<>> /\ rx' = Tail(rx))
    BY DEF Client, Discover, TimeOut, ReadOffer, RequestOffered, ReadAnswer, CLOSE
  <1>3. CASE rx' = <<>>
    BY <1>1, <1>3 DEF Unread
  <1>4. CASE rx' = rx
    BY <1>1, <1>4 DEF Unread
  <1>5. CASE rx # <<>> /\ rx' = Tail(rx)
    <2>1. rx \in Seq(Reply)
      BY DEF DhcpTypeOK
    <2> QED
      BY <1>1, <1>5, <2>1, TailUnread DEF Unread
  <1> QED
    BY <1>2, <1>3, <1>4, <1>5

\* The head of the socket's queue is a reply still to be read.
LEMMA HeadUnread == DhcpTypeOK /\ rx # <<>> => Head(rx) \in Unread /\ Head(rx) \in Reply
  <1> SUFFICES ASSUME DhcpTypeOK, rx # <<>> PROVE Head(rx) \in Unread
    BY UnreadReply
  <1>1. rx \in Seq(Reply)
    BY DEF DhcpTypeOK
  <1>2. Head(rx) = rx[1] /\ 1 \in 1..Len(rx)
    BY <1>1
  <1> QED
    BY <1>2 DEF Unread

\* The invariant without the types.
Known ==
  /\ \A m \in Unread : Truthful(m) /\ Asked(m)
  /\ \A m \in Unread : m.type = "ACK" /\ m.to = Me => phase \notin {"boot", "offer", "reopen"}
  /\ RequestsTrue
  /\ OfferTrue
  /\ OwnLease

\* Each step of the client keeps the invariant.
LEMMA ClientStep == DhcpIInv /\ Client => Known'
  <1> SUFFICES ASSUME DhcpIInv, Client PROVE Known'
    OBVIOUS
  <1>1. DhcpTypeOK /\ Unread' \subseteq Unread
    BY ClientUnread DEF DhcpIInv
  <1>2. UNCHANGED lease
    BY DEF Client, Discover, TimeOut, ReadOffer, RequestOffered, ReadAnswer
  <1>3. \A m \in Unread' : Truthful(m)'
    BY <1>1, <1>2, KeepTrue
  <1>4. CASE Discover
    <2>1. phase = "boot" /\ phase' = "offer" /\ UNCHANGED offer
          /\ requests' = requests \cup {DISCOVER(Me)}
      BY <1>4 DEF Discover
    <2>2. \A m \in Unread' : ~(m.type = "ACK" /\ m.to = Me)
      BY <1>1, <2>1 DEF DhcpIInv
    <2>3. RequestsTrue'
      BY <2>1 DEF DhcpIInv, RequestsTrue, DISCOVER
    <2> QED
      BY <1>3, <2>1, <2>2, <2>3 DEF Known, Asked, OfferTrue, OwnLease
  <1>5. CASE TimeOut
    <2>1. phase' = "failed" /\ Unread' \subseteq Unread /\ UNCHANGED <<offer, requests>>
          /\ phase \in {"offer", "answer"}
      BY <1>1, <1>5 DEF TimeOut, CLOSE
    <2>2. \A m \in Unread' : Asked(m)'
      BY <2>1 DEF DhcpIInv, Asked
    <2>3. RequestsTrue'
      BY <2>1 DEF DhcpIInv, RequestsTrue
    <2> QED
      BY <1>3, <2>1, <2>2, <2>3 DEF Known, OfferTrue, OwnLease
  <1>6. CASE ReadOffer
    <2>1. phase = "offer" /\ phase' \in {"reopen", "failed"} /\ UNCHANGED requests /\ rx # <<>>
      BY <1>6 DEF ReadOffer, CLOSE
    <2>2. \A m \in Unread' : ~(m.type = "ACK" /\ m.to = Me)
      BY <1>1, <2>1 DEF DhcpIInv
    <2>3. RequestsTrue'
      BY <2>1 DEF DhcpIInv, RequestsTrue
    <2>4. OfferTrue'
      <3>1. CASE Head(rx).type = "OFFER"
        <4>1. offer' = Head(rx) /\ Truthful(Head(rx)) /\ Head(rx) \in Reply
          BY <1>1, <1>6, <2>1, <3>1, HeadUnread DEF ReadOffer, DhcpIInv
        <4> QED
          BY <3>1, <4>1 DEF OfferTrue, Truthful, Reply
      <3>2. CASE Head(rx).type # "OFFER"
        BY <1>6, <3>2 DEF ReadOffer, CLOSE, OfferTrue
      <3> QED
        BY <3>1, <3>2
    <2> QED
      BY <1>3, <2>1, <2>2, <2>3, <2>4 DEF Known, Asked, OwnLease
  <1>7. CASE RequestOffered
    <2>1. phase = "reopen" /\ phase' = "answer" /\ UNCHANGED offer
          /\ requests' = requests \cup {REQUEST(Me, offer)}
      BY <1>7 DEF RequestOffered
    <2>2. \A m \in Unread' : ~(m.type = "ACK" /\ m.to = Me)
      BY <1>1, <2>1 DEF DhcpIInv
    <2>3. OfferTrue'
      BY <2>1 DEF DhcpIInv, OfferTrue
    <2>4. RequestsTrue'
      BY <2>1 DEF DhcpIInv, RequestsTrue, OfferTrue, REQUEST
    <2> QED
      BY <1>3, <2>1, <2>2, <2>3, <2>4 DEF Known, Asked, OwnLease
  <1>8. CASE ReadAnswer
    <2>1. phase = "answer" /\ phase' \in {"bound", "failed"} /\ UNCHANGED <<requests, offer>>
          /\ rx # <<>>
          /\ rx_buf' = Head(rx)
      BY <1>8 DEF ReadAnswer, CLOSE
    <2>2. \A m \in Unread' : Asked(m)'
      BY <1>1, <2>1 DEF DhcpIInv, Asked
    <2>3. RequestsTrue'
      BY <2>1 DEF DhcpIInv, RequestsTrue
    <2>4. OwnLease'
      <3> SUFFICES ASSUME phase' = "bound", ~ReadForeign'
                   PROVE  sipr' \in Pool[offer'.server] /\ lease'[sipr'] = Me
        BY DEF OwnLease
      <3>1. Head(rx).type = "ACK" /\ sipr' = Head(rx).addr
        BY <1>8 DEF ReadAnswer, CLOSE
      <3>2. Head(rx).to = Me
        BY <2>1 DEF ReadForeign
      <3>3. Truthful(Head(rx)) /\ Asked(Head(rx))
        BY <1>1, <2>1, HeadUnread DEF DhcpIInv
      <3> QED
        BY <1>2, <2>1, <3>1, <3>2, <3>3 DEF Truthful, Asked
    <2> QED
      BY <1>3, <2>1, <2>2, <2>3, <2>4 DEF Known, OfferTrue
  <1> QED
    BY <1>4, <1>5, <1>6, <1>7, <1>8 DEF Client

\* So does what the other machines and the network do.
LEMMA NetworkStep ==
  ASSUME DhcpIInv, UNCHANGED client, UNCHANGED lease, Unread' \subseteq Unread, RequestsTrue'
  PROVE  Known'
  <1>1. \A m \in Unread' : Truthful(m)'
    BY KeepTrue
  <1>2. UNCHANGED <<phase, sipr, offer, rx_buf>>
    BY DEF client
  <1> QED
    BY <1>1, <1>2 DEF DhcpIInv, Known, Asked, OfferTrue, OwnLease, ReadForeign

LEMMA OtherAsksStep == ASSUME DhcpIInv, NEW c \in Others, OtherAsks(c) PROVE Known'
  <1>1. UNCHANGED <<client, rx, air, lease>>
    BY DEF OtherAsks
  <1>2. Unread' = Unread
    BY <1>1 DEF Unread
  <1>3. c # Me
    OBVIOUS
  <1>4. RequestsTrue'
    <2> SUFFICES ASSUME NEW q \in requests', q.type = "REQUEST", q \notin requests
                 PROVE  q.server \in Servers /\ q.addr \in Pool[q.server] /\ q.from # Me
      BY <1>1 DEF RequestsTrue, client, DhcpIInv
    <2>1. PICK o \in air : q = REQUEST(c, o) /\ o.type = "OFFER"
      BY DEF OtherAsks, DISCOVER
    <2>2. o \in Reply /\ Truthful(o)
      BY <2>1 DEF DhcpIInv, DhcpTypeOK, Unread
    <2> QED
      BY <1>3, <2>1, <2>2 DEF Truthful, Reply, REQUEST
  <1> QED
    BY <1>1, <1>2, <1>4, NetworkStep

\* A server's answer is true when it is sent, and no answer it has sent before
\* becomes untrue: an address stays with the machine it is leased to.
LEMMA HearStep == ASSUME DhcpIInv, NEW s \in Servers, NEW q \in requests, Hear(s, q) PROVE Known'
  <1> DEFINE free(a) == lease[a] \in {None, q.from}
  <1>1. UNCHANGED <<client, rx, requests>> /\ DhcpTypeOK /\ q \in Request
    BY DEF Hear, DhcpIInv, DhcpTypeOK
  <1>2. UNCHANGED <<phase, sipr, offer, rx_buf>>
    BY <1>1 DEF client
  <1>3. CASE UNCHANGED <<air, lease>>
    <2>1. Unread' = Unread
      BY <1>1, <1>3 DEF Unread
    <2>2. RequestsTrue'
      BY <1>1, <1>2 DEF DhcpIInv, RequestsTrue
    <2> QED
      BY <1>1, <1>3, <2>1, <2>2, NetworkStep
  <1>4. ASSUME NEW m \in Reply, air' = air \cup {m}, m.server = s, m.to = q.from,
               \/ m.type = "OFFER" /\ m.addr \in Pool[s] /\ UNCHANGED lease
               \/ m.type = "NAK" /\ UNCHANGED lease
               \/ /\ m.type = "ACK" /\ q.type = "REQUEST" /\ q.server = s
                  /\ m.addr = q.addr /\ free(q.addr)
                  /\ lease' = [lease EXCEPT ![q.addr] = q.from]
        PROVE  Known'
    <2>1. Unread' \subseteq Unread \cup {m}
      BY <1>1, <1>4 DEF Unread
    <2>2. \A a \in Addresses : lease[a] \in Clients => lease'[a] = lease[a]
      BY <1>1, <1>4 DEF DhcpTypeOK
    <2>3. \A n \in Unread : Truthful(n)'
      <3> SUFFICES ASSUME NEW n \in Unread, n.type = "ACK" PROVE lease'[n.addr] = n.to
        BY DEF DhcpIInv, Truthful
      <3>1. n \in Reply /\ Truthful(n)
        BY <1>1, UnreadReply DEF DhcpIInv
      <3>2. n.addr \in Pool[n.server] /\ n.server \in Servers /\ n.to \in Clients
            /\ lease[n.addr] = n.to
        BY <3>1 DEF Truthful, Reply
      <3> QED
        BY <2>2, <3>2, PoolAddresses
    <2>4. m.type = "ACK" => q.addr \in Pool[s] /\ q.addr \in Addresses
      BY <1>4, PoolAddresses DEF DhcpIInv, RequestsTrue
    <2>5. Truthful(m)'
      BY <1>1, <1>4, <2>4 DEF Truthful, DhcpTypeOK
    <2>6. Asked(m)' /\ (m.type = "ACK" /\ m.to = Me => phase' \notin {"boot", "offer", "reopen"})
      BY <1>2, <1>4 DEF DhcpIInv, RequestsTrue, Asked
    <2>7. \A n \in Unread :
             Asked(n)' /\ (n.type = "ACK" /\ n.to = Me => phase' \notin {"boot", "offer", "reopen"})
      BY <1>2 DEF DhcpIInv, Asked
    <2>8. RequestsTrue' /\ OfferTrue'
      BY <1>1, <1>2 DEF DhcpIInv, RequestsTrue, OfferTrue
    <2>9. OwnLease'
      <3> SUFFICES ASSUME phase = "bound", ~ReadForeign
                   PROVE  sipr \in Pool[offer.server] /\ lease'[sipr] = Me
        BY <1>2 DEF OwnLease, ReadForeign
      <3>1. sipr \in Pool[offer.server] /\ lease[sipr] = Me
        BY DEF DhcpIInv, OwnLease
      <3>2. ~Ended
        BY DEF Hear
      <3> QED
        BY <3>2 DEF Ended
    <2> QED
      BY <2>1, <2>3, <2>5, <2>6, <2>7, <2>8, <2>9 DEF Known
  <1> DEFINE reply(t, a) == [type |-> t, to |-> q.from, addr |-> a, server |-> s]
  <1>5. CASE q.type = "DISCOVER"
    <2>1. UNCHANGED <<air, lease>>
          \/ \E a \in Pool[s] : air' = air \cup {reply("OFFER", a)} /\ UNCHANGED lease
      BY <1>5 DEF Hear
    <2>2. \A a \in Pool[s] : reply("OFFER", a) \in Reply
      BY <1>1, PoolAddresses DEF Reply, Request
    <2> QED
      BY <1>3, <1>4, <2>1, <2>2
  <1>6. CASE q.type = "REQUEST"
    <2>1. q.server = s
      BY <1>6 DEF Hear, Hearers
    <2>2. \/ /\ free(q.addr) /\ lease' = [lease EXCEPT ![q.addr] = q.from]
             /\ air' = air \cup {reply("ACK", q.addr)}
          \/ UNCHANGED lease /\ air' = air \cup {reply("NAK", None)}
      BY <1>6 DEF Hear
    <2>3. reply("ACK", q.addr) \in Reply /\ reply("NAK", None) \in Reply
      BY <1>1 DEF Reply, Request
    <2> QED
      BY <1>4, <1>6, <2>1, <2>2, <2>3
  <1> QED
    BY <1>1, <1>5, <1>6 DEF Request

\* The invariant is inductive.
LEMMA StepDhcpIInv == DhcpIInv /\ [DhcpNext]_dhcpVars => DhcpIInv'
  <1> SUFFICES ASSUME DhcpIInv, [DhcpNext]_dhcpVars PROVE DhcpTypeOK' /\ Known'
    BY DEF DhcpIInv, Known
  <1>1. DhcpTypeOK'
    BY StepTypeOK DEF DhcpIInv
  <1>2. CASE UNCHANGED dhcpVars
    <2>1. UNCHANGED <<phase, offer, requests, rx, air, lease>> /\ UNCHANGED client
      BY <1>2 DEF dhcpVars, client
    <2>2. Unread' = Unread
      BY <2>1 DEF Unread
    <2>3. RequestsTrue'
      BY <2>1 DEF DhcpIInv, RequestsTrue
    <2> QED
      BY <1>1, <2>1, <2>2, <2>3, NetworkStep
  <1>3. CASE Client
    BY <1>1, <1>3, ClientStep
  <1>4. ASSUME NEW c \in Others, OtherAsks(c) PROVE Known'
    BY <1>4, OtherAsksStep
  <1>5. ASSUME NEW s \in Servers, NEW q \in requests, Hear(s, q) PROVE Known'
    BY <1>5, HearStep
  <1>6. ASSUME NEW m \in air, DeliverReply(m) \/ Disturb(m) PROVE Known'
    <2>1. UNCHANGED <<client, requests, lease>> /\ air' \subseteq air
      BY <1>6 DEF DeliverReply, Disturb
    <2>2. rx' = rx \/ Arrive(m)
      BY <1>6 DEF DeliverReply, Disturb
    <2>3. Unread' \subseteq Unread
      <3>1. CASE rx' = rx
        BY <2>1, <3>1 DEF Unread
      <3>2. CASE Arrive(m)
        BY <2>1, <3>2, ArriveUnread DEF DhcpIInv
      <3> QED
        BY <2>2, <3>1, <3>2
    <2>4. RequestsTrue'
      BY <2>1 DEF DhcpIInv, RequestsTrue, client
    <2> QED
      BY <2>1, <2>3, <2>4, NetworkStep
  <1> QED
    BY <1>1, <1>2, <1>3, <1>4, <1>5, <1>6 DEF DhcpNext

LEMMA DhcpInvariance == DhcpSpec => []DhcpIInv
  BY InitDhcpIInv, StepDhcpIInv, PTL DEF DhcpSpec

-----------------------------------------------------------------------------
\* In every execution the state has its types: whatever arrives and whenever,
\* the socket's queue keeps to its size and is empty outside a request.
THEOREM DhcpTypeCorrect == DhcpSpec => []DhcpTypeOK
  <1>1. DhcpIInv => DhcpTypeOK
    BY DEF DhcpIInv
  <1> QED
    BY DhcpInvariance, <1>1, PTL

\* With any number of servers and of other machines, whatever is lost,
\* duplicated or late: an address reported as obtained is leased to this
\* computer by the server whose offer it took, unless a reply it read was
\* meant for another machine.
THEOREM AddressIsOwn == DhcpSpec => []OwnLease
  <1>1. DhcpIInv => OwnLease
    BY DEF DhcpIInv
  <1> QED
    BY DhcpInvariance, <1>1, PTL
===============================================================================
