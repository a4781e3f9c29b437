--------------------------- MODULE KeyPathProofs ---------------------------
(***************************************************************************)
(* Proofs about KeyPath, for any number of keys and of boot marks and any  *)
(* depth of the UART, of the PIO's FIFOs and of the ring buffer.           *)
(***************************************************************************)
EXTENDS KeyPath, SequenceTheorems, TLAPS

Index == 0..RING_BUFFER_SIZE - 1
Any == Nat
Ring == [buffer : BOOLEAN, head : Index, tail : Index, cell : [Index -> Any]]
NoRing == {"masked", "enabled", "boot", "boot head"}

(* Where the main program stands: until ring_buf_init is done the tail has *)
(* not moved, afterwards the ring has its buffer, and what                 *)
(* ring_buf_is_empty saw is still there when ring_buf_get takes it.        *)
MainPlace ==
    /\ rb \in Ring
    /\ main = "enabled" => writes = BootWrites
    /\ main \notin {"masked", "enabled", "boot"} => rb.buffer
    /\ main \in NoRing \cup {"boot tail"} => rb.tail = 0
    /\ main = "get" => rb.head # rb.tail

(* Where Pico, bus and handler stand: the Pico takes a packet where there  *)
(* is one, its flag says that the pin is low except while it withdraws the *)
(* interrupt, and the handler has a byte exactly where it stores one.      *)
BusPlace ==
    /\ pico \in {"flag", "get"} => rx # <<>>
    /\ pico = "clear" => packet # "none"
    /\ pico = "answer" => packet = "write"
    /\ bkd_int => pirq \/ pico = "flag"
    /\ cpu = "put" <=> d0 # NoByte
    /\ pio = "pull" => cpu \in {"read", "write"}

(* Is there an answer in the TX FIFO, a packet of a write being served, or *)
(* one that the next clearing will not drop, a write in its bus cycle?     *)
HasAnswer == \E i \in 1..Len(tx) : tx[i] \in answers
Served == pico \in {"clear", "answer"} /\ packet = "write"
Waits == pico # "clear" /\ \E i \in 1..Len(rx) : rx[i] = "write"
Writing == pio = "pull" /\ cpu = "write"

Unit(b) == IF b THEN 1 ELSE 0

(* Answers and dummies: the TX FIFO never holds two answers, none when the *)
(* next one is put; and the answers that went astray, and those that still *)
(* can, cost a key each, the one of a write in its cycle excepted.         *)
OneAnswer ==
    /\ \A i, j \in 1..Len(tx) : tx[i] \in answers /\ tx[j] \in answers => i = j
    /\ pico = "answer" => ~HasAnswer
Balance == stray + Unit(HasAnswer) + Unit(Served) + Unit(Waits) <= eaten + Unit(Writing)

IInv == TypeOK /\ MainPlace /\ BusPlace /\ NoSilentKey /\ OneAnswer /\ Balance /\ StrayCostsKey

(* The constants, one by one. *)
LEMMA Sizes ==
    /\ MaxKey \in Nat /\ UART_DEPTH \in Nat /\ FIFO_DEPTH \in Nat /\ BootWrites \in Nat
    /\ MaxKey > 0 /\ UART_DEPTH > 0 /\ FIFO_DEPTH > 0
    /\ RING_BUFFER_SIZE \in Nat /\ RING_BUFFER_SIZE > 1
  BY KeyPathAssumption DEF KeyPathAssumption

-----------------------------------------------------------------------------
(***************************************************************************)
(* Sequences: taking bytes out of the row of the three places, and moving  *)
(* them up in it.                                                          *)
(***************************************************************************)

(* The bytes on their way, from the ring R, the handler D and the TX FIFO T. *)
All(R, D, T) == R \o D \o T

(* Joining is associative, the empty sequence neutral, and what is joined is a
   sequence. *)
LEMMA Assoc == \A S : \A x, y, z \in Seq(S) : (x \o y) \o z = x \o (y \o z)
  <1> SUFFICES ASSUME NEW S, NEW x \in Seq(S), NEW y \in Seq(S), NEW z \in Seq(S)
               PROVE  (x \o y) \o z = x \o (y \o z)
    OBVIOUS
  <1> QED
    BY ConcatAssociative

LEMMA Empty == \A S : << >> \in Seq(S) /\ \A x \in Seq(S) : x \o << >> = x /\ << >> \o x = x
  BY EmptySeq, ConcatEmptySeq

LEMMA Joined == \A S : \A x, y \in Seq(S) : x \o y \in Seq(S)
  BY ConcatProperties

(* A byte from the back of one part to the front of the part before. *)
LEMMA MoveUp ==
  ASSUME NEW S, NEW p \in Seq(S), NEW q \in Seq(S), q # << >>
  PROVE  /\ Head(q) \in S /\ Tail(q) \in Seq(S)
         /\ (p \o << >>) \o q = (p \o <<Head(q)>>) \o Tail(q)
  <1>1. Head(q) \in S /\ Tail(q) \in Seq(S)
    BY HeadTailProperties
  <1>2. PICK h \in S, t \in Seq(S) : h = Head(q) /\ t = Tail(q)
    BY <1>1
  <1>3. <<h>> \in Seq(S) /\ q = <<h>> \o t
    BY <1>2
  <1>4. (p \o <<h>>) \o t = p \o (<<h>> \o t)
    BY <1>3, Assoc
  <1>5. p \o << >> = p
    BY Empty
  <1> QED
    BY <1>1, <1>2, <1>3, <1>4, <1>5, Zenon

(* A byte to the back of the part before. *)
LEMMA MoveOn ==
  ASSUME NEW S, NEW p \in Seq(S), NEW q \in Seq(S), NEW k \in S
  PROVE  /\ (p \o q) \o <<k>> = (p \o Append(q, k)) \o << >>
         /\ q \o <<k>> = Append(q, k) \o << >>
         /\ p \o Append(q, k) = Append(p \o q, k)
  <1>1. <<k>> \in Seq(S) /\ Append(q, k) = q \o <<k>> /\ Append(q, k) \in Seq(S)
    BY AppendProperties, AppendIsConcat
  <1>2. (p \o q) \o <<k>> = p \o (q \o <<k>>)
    BY <1>1, Assoc
  <1>3. p \o q \in Seq(S) /\ p \o Append(q, k) \in Seq(S)
    BY <1>1, Joined
  <1>4. Append(p \o q, k) = (p \o q) \o <<k>>
    BY <1>3, AppendIsConcat
  <1>5. (p \o Append(q, k)) \o << >> = p \o Append(q, k) /\ Append(q, k) \o << >> = Append(q, k)
    BY <1>1, <1>3, Empty
  <1> QED
    BY <1>1, <1>2, <1>4, <1>5, Zenon

(* The first byte of the first part. *)
LEMMA FirstOf ==
  ASSUME NEW S, NEW p \in Seq(S), NEW q \in Seq(S), p # << >>
  PROVE  /\ Head(p \o q) = Head(p) /\ Tail(p \o q) = Tail(p) \o q
         /\ p \o q # << >> /\ p \o q \in Seq(S)
  <1>1. PICK h \in S, t \in Seq(S) : h = Head(p) /\ t = Tail(p)
    BY HeadTailProperties
  <1>2. <<h>> \in Seq(S) /\ p = <<h>> \o t
    BY <1>1
  <1>3. (<<h>> \o t) \o q = <<h>> \o (t \o q)
    BY <1>2, Assoc
  <1>4. PICK r \in Seq(S) : r = t \o q
    BY Joined
  <1>5. <<h>> \o r # << >> /\ Head(<<h>> \o r) = h /\ Tail(<<h>> \o r) = r /\ <<h>> \o r \in Seq(S)
    BY <1>2
  <1> QED
    BY <1>1, <1>2, <1>3, <1>4, <1>5, Zenon

(* What is q with k behind it, and what is q with k before it. *)
Longer(p, q, k) == p = Append(q, k)
Shorter(p, q, k) == p # << >> /\ Head(p) = k /\ Tail(p) = q

(* A run of bytes taken out. *)
Cut(s, t) == \E i, j \in 0..Len(s) + 1 :
                i < j /\ t = SubSeq(s, 1, i) \o SubSeq(s, j, Len(s))

(* The middle of three parts is a run. *)
LEMMA CutMiddle ==
  ASSUME NEW S, NEW a \in Seq(S), NEW b \in Seq(S), NEW c \in Seq(S)
  PROVE  Cut(a \o (b \o c), a \o c)
  <1> DEFINE s == a \o (b \o c)
  <1>1. PICK la \in Nat, lb \in Nat, lc \in Nat : la = Len(a) /\ lb = Len(b) /\ lc = Len(c)
    BY LenProperties
  <1>2. b \o c \in Seq(S) /\ Len(b \o c) = lb + lc
    BY <1>1, ConcatProperties
  <1>3. s \in Seq(S) /\ Len(s) = la + (lb + lc)
    BY <1>1, <1>2, ConcatProperties
  <1>4. SubSeq(s, 1, la) = a
    <2>1. \A i \in 1..la : s[i] = a[i] /\ s[i] \in S
      BY <1>1, <1>2, ConcatProperties, ElementOfSeq
    <2>2. /\ SubSeq(s, 1, la) \in Seq(S) /\ Len(SubSeq(s, 1, la)) = la
          /\ \A i \in 1..la : SubSeq(s, 1, la)[i] = s[i]
      <3> HIDE DEF s
      <3>1. /\ SubSeq(s, 1, la) \in Seq(S)
            /\ Len(SubSeq(s, 1, la)) = IF 1 <= la THEN la - 1 + 1 ELSE 0
            /\ \A i \in 1..la - 1 + 1 : SubSeq(s, 1, la)[i] = s[1 + i - 1]
        BY <2>1, SubSeqProperties
      <3> QED
        BY <3>1
    <2> HIDE DEF s
    <2> QED
      BY <1>1, <2>1, <2>2, SeqEqual
  <1>5. SubSeq(s, la + lb + 1, la + lb + lc) = c
    <2>1. \A i \in 1..lc : s[la + lb + i] = c[i]
      <3> SUFFICES ASSUME NEW i \in 1..lc
                   PROVE  s[la + lb + i] = c[i]
        OBVIOUS
      <3>1. s[la + (lb + i)] = (b \o c)[lb + i]
        BY <1>1, <1>2, ConcatProperties
      <3>2. (b \o c)[lb + i] = c[i]
        BY <1>1, ConcatProperties
      <3>3. la + lb + i = la + (lb + i)
        OBVIOUS
      <3> HIDE DEF s
      <3> QED
        BY <3>1, <3>2, <3>3
    <2>2. \A k \in la + lb + 1..la + lb + lc : s[k] \in S
      <3> HIDE DEF s
      <3> QED
        BY <1>3, ElementOfSeq
    <2>3. /\ SubSeq(s, la + lb + 1, la + lb + lc) \in Seq(S)
          /\ Len(SubSeq(s, la + lb + 1, la + lb + lc)) = lc
          /\ \A i \in 1..lc : SubSeq(s, la + lb + 1, la + lb + lc)[i] = s[la + lb + i]
      <3> HIDE DEF s
      <3> DEFINE m == la + lb + 1
                 n == la + lb + lc
      <3>1. m \in Int /\ n \in Int /\ n - m + 1 = lc /\ (m <= n <=> lc # 0)
        OBVIOUS
      <3>2. /\ SubSeq(s, m, n) \in Seq(S)
            /\ Len(SubSeq(s, m, n)) = IF m <= n THEN n - m + 1 ELSE 0
            /\ \A i \in 1..n - m + 1 : SubSeq(s, m, n)[i] = s[m + i - 1]
        <4> HIDE DEF m, n
        <4>1. \A k \in m..n : s[k] \in S
          BY <2>2 DEF m, n
        <4> QED
          BY <3>1, <4>1, SubSeqProperties
      <3>3. \A i \in 1..lc : m + i - 1 = la + lb + i
        OBVIOUS
      <3> QED
        BY <3>1, <3>2, <3>3
    <2>4. PICK q : q = SubSeq(s, la + lb + 1, la + lb + lc)
      OBVIOUS
    <2> HIDE DEF s
    <2>5. q \in Seq(S) /\ Len(q) = Len(c) /\ \A i \in 1..Len(q) : q[i] = c[i]
      BY <1>1, <2>1, <2>3, <2>4
    <2>6. q = c
      BY <2>5, SeqEqual
    <2> QED
      BY <2>4, <2>6
  <1>6. la \in 0..Len(s) + 1 /\ la + lb + 1 \in 0..Len(s) + 1 /\ la < la + lb + 1
        /\ Len(s) = la + lb + lc
    <2> HIDE DEF s
    <2> QED
      BY <1>3
  <1> HIDE DEF s
  <1>7. Cut(s, a \o c)
    BY <1>4, <1>5, <1>6 DEF Cut
  <1> QED
    BY <1>7 DEF s

(* The second of three parts, lost. *)
LEMMA CutEnd ==
  ASSUME NEW S, NEW a \in Seq(S), NEW b \in Seq(S), NEW c \in Seq(S)
  PROVE  Cut((a \o b) \o c, (a \o << >>) \o c)
  <1>1. (a \o b) \o c = a \o (b \o c)
    BY Assoc
  <1>2. a \o << >> = a
    BY Empty
  <1>3. Cut(a \o (b \o c), a \o c)
    BY CutMiddle
  <1> QED
    BY <1>1, <1>2, <1>3, Zenon

(***************************************************************************)
(* What each step does to all the bytes on their way.                      *)
(***************************************************************************)

(* The Pico puts a byte into the TX FIFO. *)
LEMMA Arrive ==
  ASSUME NEW S, NEW R \in Seq(S), NEW D \in Seq(S), NEW T \in Seq(S), NEW k \in S
  PROVE  Longer(All(R, D, Append(T, k)), All(R, D, T), k)
  <1>1. PICK p \in Seq(S) : p = R \o D
    BY Joined
  <1>2. p \o Append(T, k) = Append(p \o T, k)
    BY MoveOn
  <1> QED
    BY <1>1, <1>2, Zenon DEF All, Longer

(* The handler reads the oldest byte of the TX FIFO. *)
LEMMA Read ==
  ASSUME NEW S, NEW R \in Seq(S), NEW T \in Seq(S), T # << >>
  PROVE  All(R, << >>, T) = All(R, <<Head(T)>>, Tail(T))
  BY MoveUp, Zenon DEF All

(* A write takes it. *)
LEMMA Swallow ==
  ASSUME NEW S, NEW R \in Seq(S), NEW T \in Seq(S), T # << >>
  PROVE  Cut(All(R, << >>, T), All(R, << >>, Tail(T)))
  <1>1. PICK h \in S, t \in Seq(S) : h = Head(T) /\ t = Tail(T)
    BY HeadTailProperties
  <1>2. <<h>> \in Seq(S) /\ T = <<h>> \o t
    BY <1>1
  <1>3. PICK a \in Seq(S) : a = R \o << >>
    BY Joined, Empty
  <1>4. Cut(a \o (<<h>> \o t), a \o t)
    BY <1>2, CutMiddle
  <1> QED
    BY <1>1, <1>2, <1>3, <1>4, Zenon DEF All

(* The ring takes the byte that the handler holds. *)
LEMMA Store ==
  ASSUME NEW S, NEW R \in Seq(S), NEW T \in Seq(S), NEW k \in S
  PROVE  All(R, <<k>>, T) = All(Append(R, k), << >>, T)
  <1>1. R \o <<k>> = Append(R, k) \o << >>
    BY MoveOn
  <1> QED
    BY <1>1, Zenon DEF All

(* The byte that the handler holds is lost. *)
LEMMA LoseByte ==
  ASSUME NEW S, NEW R \in Seq(S), NEW D \in Seq(S), NEW T \in Seq(S)
  PROVE  Cut(All(R, D, T), All(R, << >>, T))
  BY CutEnd, Zenon DEF All

(* The TX FIFO is cleared. *)
LEMMA LoseWords ==
  ASSUME NEW S, NEW R \in Seq(S), NEW D \in Seq(S), NEW T \in Seq(S)
  PROVE  Cut(All(R, D, T), All(R, D, << >>))
  <1>1. PICK p \in Seq(S) : p = R \o D
    BY Joined
  <1>2. Cut(p \o (T \o << >>), p \o << >>)
    BY Empty, CutMiddle
  <1>3. T \o << >> = T
    BY Empty
  <1> QED
    BY <1>1, <1>2, <1>3, Zenon DEF All

(* The oldest of the ring is the oldest of all. *)
LEMMA TakeOut ==
  ASSUME NEW S, NEW R \in Seq(S), NEW D \in Seq(S), NEW T \in Seq(S), R # << >>
  PROVE  Shorter(All(R, D, T), All(Tail(R), D, T), Head(R))
  <1>1. \A p, q \in Seq(S) : p # << >> =>
           Head(p \o q) = Head(p) /\ Tail(p \o q) = Tail(p) \o q /\ p \o q # << >> /\ p \o q \in Seq(S)
    BY FirstOf
  <1>2. PICK a \in Seq(S) : a = R \o D /\ a # << >> /\ Head(a) = Head(R) /\ Tail(a) = Tail(R) \o D
    BY <1>1
  <1>3. PICK b \in Seq(S) : b = a \o T /\ b # << >> /\ Head(b) = Head(a) /\ Tail(b) = Tail(a) \o T
    BY <1>1, <1>2
  <1> QED
    BY <1>2, <1>3, Zenon DEF All, Shorter

-----------------------------------------------------------------------------
(***************************************************************************)
(* The ring.                                                               *)
(***************************************************************************)

(* A ring of n cells without remainders: the index after, how many bytes   *)
(* lie from tail to head, and where the i-th of them lies.                 *)
After(n, x) == IF x + 1 < n THEN x + 1 ELSE 0
Count(n, head, tail) == IF tail <= head THEN head - tail ELSE head + n - tail
Place(n, tail, i) == IF tail + i - 1 < n THEN tail + i - 1 ELSE tail + i - 1 - n

(* The remainder of a sum of two indices. *)
LEMMA Wrap ==
  ASSUME NEW n \in Nat, n > 1, NEW x \in 0..n + n - 1
  PROVE  (x % n) = IF x < n THEN x ELSE x - n
  OBVIOUS

(* The remainders of the code are those numbers. *)
LEMMA NoRemainder ==
  ASSUME NEW n \in Nat, n > 1, NEW head \in 0..n - 1, NEW tail \in 0..n - 1
  PROVE  /\ ((head + n - tail) % n) = Count(n, head, tail)
         /\ ((head + 1) % n) = After(n, head)
         /\ \A i \in 1..n : ((tail + i - 1) % n) = Place(n, tail, i)
  <1>1. \A x \in 0..n + n - 1 : (x % n) = IF x < n THEN x ELSE x - n
    BY Wrap
  <1>2. ((head + n - tail) % n) = Count(n, head, tail)
    <2>1. head + n - tail \in 0..n + n - 1
      OBVIOUS
    <2> QED
      BY <1>1, <2>1 DEF Count
  <1>3. ((head + 1) % n) = After(n, head)
    <2>1. head + 1 \in 0..n + n - 1
      OBVIOUS
    <2> QED
      BY <1>1, <2>1 DEF After
  <1>4. ASSUME NEW i \in 1..n
        PROVE  ((tail + i - 1) % n) = Place(n, tail, i)
    <2>1. tail + i - 1 \in 0..n + n - 1
      OBVIOUS
    <2> QED
      BY <1>1, <2>1 DEF Place
  <1> QED
    BY <1>2, <1>3, <1>4

(* They stay inside the ring. *)
LEMMA CountBounds ==
  ASSUME NEW n \in Nat, n > 1, NEW head \in 0..n - 1, NEW tail \in 0..n - 1
  PROVE  /\ Count(n, head, tail) \in 0..n - 1 /\ After(n, head) \in 0..n - 1
         /\ \A i \in 1..n : Place(n, tail, i) \in 0..n - 1
  BY DEF Count, After, Place

(* One byte more, behind the others, where the head stood. *)
LEMMA CountPut ==
  ASSUME NEW n \in Nat, n > 1, NEW head \in 0..n - 1, NEW tail \in 0..n - 1, After(n, head) # tail
  PROVE  /\ Count(n, After(n, head), tail) = Count(n, head, tail) + 1
         /\ Place(n, tail, Count(n, head, tail) + 1) = head
         /\ \A i \in 1..Count(n, head, tail) : Place(n, tail, i) # head
  BY DEF Count, After, Place

(* One byte less; the others move up by one. *)
LEMMA CountGet ==
  ASSUME NEW n \in Nat, n > 1, NEW head \in 0..n - 1, NEW tail \in 0..n - 1, head # tail
  PROVE  /\ Count(n, head, tail) \in 1..n - 1
         /\ Count(n, head, After(n, tail)) = Count(n, head, tail) - 1
         /\ Place(n, tail, 1) = tail
         /\ \A i \in 1..Count(n, head, tail) - 1 : Place(n, After(n, tail), i) = Place(n, tail, i + 1)
  BY DEF Count, After, Place

(* What lies in the cells f of the ring from tail to head. *)
Between(head, tail, f) ==
    [i \in 1..(head + RING_BUFFER_SIZE - tail) % RING_BUFFER_SIZE |->
        f[(tail + i - 1) % RING_BUFFER_SIZE]]

(* q is the l cells of f that begin at tail. *)
Reads(q, n, l, tail, f) ==
    q \in Seq(Any) /\ Len(q) = l /\ \A i \in 1..l : q[i] = f[Place(n, tail, i)]

(* What lies in the ring is read from its cells in order. *)
LEMMA BetweenIs ==
  ASSUME NEW n \in Nat, n = RING_BUFFER_SIZE, n > 1,
         NEW head \in 0..n - 1, NEW tail \in 0..n - 1, NEW f \in [0..n - 1 -> Any]
  PROVE  Reads(Between(head, tail, f), n, Count(n, head, tail), tail, f)
  <1>1. PICK l \in 0..n - 1 : l = Count(n, head, tail)
    BY CountBounds
  <1>2. \A i \in 1..l : i \in 1..n
    OBVIOUS
  <1>3. (head + RING_BUFFER_SIZE - tail) % RING_BUFFER_SIZE = l
    BY <1>1, NoRemainder
  <1>4. \A i \in 1..l : (tail + i - 1) % RING_BUFFER_SIZE = Place(n, tail, i) /\ Place(n, tail, i) \in 0..n - 1
    BY <1>2, NoRemainder, CountBounds
  <1>5. Between(head, tail, f) = [i \in 1..l |-> f[(tail + i - 1) % RING_BUFFER_SIZE]]
    BY <1>3 DEF Between
  <1>6. PICK b : b = Between(head, tail, f)
    OBVIOUS
  <1>7. b = [i \in 1..l |-> f[Place(n, tail, i)]]
    BY <1>4, <1>5, <1>6
  <1>8. b \in [1..l -> Any]
    BY <1>4, <1>7
  <1>9. b \in Seq(Any) /\ Len(b) = l /\ \A i \in 1..l : b[i] = f[Place(n, tail, i)]
    BY <1>7, <1>8
  <1> QED
    BY <1>1, <1>6, <1>9 DEF Reads

(* A byte put into the ring is the last of it. *)
LEMMA PutLast ==
  ASSUME NEW n \in Nat, n = RING_BUFFER_SIZE, n > 1, NEW head \in 0..n - 1, NEW tail \in 0..n - 1,
         NEW f \in [0..n - 1 -> Any], NEW c \in Any, After(n, head) # tail
  PROVE  Longer(Between(After(n, head), tail, [f EXCEPT ![head] = c]), Between(head, tail, f), c)
  <1>1. PICK h \in 0..n - 1, l \in 0..n - 1 : h = After(n, head) /\ l = Count(n, head, tail)
    BY CountBounds
  <1>2. /\ Count(n, h, tail) = l + 1 /\ Place(n, tail, l + 1) = head
        /\ \A i \in 1..l : Place(n, tail, i) # head
    BY <1>1, CountPut
  <1>3. PICK g \in [0..n - 1 -> Any] : g = [f EXCEPT ![head] = c]
    OBVIOUS
  <1>4. PICK p \in Seq(Any) : p = Between(head, tail, f) /\ Reads(p, n, l, tail, f)
    <2>1. Reads(Between(head, tail, f), n, l, tail, f)
      BY <1>1, BetweenIs
    <2> QED
      BY <2>1 DEF Reads
  <1>5. PICK q \in Seq(Any) : q = Between(h, tail, g) /\ Reads(q, n, l + 1, tail, g)
    <2>1. Reads(Between(h, tail, g), n, l + 1, tail, g)
      BY <1>2, BetweenIs
    <2> QED
      BY <2>1 DEF Reads
  <1> USE DEF Reads
  <1>6. \A i \in 1..l : i \in 1..n /\ i \in 1..l + 1
    OBVIOUS
  <1>7. \A i \in 1..l : q[i] = p[i]
    <2>1. \A i \in 1..l : Place(n, tail, i) \in 0..n - 1
      BY <1>6, CountBounds
    <2> QED
      BY <1>2, <1>3, <1>4, <1>5, <1>6, <2>1
  <1>8. q[l + 1] = c
    <2>1. l + 1 \in 1..l + 1
      OBVIOUS
    <2> QED
      BY <1>2, <1>3, <1>5, <2>1
  <1>9. q = Append(p, c)
    <2>1. /\ Append(p, c) \in Seq(Any) /\ Len(Append(p, c)) = l + 1
          /\ \A i \in 1..l : Append(p, c)[i] = p[i]
          /\ Append(p, c)[l + 1] = c
      BY <1>4, AppendProperties
    <2>2. \A i \in 1..l + 1 : i \in 1..l \/ i = l + 1
      OBVIOUS
    <2>3. \A i \in 1..l + 1 : q[i] = Append(p, c)[i]
      BY <1>7, <1>8, <2>1, <2>2
    <2> QED
      BY <1>5, <2>1, <2>3, SeqEqual
  <1> QED
    BY <1>1, <1>3, <1>4, <1>5, <1>9 DEF Longer

(* The byte taken out of the ring is the first of it. *)
LEMMA GetFirst ==
  ASSUME NEW n \in Nat, n = RING_BUFFER_SIZE, n > 1, NEW head \in 0..n - 1, NEW tail \in 0..n - 1,
         NEW f \in [0..n - 1 -> Any], head # tail
  PROVE  Shorter(Between(head, tail, f), Between(head, After(n, tail), f), f[tail])
  <1>1. PICK t \in 0..n - 1, l \in 1..n - 1 : t = After(n, tail) /\ l = Count(n, head, tail)
    BY CountBounds, CountGet
  <1>2. /\ Count(n, head, t) = l - 1 /\ Place(n, tail, 1) = tail
        /\ \A i \in 1..l - 1 : Place(n, t, i) = Place(n, tail, i + 1)
    BY <1>1, CountGet
  <1>3. PICK p \in Seq(Any) : p = Between(head, tail, f) /\ Reads(p, n, l, tail, f)
    <2>1. Reads(Between(head, tail, f), n, l, tail, f)
      BY <1>1, BetweenIs
    <2> QED
      BY <2>1 DEF Reads
  <1>4. PICK q \in Seq(Any) : q = Between(head, t, f) /\ Reads(q, n, l - 1, t, f)
    <2>1. Reads(Between(head, t, f), n, l - 1, t, f)
      BY <1>2, BetweenIs
    <2> QED
      BY <2>1 DEF Reads
  <1> USE DEF Reads
  <1>5. p # << >>
    BY <1>3, EmptySeq
  <1>6. /\ Head(p) = p[1] /\ Tail(p) \in Seq(Any) /\ Len(Tail(p)) = l - 1
        /\ \A i \in 1..l - 1 : Tail(p)[i] = p[i + 1]
    BY <1>3, <1>5, HeadTailProperties
  <1>7. 1 \in 1..l /\ \A i \in 1..l - 1 : i + 1 \in 1..l
    OBVIOUS
  <1>8. Head(p) = f[tail]
    BY <1>2, <1>3, <1>6, <1>7
  <1>9. \A i \in 1..l - 1 : q[i] = Tail(p)[i]
    BY <1>2, <1>3, <1>4, <1>6, <1>7
  <1>10. q = Tail(p)
    BY <1>4, <1>6, <1>9, SeqEqual
  <1> QED
    BY <1>1, <1>3, <1>4, <1>5, <1>8, <1>10 DEF Shorter

-----------------------------------------------------------------------------
(***************************************************************************)
(* The invariant.                                                          *)
(***************************************************************************)

(* The next index of the ring is one. *)
LEMMA SuccIndex == \A i \in Index : Succ(i) \in Index
  BY Sizes DEF Index, Succ

(* A byte is put into the TX FIFO: a new one, and last. *)
LEMMA PutByte ==
  ASSUME NEW b \in Nat, NEW q \in Seq(1..b)
  PROVE  /\ b + 1 \in 1..b + 1 /\ q \in Seq(1..b + 1)
         /\ Append(q, b + 1) \in Seq(1..b + 1) /\ Len(Append(q, b + 1)) = Len(q) + 1
         /\ \A i \in 1..Len(q) : Append(q, b + 1)[i] = q[i] /\ q[i] \in 1..b
         /\ Append(q, b + 1)[Len(q) + 1] = b + 1
  <1>1. b + 1 \in 1..b + 1 /\ q \in Seq(1..b + 1)
    OBVIOUS
  <1>2. \A i \in 1..Len(q) : q[i] \in 1..b
    BY ElementOfSeq
  <1> QED
    BY <1>1, <1>2, AppendProperties

(* What is taken off the front of a FIFO, and what stays. *)
LEMMA TakeFront ==
  ASSUME NEW S, NEW q \in Seq(S), q # <<>>
  PROVE  /\ Head(q) \in S /\ Head(q) = q[1] /\ Len(q) \in Nat \ {0}
         /\ Tail(q) \in Seq(S) /\ Len(Tail(q)) = Len(q) - 1
         /\ \A i \in 1..Len(q) - 1 : Tail(q)[i] = q[i + 1]
  BY HeadTailProperties, LenProperties, EmptySeq

(* The ways in which a step treats the TX FIFO. *)
PutStep == pio_sm_put /\ UNCHANGED answers
TakeStep == m68k_escrita \/ m68k_leitura
FifoStep == \/ UNCHANGED <<bytes, answers, tx>>
            \/ pio_sm_clear_fifos
            \/ TakeStep
            \/ PutStep
            \/ PutAnswer

LEMMA FifoSteps == [Next]_vars => FifoStep
  <1> USE DEF FifoStep, TakeStep
  <1>1. CASE ps2_ihandler
    BY <1>1 DEF ps2_ihandler, PutKey, PutStep, fifoVars
  <1>2. CASE OfferKey
    BY <1>2 DEF OfferKey, PutKey, PutStep, fifoVars
  <1>3. CASE Type \/ start_irq \/ espera_cs \/ Int3Handler \/ UNCHANGED vars
    BY <1>3 DEF Type, start_irq, espera_cs, Int3Handler, vars, fifoVars
  <1>4. CASE BusEmpty \/ kbd_int_off \/ pio_sm_get \/ kbd_poll
    BY <1>4 DEF BusEmpty, kbd_int_off, pio_sm_get, kbd_poll, fifoVars
  <1>5. CASE Main
    BY <1>5 DEF Main, WR_CHAR, EnableInterrupts, ring_buf_init, ring_buf_is_empty, ring_buf_get, fifoVars
  <1> QED
    BY <1>1, <1>2, <1>3, <1>4, <1>5 DEF Next, Pico

(* The invariant holds at the start, *)
LEMMA InitIInv == Init => IInv
  <1> SUFFICES ASSUME Init PROVE IInv
    OBVIOUS
  <1>1. rb \in Ring
    BY Sizes DEF Init, Ring, Index, Any, NoByte
  <1>2. TypeOK
    <2>1. tx \in Seq(1..bytes) /\ rx \in Seq({"read", "write"}) /\ Len(tx) = 0 /\ Len(rx) = 0
      BY Empty DEF Init
    <2>2. answers \subseteq 1..bytes /\ {bytes, eaten, stray} \subseteq Nat
      BY DEF Init
    <2> QED
      BY <2>1, <2>2, Sizes DEF Init, TypeOK, NoByte
  <1>3. Len(tx) = 0 /\ Len(rx) = 0 /\ tx = <<>> /\ DOMAIN tx = {}
    BY DEF Init
  <1>4. ~HasAnswer /\ ~Served /\ ~Waits /\ ~Writing /\ OneAnswer /\ NoSilentKey
    BY <1>3 DEF Init, HasAnswer, Served, Waits, Writing, OneAnswer, NoSilentKey
  <1>5. Balance /\ StrayCostsKey
    BY <1>4 DEF Init, Balance, StrayCostsKey, Unit
  <1> QED
    BY <1>1, <1>2, <1>4, <1>5 DEF Init, IInv, MainPlace, BusPlace

-----------------------------------------------------------------------------
(* The TX FIFO keeps bytes that were put. *)
LEMMA TxStep ==
  ASSUME IInv, [Next]_vars
  PROVE  /\ bytes' \in Nat /\ bytes' >= bytes /\ answers' \subseteq 1..bytes'
         /\ tx' \in Seq(1..bytes') /\ Len(tx') <= FIFO_DEPTH
  <1>1. /\ bytes \in Nat /\ answers \subseteq 1..bytes /\ tx \in Seq(1..bytes) /\ Len(tx) <= FIFO_DEPTH
        /\ Len(tx) \in Nat
    BY LenProperties DEF IInv, TypeOK
  <1>2. CASE UNCHANGED <<bytes, answers, tx>>
    BY <1>1, <1>2
  <1>3. CASE pio_sm_clear_fifos
    BY <1>1, <1>3, Sizes DEF pio_sm_clear_fifos
  <1>4. CASE TakeStep
    <2>1. tx # <<>> /\ tx' = Tail(tx) /\ UNCHANGED <<bytes, answers>>
      BY <1>4 DEF TakeStep, m68k_escrita, m68k_leitura
    <2> QED
      BY <1>1, <2>1, TakeFront, Sizes
  <1>5. CASE pio_sm_put /\ (UNCHANGED answers \/ answers' = answers \cup {bytes'})
    <2> DEFINE b == bytes
               q == tx
    <2>1. b \in Nat /\ q \in Seq(1..b) /\ Len(q) <= FIFO_DEPTH /\ Len(q) \in Nat
      BY <1>1
    <2>2. bytes' = b + 1 /\ tx' = IF Len(q) < FIFO_DEPTH THEN Append(q, b + 1) ELSE q
      BY <1>5, <2>1 DEF pio_sm_put
    <2>3. tx' \in Seq(1..b + 1) /\ Len(tx') <= FIFO_DEPTH
      <3> HIDE DEF b, q
      <3>1. /\ q \in Seq(1..b + 1) /\ Append(q, b + 1) \in Seq(1..b + 1)
            /\ Len(Append(q, b + 1)) = Len(q) + 1
        BY <2>1, PutByte
      <3>2. CASE Len(q) < FIFO_DEPTH
        <4>1. tx' = Append(q, b + 1)
          BY <2>2, <3>2
        <4>2. Len(q) + 1 <= FIFO_DEPTH
          BY <2>1, <3>2, Sizes
        <4> QED
          BY <3>1, <4>1, <4>2
      <3>3. CASE ~(Len(q) < FIFO_DEPTH)
        BY <2>1, <2>2, <3>1, <3>3
      <3> QED
        BY <3>2, <3>3
    <2>4. answers' \subseteq 1..b + 1
      <3>1. answers \subseteq 1..b
        BY <1>1
      <3>2. \A x \in 1..b : x \in 1..b + 1
        BY <2>1
      <3>3. b + 1 \in 1..b + 1
        BY <2>1
      <3>4. answers' = answers \/ answers' = answers \cup {b + 1}
        BY <1>5, <2>2
      <3> HIDE DEF b, q
      <3> QED
        BY <3>1, <3>2, <3>3, <3>4, Zenon
    <2> QED
      BY <2>1, <2>2, <2>3, <2>4
  <1> QED
    BY <1>2, <1>3, <1>4, <1>5, FifoSteps DEF FifoStep, PutStep, PutAnswer

(* So does the RX FIFO with packets, and the Pico takes one of them. *)
LEMMA RxStep ==
  ASSUME IInv, [Next]_vars
  PROVE  /\ rx' \in Seq({"read", "write"}) /\ Len(rx') <= FIFO_DEPTH
         /\ packet' \in {"none", "read", "write"}
  <1>1. /\ rx \in Seq({"read", "write"}) /\ Len(rx) <= FIFO_DEPTH /\ Len(rx) \in Nat
        /\ packet \in {"none", "read", "write"}
    BY LenProperties DEF IInv, TypeOK
  <1>2. CASE UNCHANGED <<rx, packet>>
    BY <1>1, <1>2
  <1>3. CASE pio_sm_get
    BY <1>1, <1>3, TakeFront, Sizes DEF pio_sm_get, IInv, BusPlace
  <1>4. CASE pio_sm_clear_fifos
    BY <1>1, <1>4, Sizes DEF pio_sm_clear_fifos
  <1>5. CASE espera_cs
    BY <1>1, <1>5, Sizes DEF espera_cs, picoVars
  <1> QED
    BY <1>2, <1>3, <1>4, <1>5 DEF Next, Type, ps2_ihandler, PutKey, Pico, BusEmpty, kbd_int_off, PutAnswer,
       kbd_poll, OfferKey, m68k_escrita, m68k_leitura, start_irq, Int3Handler, Main, WR_CHAR,
       EnableInterrupts, ring_buf_init, ring_buf_is_empty, ring_buf_get, vars, picoVars, fifoVars

(* Where the main program stands; the handler never fills the ring so far  *)
(* that it looks empty.                                                    *)
LEMMA MainStep ==
  ASSUME IInv, [Next]_vars
  PROVE  MainPlace' /\ main' \in {"masked", "enabled", "boot", "boot head", "boot tail", "look", "get"}
         /\ writes' \in 0..BootWrites + 1
  <1>1. /\ main \in {"masked", "enabled", "boot", "boot head", "boot tail", "look", "get"}
        /\ writes \in 0..BootWrites + 1 /\ MainPlace /\ rb \in Ring /\ d0 \in Nat
        /\ rb.head \in Index /\ rb.tail \in Index
    <2>1. rb \in Ring /\ MainPlace
      BY DEF IInv, MainPlace
    <2>2. rb.head \in Index /\ rb.tail \in Index
      BY <2>1 DEF Ring
    <2>3. d0 \in Nat
      <3>1. bytes \in Nat /\ d0 \in 0..bytes
        BY DEF IInv, TypeOK
      <3> QED
        BY <3>1
    <2> QED
      BY <2>1, <2>2, <2>3 DEF IInv, TypeOK
  <1>2. Succ(rb.head) \in Index /\ Succ(rb.tail) \in Index /\ 0 \in Index
    <2>1. 0 \in Index
      BY Sizes DEF Index
    <2> QED
      BY <1>1, <2>1, SuccIndex
  <1>3. CASE UNCHANGED ringVars
    BY <1>1, <1>3 DEF MainPlace, ringVars
  <1>4. CASE Int3Handler
    <2>1. UNCHANGED <<main, writes>>
      BY <1>4 DEF Int3Handler
    <2>2. CASE rb' = rb
      BY <1>1, <2>1, <2>2 DEF MainPlace
    <2>3. CASE rb' # rb
      <3>1. /\ Succ(rb.head) # rb.tail
            /\ rb' = [rb EXCEPT !.head = Succ(@), !.cell[rb.head] = IF rb.buffer THEN d0 ELSE @]
        BY <1>4, <2>3 DEF Int3Handler, ring_buf_put
      <3>2. [rb.cell EXCEPT ![rb.head] = IF rb.buffer THEN d0 ELSE @] \in [Index -> Any]
        BY <1>1 DEF Ring, Any
      <3>3. rb' \in Ring /\ rb'.head = Succ(rb.head) /\ rb'.tail = rb.tail /\ rb'.buffer = rb.buffer
        BY <1>1, <1>2, <3>1, <3>2 DEF Ring
      <3> QED
        BY <1>1, <2>1, <3>1, <3>3 DEF MainPlace
    <2> QED
      BY <2>2, <2>3
  <1>5. CASE WR_CHAR
    <2>1. writes' = writes + 1 /\ (writes < BootWrites \/ writes = BootWrites)
      BY <1>1, <1>5 DEF WR_CHAR, MainPlace
    <2>2. writes' \in 0..BootWrites + 1
      <3>1. BootWrites \in Nat /\ writes \in 0..BootWrites + 1
        BY <1>1, Sizes
      <3> QED
        BY <2>1, <3>1
    <2> QED
      BY <1>1, <1>5, <2>2 DEF WR_CHAR, MainPlace, NoRing
  <1>6. CASE EnableInterrupts
    BY <1>1, <1>6, Sizes DEF EnableInterrupts, MainPlace, NoRing
  <1>7. CASE ring_buf_init
    BY <1>1, <1>2, <1>7 DEF ring_buf_init, MainPlace, NoRing, Ring
  <1>8. CASE ring_buf_is_empty
    BY <1>1, <1>8 DEF ring_buf_is_empty, MainPlace, NoRing
  <1>9. CASE ring_buf_get
    BY <1>1, <1>2, <1>9 DEF ring_buf_get, MainPlace, NoRing, Ring
  <1>10. CASE Type \/ ps2_ihandler \/ Pico \/ espera_cs \/ m68k_escrita \/ m68k_leitura \/ start_irq
           \/ UNCHANGED vars
    <2>1. UNCHANGED ringVars
      BY <1>10 DEF Type, ps2_ihandler, Pico, BusEmpty, kbd_int_off, pio_sm_get, pio_sm_clear_fifos,
         PutAnswer, kbd_poll, OfferKey, espera_cs, m68k_escrita, m68k_leitura, start_irq, vars
    <2> QED
      BY <1>3, <2>1
  <1> QED
    BY <1>4, <1>5, <1>6, <1>7, <1>8, <1>9, <1>10 DEF Next, Main

(* The other types. *)
LEMMA OtherTypes ==
  ASSUME IInv, [Next]_vars
  PROVE  /\ typed' \in 0..MaxKey /\ uart' \in 0..UART_DEPTH
         /\ eaten' \in {eaten, eaten + 1} /\ stray' \in {stray, stray + 1} /\ d0' \in 0..bytes'
         /\ pico' \in {"bus", "flag", "get", "clear", "answer", "kbd", "put", "inton"}
         /\ {ps2, pirq, bkd_int}' \subseteq BOOLEAN
         /\ pio' \in {"cs", "pull"} /\ cpu' \in {"main", "read", "write", "put"}
  <1>1. /\ typed \in 0..MaxKey /\ uart \in 0..UART_DEPTH
        /\ pico \in {"bus", "flag", "get", "clear", "answer", "kbd", "put", "inton"}
        /\ {ps2, pirq, bkd_int} \subseteq BOOLEAN
        /\ pio \in {"cs", "pull"} /\ cpu \in {"main", "read", "write", "put"}
    BY DEF IInv, TypeOK
  <1>2. /\ eaten' \in {eaten, eaten + 1} /\ stray' \in {stray, stray + 1}
        /\ typed' \in {typed} \cup (IF typed < MaxKey THEN {typed + 1} ELSE {})
        /\ uart' \in {uart} \cup (IF uart < UART_DEPTH THEN {uart + 1} ELSE {})
                            \cup (IF uart > 0 THEN {uart - 1} ELSE {})
    <2>1. CASE Type
      BY <2>1 DEF Type, history
    <2>2. CASE ps2_ihandler \/ start_irq \/ Int3Handler \/ UNCHANGED vars
      BY <2>2 DEF ps2_ihandler, PutKey, start_irq, Int3Handler, vars, history, kbdVars
    <2>3. CASE espera_cs \/ m68k_escrita \/ m68k_leitura
      BY <2>3 DEF espera_cs, m68k_escrita, m68k_leitura, history, kbdVars
    <2>4. CASE Pico
      BY <2>4 DEF Pico, BusEmpty, kbd_int_off, pio_sm_get, pio_sm_clear_fifos,
         PutAnswer, kbd_poll, OfferKey, PutKey, history, kbdVars
    <2>5. CASE Main
      BY <2>5 DEF Main, WR_CHAR, EnableInterrupts, ring_buf_init, ring_buf_is_empty, ring_buf_get, history, kbdVars
    <2> QED
      BY <2>1, <2>2, <2>3, <2>4, <2>5 DEF Next
  <1>3. typed' \in 0..MaxKey /\ uart' \in 0..UART_DEPTH
    BY <1>1, <1>2, Sizes
  <1>4. d0' \in 0..bytes'
    <2>1. d0 \in 0..bytes /\ bytes \in Nat /\ bytes' \in Nat /\ bytes' >= bytes
      BY TxStep DEF IInv, TypeOK
    <2>2. d0' = d0 \/ d0' = 0 \/ m68k_leitura
      BY DEF Next, Type, ps2_ihandler, Pico, BusEmpty, kbd_int_off, pio_sm_get, pio_sm_clear_fifos,
         PutAnswer, kbd_poll, OfferKey, espera_cs, m68k_escrita, m68k_leitura, start_irq, Int3Handler,
         Main, WR_CHAR, EnableInterrupts, ring_buf_init, ring_buf_is_empty, ring_buf_get, vars, cpuVars, NoByte
    <2>3. CASE m68k_leitura
      <3>1. tx \in Seq(1..bytes) /\ tx # <<>> /\ d0' = Head(tx)
        BY <2>3 DEF m68k_leitura, IInv, TypeOK
      <3>2. Head(tx) \in 1..bytes
        BY <3>1, TakeFront
      <3> QED
        BY <2>1, <3>1, <3>2
    <2> QED
      BY <2>1, <2>2, <2>3
  <1>5. /\ pico' \in {"bus", "flag", "get", "clear", "answer", "kbd", "put", "inton"}
        /\ pio' \in {"cs", "pull"} /\ cpu' \in {"main", "read", "write", "put"}
    BY <1>1 DEF Next, Type, ps2_ihandler, Pico, BusEmpty, kbd_int_off, pio_sm_get, pio_sm_clear_fifos, Register,
       PutAnswer, kbd_poll, OfferKey, espera_cs, m68k_escrita, m68k_leitura, start_irq, Int3Handler, picoVars,
       Main, WR_CHAR, EnableInterrupts, ring_buf_init, ring_buf_is_empty, ring_buf_get, vars, cpuVars
  <1>6. {ps2, pirq, bkd_int}' \subseteq BOOLEAN
    <2>1. ps2 \in BOOLEAN /\ pirq \in BOOLEAN /\ bkd_int \in BOOLEAN
      BY <1>1
    <2>2. CASE UNCHANGED <<ps2, pirq, bkd_int>>
      BY <2>1, <2>2
    <2>3. CASE kbd_int_on /\ ps2' \in {ps2, FALSE}
      BY <2>1, <2>3 DEF kbd_int_on
    <2>4. CASE kbd_int_off
      BY <2>1, <2>4 DEF kbd_int_off
    <2>5. CASE ps2' = TRUE /\ UNCHANGED <<pirq, bkd_int>>
      BY <2>1, <2>5
    <2>6. UNCHANGED <<ps2, pirq, bkd_int>> \/ (kbd_int_on /\ ps2' \in {ps2, FALSE})
          \/ kbd_int_off \/ (ps2' = TRUE /\ UNCHANGED <<pirq, bkd_int>>)
      BY DEF Next, Type, ps2_ihandler, Pico, BusEmpty, pio_sm_get, pio_sm_clear_fifos,
         PutAnswer, kbd_poll, OfferKey, espera_cs, m68k_escrita, m68k_leitura, start_irq, Int3Handler, picoVars,
         Main, WR_CHAR, EnableInterrupts, ring_buf_init, ring_buf_is_empty, ring_buf_get, vars
    <2> QED
      BY <2>2, <2>3, <2>4, <2>5, <2>6
  <1> QED
    BY <1>2, <1>3, <1>4, <1>5, <1>6

(* All types. *)
LEMMA TypeStep ==
  ASSUME IInv, [Next]_vars
  PROVE  TypeOK'
  <1>1. {rb'.head, rb'.tail} \subseteq 0..RING_BUFFER_SIZE - 1
    <2>1. rb' \in Ring
      BY MainStep DEF MainPlace
    <2>2. rb'.head \in Index /\ rb'.tail \in Index
      BY <2>1 DEF Ring
    <2> QED
      BY <2>2 DEF Index
  <1>2. {bytes, eaten, stray}' \subseteq Nat
    <2>1. bytes \in Nat /\ eaten \in Nat /\ stray \in Nat
      BY DEF IInv, TypeOK
    <2>2. bytes' \in Nat /\ eaten' \in {eaten, eaten + 1} /\ stray' \in {stray, stray + 1}
      BY TxStep, OtherTypes
    <2> QED
      BY <2>1, <2>2
  <1> QED
    BY <1>1, <1>2, MainStep, TxStep, RxStep, OtherTypes DEF TypeOK

(* Where Pico, bus and handler stand. *)
LEMMA BusPlaceStep ==
  ASSUME IInv, [Next]_vars
  PROVE  BusPlace'
  <1>1. /\ BusPlace /\ rx \in Seq({"read", "write"}) /\ tx \in Seq(1..bytes)
        /\ packet \in {"none", "read", "write"}
    BY DEF IInv, TypeOK
  <1> USE DEF BusPlace
  <1>2. CASE UNCHANGED <<pico, packet, rx, pirq, bkd_int, cpuVars, pio>>
    BY <1>1, <1>2 DEF cpuVars
  <1>3. CASE kbd_int_on /\ pico' \in {pico, "bus"} /\ pico \in {pico', "inton"}
             /\ UNCHANGED <<packet, rx, cpuVars, pio>>
    <2>1. pirq' = (pirq \/ ~bkd_int)
      BY <1>3 DEF kbd_int_on
    <2>2. bkd_int => pirq \/ pico = "flag"
      BY <1>1
    <2>3. pirq' \/ pico = "flag"
      BY <2>1, <2>2, Zenon
    <2>4. pico = "flag" => pico' = "flag"
      BY <1>3
    <2> QED
      BY <1>1, <1>3, <2>3, <2>4 DEF cpuVars
  <1>4. CASE BusEmpty \/ kbd_int_off \/ PutAnswer \/ kbd_poll \/ OfferKey \/ ps2_ihandler
    <2>1. CASE kbd_int_off
      BY <1>1, <2>1 DEF kbd_int_off, fifoVars, cpuVars
    <2>2. CASE BusEmpty \/ PutAnswer \/ kbd_poll
      BY <1>1, <2>2 DEF BusEmpty, PutAnswer, kbd_poll, fifoVars, cpuVars
    <2>3. CASE OfferKey
      BY <1>1, <1>3, <2>3 DEF OfferKey, PutKey, fifoVars, cpuVars
    <2>4. CASE ps2_ihandler
      <3>1. CASE kbd_int_on
        BY <1>3, <2>4, <3>1 DEF ps2_ihandler, PutKey, fifoVars
      <3>2. CASE ~kbd_int_on
        BY <1>2, <2>4, <3>2 DEF ps2_ihandler, PutKey, fifoVars
      <3> QED
        BY <3>1, <3>2
    <2> QED
      BY <1>4, <2>1, <2>2, <2>3, <2>4
  <1>5. CASE pio_sm_get
    <2>1. packet' \in {"read", "write"}
      BY <1>1, <1>5, TakeFront DEF pio_sm_get
    <2> QED
      BY <1>1, <1>5, <2>1 DEF pio_sm_get, cpuVars
  <1>6. CASE pio_sm_clear_fifos
    BY <1>1, <1>6 DEF pio_sm_clear_fifos, cpuVars, Register
  <1>7. CASE espera_cs
    <2>1. rx # <<>> => rx' # <<>>
      BY <1>1, <1>7 DEF espera_cs
    <2> QED
      BY <1>1, <1>7, <2>1 DEF espera_cs, picoVars, cpuVars
  <1>8. CASE m68k_escrita
    BY <1>1, <1>8 DEF m68k_escrita, picoVars
  <1>9. CASE m68k_leitura
    <2>1. d0' = Head(tx) /\ tx # <<>> /\ bytes \in Nat
      BY <1>9 DEF m68k_leitura, IInv, TypeOK
    <2>2. Head(tx) \in 1..bytes
      BY <1>1, <2>1, TakeFront
    <2>3. d0' # NoByte
      BY <2>1, <2>2 DEF NoByte
    <2> QED
      BY <1>1, <1>9, <2>3 DEF m68k_leitura, picoVars
  <1>10. CASE start_irq \/ WR_CHAR \/ Int3Handler
    BY <1>1, <1>10 DEF start_irq, WR_CHAR, Int3Handler, picoVars, fifoVars
  <1>11. CASE Type \/ EnableInterrupts \/ ring_buf_init \/ ring_buf_is_empty \/ ring_buf_get \/ UNCHANGED vars
    BY <1>1, <1>11, <1>2 DEF Type, EnableInterrupts, ring_buf_init, ring_buf_is_empty, ring_buf_get,
       vars, picoVars, fifoVars
  <1> QED
    BY <1>4, <1>5, <1>6, <1>7, <1>8, <1>9, <1>10, <1>11 DEF Next, Pico, Main

(* No key lies in the TX FIFO unannounced. *)
LEMMA SilentStep ==
  ASSUME IInv, [Next]_vars
  PROVE  NoSilentKey'
  <1> DEFINE Key == \E i \in DOMAIN tx : tx[i] \notin answers
             Told == pirq \/ ps2 \/ pico \in {"inton", "flag", "get", "clear"}
  <1>1. Key => Told
    BY DEF IInv, NoSilentKey
  <1>2. tx \in Seq(1..bytes) /\ bytes \in Nat /\ answers \subseteq 1..bytes /\ DOMAIN tx = 1..Len(tx)
        /\ Len(tx) \in Nat
    BY LenProperties DEF IInv, TypeOK
  <1>3. ASSUME UNCHANGED answers, tx' = tx \/ tx' = <<>> \/ (tx # <<>> /\ tx' = Tail(tx)), Key'
        PROVE  Key
    <2>1. CASE tx' = tx
      BY <1>3, <2>1
    <2>2. CASE tx' = <<>>
      BY <1>3, <2>2
    <2>3. CASE tx # <<>> /\ tx' = Tail(tx)
      <3>1. PICK i \in 1..Len(tx) - 1 : Tail(tx)[i] \notin answers
        <4>1. DOMAIN Tail(tx) = 1..Len(tx) - 1
          BY <1>2, <2>3, TakeFront, LenProperties
        <4> QED
          BY <1>3, <2>3, <4>1
      <3>2. Tail(tx)[i] = tx[i + 1]
        BY <1>2, <2>3, TakeFront
      <3>3. i + 1 \in 1..Len(tx)
        BY <1>2
      <3> QED
        BY <1>2, <3>1, <3>2, <3>3
    <2> QED
      BY <1>3, <2>1, <2>2, <2>3
  <1>4. ASSUME PutAnswer, Key'
        PROVE  Key
    <2>1. PICK i \in DOMAIN tx' : tx'[i] \notin answers'
      BY <1>4
    <2>2. bytes' = bytes + 1 /\ answers' = answers \cup {bytes'} /\ tx' \in {tx, Append(tx, bytes')}
      BY <1>4 DEF PutAnswer, pio_sm_put
    <2>3. CASE tx' = tx
      BY <2>1, <2>2, <2>3
    <2>4. CASE tx' = Append(tx, bytes')
      <3>1. \A j \in 1..Len(tx) : Append(tx, bytes + 1)[j] = tx[j]
        BY <1>2, PutByte
      <3>2. Append(tx, bytes + 1)[Len(tx) + 1] = bytes + 1
        BY <1>2, PutByte
      <3>3. DOMAIN tx' = 1..Len(tx) + 1
        <4>1. Append(tx, bytes + 1) \in Seq(1..bytes + 1) /\ Len(Append(tx, bytes + 1)) = Len(tx) + 1
          BY <1>2, PutByte
        <4> QED
          BY <2>2, <2>4, <4>1, LenProperties
      <3>4. i # Len(tx) + 1
        BY <2>1, <2>2, <2>4, <3>2
      <3>5. i \in 1..Len(tx)
        BY <1>2, <2>1, <3>3, <3>4
      <3> QED
        BY <1>2, <2>1, <2>2, <2>4, <3>1, <3>5
    <2> QED
      BY <2>2, <2>3, <2>4
  <1> HIDE DEF Key
  <1>5. CASE UNCHANGED <<tx, answers, picoVars>>
    <2>1. Key' => Key
      BY <1>3, <1>5
    <2>2. UNCHANGED <<pirq, ps2, pico>>
      BY <1>5 DEF picoVars
    <2> QED
      BY <1>1, <2>1, <2>2 DEF NoSilentKey, Key
  <1>6. CASE TakeStep \/ espera_cs
    <2>1. UNCHANGED answers /\ (tx' = tx \/ (tx # <<>> /\ tx' = Tail(tx)))
      BY <1>6 DEF TakeStep, m68k_escrita, m68k_leitura, espera_cs
    <2>2. UNCHANGED <<pirq, ps2, pico>>
      BY <1>6 DEF TakeStep, m68k_escrita, m68k_leitura, espera_cs, picoVars
    <2> QED
      BY <1>1, <1>3, <2>1, <2>2 DEF NoSilentKey, Key
  <1>7. CASE kbd_int_on
    <2>1. pirq' = (pirq \/ ~bkd_int) /\ (bkd_int => pirq \/ pico = "flag")
      BY <1>7 DEF kbd_int_on, IInv, BusPlace
    <2>2. pirq' \/ pico = "flag"
      BY <2>1, Zenon
    <2>3. pico = "flag" => pico' = "flag"
      BY <1>7 DEF Next, kbd_int_on, Type, ps2_ihandler, Pico, BusEmpty, kbd_int_off, pio_sm_get, pio_sm_clear_fifos,
         PutAnswer, kbd_poll, OfferKey, espera_cs, m68k_escrita, m68k_leitura, start_irq, Int3Handler, picoVars,
         Main, WR_CHAR, EnableInterrupts, ring_buf_init, ring_buf_is_empty, ring_buf_get, vars
    <2> QED
      BY <2>2, <2>3 DEF NoSilentKey
  <1>8. CASE ps2_ihandler
    <2>1. CASE ps2'
      BY <2>1 DEF NoSilentKey
    <2>2. CASE ~ps2'
      BY <1>7, <1>8, <2>2 DEF ps2_ihandler
    <2> QED
      BY <2>1, <2>2
  <1>9. CASE OfferKey
    BY <1>7, <1>9 DEF OfferKey, NoSilentKey
  <1>10. CASE PutAnswer
    <2>1. Key' => Key
      BY <1>4, <1>10
    <2>2. UNCHANGED <<pirq, ps2>> /\ pico = "answer"
      BY <1>10 DEF PutAnswer
    <2> QED
      BY <1>1, <2>1, <2>2 DEF NoSilentKey, Key
  <1>11. CASE kbd_int_off \/ pio_sm_get
    BY <1>11 DEF kbd_int_off, pio_sm_get, NoSilentKey
  <1>12. CASE pio_sm_clear_fifos
    BY <1>12 DEF pio_sm_clear_fifos, NoSilentKey
  <1>13. CASE BusEmpty \/ kbd_poll
    <2>1. UNCHANGED <<tx, answers, pirq, ps2>> /\ pico \in {"bus", "kbd"}
      BY <1>13 DEF BusEmpty, kbd_poll, fifoVars
    <2> QED
      BY <1>1, <1>3, <2>1 DEF NoSilentKey, Key
  <1>14. CASE Type \/ start_irq \/ Int3Handler \/ Main \/ UNCHANGED vars
    BY <1>5, <1>14 DEF Type, start_irq, Int3Handler, Main, WR_CHAR, EnableInterrupts, ring_buf_init,
       ring_buf_is_empty, ring_buf_get, vars, fifoVars
  <1> QED
    BY <1>6, <1>8, <1>9, <1>10, <1>11, <1>12, <1>13, <1>14 DEF Next, Pico, TakeStep

(***************************************************************************)
(* Answers and keys.                                                       *)
(***************************************************************************)

(* Only PutAnswer adds an answer; taking the answer that is there leaves   *)
(* none.                                                                   *)
LEMMA AnswerSteps ==
  ASSUME IInv, [Next]_vars
  PROVE  /\ HasAnswer' => HasAnswer \/ PutAnswer
         /\ TakeStep /\ Head(tx) \in answers => HasAnswer /\ ~HasAnswer'
         /\ \A i, j \in 1..Len(tx') : tx'[i] \in answers' /\ tx'[j] \in answers' => i = j
  <1>1. /\ tx \in Seq(1..bytes) /\ bytes \in Nat /\ answers \subseteq 1..bytes /\ Len(tx) \in Nat
        /\ \A i, j \in 1..Len(tx) : tx[i] \in answers /\ tx[j] \in answers => i = j
        /\ \A i \in 1..Len(tx) : tx[i] \in 1..bytes
    BY LenProperties, ElementOfSeq DEF IInv, TypeOK, OneAnswer
  <1>2. CASE (UNCHANGED <<bytes, answers, tx>> \/ pio_sm_clear_fifos) /\ ~TakeStep
    <2>1. UNCHANGED <<answers, tx>> \/ (UNCHANGED answers /\ tx' = <<>> /\ Len(tx') = 0)
      BY <1>2 DEF pio_sm_clear_fifos
    <2> QED
      BY <1>1, <1>2, <2>1 DEF HasAnswer
  <1>3. CASE TakeStep
    <2>1. tx # <<>> /\ tx' = Tail(tx) /\ UNCHANGED answers
      BY <1>3 DEF TakeStep, m68k_escrita, m68k_leitura
    <2>2. /\ Head(tx) = tx[1] /\ Len(tx) \in Nat \ {0} /\ Len(tx') = Len(tx) - 1
          /\ \A i \in 1..Len(tx) - 1 : tx'[i] = tx[i + 1]
      BY <1>1, <2>1, TakeFront
    <2>3. \A i \in 1..Len(tx) - 1 : i + 1 \in 1..Len(tx) /\ i + 1 # 1
      BY <2>2
    <2>4. 1 \in 1..Len(tx)
      BY <2>2
    <2>5. HasAnswer' => HasAnswer
      BY <2>1, <2>2, <2>3 DEF HasAnswer
    <2>6. Head(tx) \in answers => HasAnswer /\ ~HasAnswer'
      BY <1>1, <2>1, <2>2, <2>3, <2>4 DEF HasAnswer
    <2>7. ASSUME NEW i \in 1..Len(tx'), NEW j \in 1..Len(tx'), tx'[i] \in answers', tx'[j] \in answers'
          PROVE  i = j
      <3>1. i + 1 = j + 1
        BY <1>1, <2>1, <2>2, <2>3, <2>7
      <3> QED
        BY <2>2, <2>7, <3>1
    <2> QED
      BY <2>5, <2>6, <2>7
  <1>4. CASE pio_sm_put /\ (UNCHANGED answers \/ (PutAnswer /\ ~HasAnswer)) /\ ~TakeStep
    <2>1. bytes' = bytes + 1 /\ tx' \in {tx, Append(tx, bytes + 1)}
      BY <1>4 DEF pio_sm_put
    <2>2. answers' = answers \/ (answers' = answers \cup {bytes + 1} /\ PutAnswer /\ ~HasAnswer)
      BY <1>4, <2>1 DEF PutAnswer
    <2>3. bytes + 1 \notin answers /\ \A i \in 1..Len(tx) : tx[i] # bytes + 1
      BY <1>1
    <2>4. /\ Len(Append(tx, bytes + 1)) = Len(tx) + 1
          /\ \A i \in 1..Len(tx) : Append(tx, bytes + 1)[i] = tx[i]
          /\ Append(tx, bytes + 1)[Len(tx) + 1] = bytes + 1
      BY <1>1, PutByte
    <2>5. \A i \in 1..Len(tx') : (i \in 1..Len(tx) /\ tx'[i] = tx[i]) \/ (i = Len(tx) + 1 /\ tx'[i] = bytes + 1)
      <3>1. CASE tx' = tx
        BY <3>1
      <3>2. CASE tx' = Append(tx, bytes + 1)
        <4>1. \A i \in 1..Len(tx) + 1 : i \in 1..Len(tx) \/ i = Len(tx) + 1
          BY <1>1
        <4> QED
          BY <2>4, <3>2, <4>1
      <3> QED
        BY <2>1, <3>1, <3>2
    <2>6. CASE answers' = answers
      <3>1. \A i \in 1..Len(tx') : tx'[i] \in answers' => i \in 1..Len(tx) /\ tx[i] \in answers
        BY <2>3, <2>5, <2>6
      <3> QED
        BY <1>1, <1>4, <3>1 DEF HasAnswer
    <2>7. CASE answers' = answers \cup {bytes + 1} /\ PutAnswer /\ ~HasAnswer
      <3>1. \A i \in 1..Len(tx') : tx'[i] \in answers' => i = Len(tx) + 1
        BY <2>3, <2>5, <2>7 DEF HasAnswer
      <3> QED
        BY <1>4, <2>7, <3>1
    <2> QED
      BY <2>2, <2>6, <2>7
  <1>5. CASE PutStep /\ ~TakeStep
    BY <1>4, <1>5 DEF PutStep
  <1>6. CASE PutAnswer
    <2>1. ~HasAnswer
      BY <1>6 DEF IInv, OneAnswer, PutAnswer
    <2>2. ~TakeStep
      BY <1>6 DEF PutAnswer, TakeStep, m68k_escrita, m68k_leitura
    <2> QED
      BY <1>4, <1>6, <2>1, <2>2 DEF PutAnswer
  <1>7. PutStep => ~TakeStep
    <2>1. PutStep => bytes' = bytes + 1
      BY DEF PutStep, pio_sm_put
    <2>2. TakeStep => bytes' = bytes
      BY DEF TakeStep, m68k_escrita, m68k_leitura
    <2> QED
      BY <1>1, <2>1, <2>2
  <1> QED
    BY <1>2, <1>3, <1>5, <1>6, <1>7, FifoSteps DEF FifoStep

(* No two answers, and none when one is put. *)
LEMMA OneAnswerStep ==
  ASSUME IInv, [Next]_vars
  PROVE  OneAnswer'
  <1>1. CASE pio_sm_clear_fifos
    <2>1. tx' = <<>> /\ Len(tx') = 0
      BY <1>1 DEF pio_sm_clear_fifos
    <2> QED
      BY <2>1 DEF OneAnswer, HasAnswer
  <1>2. CASE ~pio_sm_clear_fifos
    <2>1. pico' = "answer" => pico = "answer" /\ ~PutAnswer
      BY <1>2 DEF Next, Type, ps2_ihandler, Pico, BusEmpty, kbd_int_off, pio_sm_get, PutAnswer, kbd_poll,
         OfferKey, espera_cs, m68k_escrita, m68k_leitura, start_irq, Int3Handler, picoVars,
         Main, WR_CHAR, EnableInterrupts, ring_buf_init, ring_buf_is_empty, ring_buf_get, vars
    <2> QED
      BY <2>1, AnswerSteps DEF OneAnswer, IInv
  <1> QED
    BY <1>1, <1>2

(* The weights of the balance are 0 or 1. *)
LEMMA Weights ==
  /\ Unit(HasAnswer) \in 0..1 /\ Unit(Served) \in 0..1 /\ Unit(Waits) \in 0..1 /\ Unit(Writing) \in 0..1
  /\ Unit(HasAnswer)' \in 0..1 /\ Unit(Served)' \in 0..1 /\ Unit(Waits)' \in 0..1 /\ Unit(Writing)' \in 0..1
  BY DEF Unit

(* A step that adds nothing on the side of the answers and takes nothing   *)
(* from the side of the keys.                                              *)
LEMMA Lighter ==
  ASSUME IInv, [Next]_vars,
         HasAnswer' => HasAnswer, Served' => Served, Waits' => Waits, Writing => Writing',
         stray' = stray, eaten' = eaten
  PROVE  Balance'
  <1>1. stray \in Nat /\ eaten \in Nat /\ Balance
    BY DEF IInv, TypeOK
  <1>2. /\ Unit(HasAnswer)' <= Unit(HasAnswer) /\ Unit(Served)' <= Unit(Served)
        /\ Unit(Waits)' <= Unit(Waits) /\ Unit(Writing) <= Unit(Writing)'
    BY DEF Unit
  <1> QED
    BY <1>1, <1>2, Weights DEF Balance

LEMMA BalanceStep ==
  ASSUME IInv, [Next]_vars
  PROVE  Balance'
  <1>1. /\ stray \in Nat /\ eaten \in Nat /\ Balance /\ StrayCostsKey
        /\ tx \in Seq(1..bytes) /\ rx \in Seq({"read", "write"}) /\ Len(rx) \in Nat
    BY LenProperties DEF IInv, TypeOK
  <1>2. ~PutAnswer => (HasAnswer' => HasAnswer)
    BY AnswerSteps
  <1>3. CASE UNCHANGED <<pico, packet, rx, cpu, pio, eaten, stray>> /\ ~PutAnswer
    BY <1>2, <1>3, Lighter DEF Served, Waits, Writing
  <1>4. CASE Type \/ ps2_ihandler \/ EnableInterrupts \/ ring_buf_init \/ ring_buf_is_empty \/ ring_buf_get
             \/ UNCHANGED vars
    <2>1. UNCHANGED <<pico, packet, rx, cpu, pio, eaten, stray>>
      BY <1>4 DEF Type, ps2_ihandler, PutKey, EnableInterrupts, ring_buf_init, ring_buf_is_empty,
         ring_buf_get, vars, picoVars, fifoVars, cpuVars, history
    <2>2. ~PutAnswer
      BY <2>1 DEF PutAnswer
    <2> QED
      BY <1>3, <2>1, <2>2
  <1>5. CASE start_irq \/ WR_CHAR \/ Int3Handler
    <2>1. UNCHANGED <<pico, packet, rx, pio, eaten, stray>> /\ cpu \notin {"read", "write"}
      BY <1>5 DEF start_irq, WR_CHAR, Int3Handler, picoVars, fifoVars
    <2>2. ~PutAnswer /\ ~Writing
      BY <2>1 DEF PutAnswer, Writing
    <2> QED
      BY <1>2, <2>1, <2>2, Lighter DEF Served, Waits
  <1>6. CASE BusEmpty \/ kbd_int_off \/ kbd_poll \/ OfferKey
    <2>1. /\ UNCHANGED <<packet, rx, pio, cpu, eaten, stray>> /\ {pico, pico'} \cap {"clear", "answer"} = {}
      BY <1>6 DEF BusEmpty, kbd_int_off, kbd_poll, OfferKey, PutKey, fifoVars, cpuVars, history
    <2>2. ~PutAnswer
      BY <2>1 DEF PutAnswer
    <2> QED
      BY <1>2, <2>1, <2>2, Lighter DEF Served, Waits, Writing
  <1>7. CASE pio_sm_get
    <2>1. /\ UNCHANGED <<tx, answers, pio, cpu, eaten, stray>> /\ pico = "get" /\ pico' = "clear"
          /\ packet' = Head(rx) /\ rx # <<>>
      BY <1>7 DEF pio_sm_get, cpuVars, history, IInv, BusPlace
    <2>2. Head(rx) = rx[1] /\ 1 \in 1..Len(rx)
      BY <1>1, <2>1, TakeFront
    <2>3. /\ ~Waits' /\ ~Served /\ (Served' => Waits) /\ Writing' = Writing /\ HasAnswer' = HasAnswer
      BY <2>1, <2>2 DEF Waits, Served, Writing, HasAnswer
    <2>4. /\ Unit(Waits)' = 0 /\ Unit(Served) = 0 /\ Unit(Served)' <= Unit(Waits)
          /\ Unit(Writing)' = Unit(Writing) /\ Unit(HasAnswer)' = Unit(HasAnswer)
      BY <2>3 DEF Unit
    <2> QED
      BY <1>1, <2>1, <2>4, Weights DEF Balance
  <1>8. CASE pio_sm_clear_fifos
    <2>1. /\ UNCHANGED <<packet, pio, cpu, eaten, stray>> /\ pico = "clear" /\ pico' = Register
          /\ rx' = <<>> /\ Len(rx') = 0
      BY <1>8 DEF pio_sm_clear_fifos, cpuVars, history
    <2>2. ~PutAnswer
      BY <2>1 DEF PutAnswer
    <2>3. ~Waits' /\ (Served' => Served)
      BY <2>1 DEF Waits, Served, Register
    <2> QED
      BY <1>2, <2>1, <2>2, <2>3, Lighter DEF Writing
  <1>9. CASE PutAnswer
    <2>1. /\ UNCHANGED <<packet, rx, pio, cpu, eaten, stray>> /\ pico = "answer" /\ pico' = "kbd"
          /\ packet = "write" /\ ~HasAnswer
      BY <1>9 DEF PutAnswer, cpuVars, history, IInv, BusPlace, OneAnswer
    <2>2. Served /\ ~Served' /\ Waits' = Waits /\ Writing' = Writing
      BY <2>1 DEF Served, Waits, Writing
    <2>3. /\ Unit(Served) = 1 /\ Unit(Served)' = 0 /\ Unit(HasAnswer) = 0
          /\ Unit(Waits)' = Unit(Waits) /\ Unit(Writing)' = Unit(Writing)
      BY <2>1, <2>2 DEF Unit
    <2> QED
      BY <1>1, <2>1, <2>3, Weights DEF Balance
  <1>10. CASE espera_cs
    <2>1. /\ UNCHANGED <<pico, packet, tx, answers, cpu, eaten, stray>> /\ pio = "cs" /\ pio' = "pull"
          /\ rx' \in {rx, Append(rx, cpu)}
      BY <1>10 DEF espera_cs, picoVars, cpuVars, history
    <2>2. HasAnswer' = HasAnswer /\ Served' = Served /\ ~Writing
      BY <2>1 DEF HasAnswer, Served, Writing
    <2>3. Waits' => Waits \/ Writing'
      <3>1. CASE cpu = "write"
        BY <2>1, <3>1 DEF Writing
      <3>2. CASE cpu # "write"
        <4>1. ASSUME rx' = Append(rx, cpu), NEW i \in 1..Len(rx'), rx'[i] = "write"
              PROVE  \E j \in 1..Len(rx) : rx[j] = "write"
          <5>1. cpu \in {"read", "write"}
            BY <1>10 DEF espera_cs
          <5>2. /\ Len(Append(rx, cpu)) = Len(rx) + 1 /\ Append(rx, cpu)[Len(rx) + 1] = cpu
                /\ \A j \in 1..Len(rx) : Append(rx, cpu)[j] = rx[j]
            BY <1>1, <5>1, AppendProperties
          <5>3. i # Len(rx) + 1
            BY <3>2, <4>1, <5>2
          <5>4. i \in 1..Len(rx)
            BY <1>1, <4>1, <5>2, <5>3
          <5> QED
            BY <4>1, <5>2, <5>4
        <4> QED
          BY <2>1, <4>1 DEF Waits
      <3> QED
        BY <3>1, <3>2
    <2>4. /\ Unit(HasAnswer)' = Unit(HasAnswer) /\ Unit(Served)' = Unit(Served) /\ Unit(Writing) = 0
          /\ Unit(Waits)' <= Unit(Waits) + Unit(Writing)'
      BY <2>2, <2>3 DEF Unit
    <2> QED
      BY <1>1, <2>1, <2>4, Weights DEF Balance
  <1>11. CASE TakeStep
    <2>1. /\ UNCHANGED <<pico, packet, rx>> /\ pio = "pull" /\ pio' = "cs"
      BY <1>11 DEF TakeStep, m68k_escrita, m68k_leitura, picoVars
    <2>2. Waits' = Waits /\ Served' = Served /\ ~Writing' /\ ~PutAnswer
      BY <2>1 DEF Waits, Served, Writing, PutAnswer
    <2>3. Unit(Waits)' = Unit(Waits) /\ Unit(Served)' = Unit(Served) /\ Unit(Writing)' = 0
      BY <2>2 DEF Unit
    <2>4. CASE Head(tx) \in answers
      <3>1. HasAnswer /\ ~HasAnswer'
        BY <1>11, <2>4, AnswerSteps
      <3>2. Unit(HasAnswer) = 1 /\ Unit(HasAnswer)' = 0
        BY <3>1 DEF Unit
      <3>3. eaten' = eaten /\ (stray' = stray \/ (stray' = stray + 1 /\ ~Writing))
        BY <1>11, <2>4 DEF TakeStep, m68k_escrita, m68k_leitura, Writing
      <3>4. ~Writing => Unit(Writing) = 0
        BY DEF Unit
      <3> QED
        BY <1>1, <2>3, <3>2, <3>3, <3>4, Weights DEF Balance
    <2>5. CASE Head(tx) \notin answers
      <3>1. Unit(HasAnswer)' <= Unit(HasAnswer)
        BY <1>2, <2>2 DEF Unit
      <3>2. stray' = stray /\ (eaten' = eaten + 1 \/ (eaten' = eaten /\ ~Writing))
        BY <1>11, <2>5 DEF TakeStep, m68k_escrita, m68k_leitura, Writing
      <3>3. ~Writing => Unit(Writing) = 0
        BY DEF Unit
      <3> QED
        BY <1>1, <2>3, <3>1, <3>2, <3>3, Weights DEF Balance
    <2> QED
      BY <2>4, <2>5
  <1> QED
    BY <1>4, <1>5, <1>6, <1>7, <1>8, <1>9, <1>10, <1>11 DEF Next, Pico, Main, TakeStep

(* An answer that a read takes was not the dummy of a write in its cycle,  *)
(* so that a key pays for it.                                              *)
LEMMA StrayStep ==
  ASSUME IInv, [Next]_vars
  PROVE  StrayCostsKey'
  <1>1. stray \in Nat /\ eaten \in Nat /\ StrayCostsKey
    BY DEF IInv, TypeOK
  <1>2. stray' = stray \/ (stray' = stray + 1 /\ m68k_leitura)
    BY DEF Next, Type, ps2_ihandler, PutKey, Pico, BusEmpty, kbd_int_off, pio_sm_get, pio_sm_clear_fifos,
       PutAnswer, kbd_poll, OfferKey, espera_cs, m68k_escrita, m68k_leitura, start_irq, Int3Handler,
       Main, WR_CHAR, EnableInterrupts, ring_buf_init, ring_buf_is_empty, ring_buf_get, vars, history
  <1>3. CASE stray' = stray
    BY <1>1, <1>3, OtherTypes DEF StrayCostsKey
  <1>4. CASE stray' = stray + 1 /\ m68k_leitura
    <2>1. ~Writing' /\ stray' \in Nat /\ eaten' \in Nat
      BY <1>1, <1>4, OtherTypes DEF m68k_leitura, Writing
    <2>2. Unit(Writing)' = 0
      BY <2>1 DEF Unit
    <2> QED
      BY <2>1, <2>2, BalanceStep, Weights DEF Balance, StrayCostsKey
  <1> QED
    BY <1>2, <1>3, <1>4

(* Every step keeps the invariant, *)
LEMMA StepIInv == IInv /\ [Next]_vars => IInv'
  BY TypeStep, MainStep, BusPlaceStep, SilentStep, OneAnswerStep, BalanceStep, StrayStep DEF IInv

(* and so it always holds. *)
LEMMA Invariance == Spec => []IInv
  BY InitIInv, StepIInv, PTL DEF Spec

-----------------------------------------------------------------------------
(***************************************************************************)
(* The refinement.                                                         *)
(***************************************************************************)

Inside == All(RingHolds, One(d0), tx)

(* The steps of LossyFifo, said of the bytes on their way. *)
LEMMA PathSteps ==
  /\ UNCHANGED <<bytes, Inside, received>> => UNCHANGED Path!vars
  /\ bytes' = bytes + 1 /\ Inside' \in {Append(Inside, bytes'), Inside} /\ UNCHANGED received => Path!Next
  /\ Cut(Inside, Inside') /\ UNCHANGED <<bytes, received>> => Path!Next
  /\ Inside # << >> /\ received' = Append(received, Head(Inside)) /\ Inside' = Tail(Inside)
       /\ UNCHANGED bytes => Path!Next
  <1>1. Inside = RingHolds \o One(d0) \o tx
    BY DEF Inside, All
  <1>2. Inside' = RingHolds' \o One(d0)' \o tx'
    BY DEF Inside, All
  <1> QED
    BY <1>1, <1>2 DEF Cut, Path!vars, Path!Next, Path!Put, Path!Lose, Path!Deliver

(* The parts are sequences of bytes. *)
LEMMA Parts ==
  ASSUME IInv
  PROVE  RingHolds \in Seq(Any) /\ One(d0) \in Seq(Any) /\ tx \in Seq(Any) /\ bytes + 1 \in Any
  <1>1. bytes \in Nat /\ d0 \in 0..bytes /\ tx \in Seq(1..bytes)
    BY DEF IInv, TypeOK
  <1>2. One(d0) \in Seq(Any)
    <2>1. CASE d0 = NoByte
      BY <2>1, Empty DEF One
    <2>2. CASE d0 # NoByte
      BY <1>1, <2>2 DEF One, Any
    <2> QED
      BY <2>1, <2>2
  <1>3. tx \in Seq(Any)
    BY <1>1 DEF Any
  <1>4. RingHolds \in Seq(Any)
    <2>1. CASE main \in NoRing
      BY <2>1, Empty DEF RingHolds, NoRing
    <2>2. CASE main \notin NoRing
      <3>1. RingHolds = Between(rb.head, rb.tail, rb.cell)
        BY <2>2 DEF RingHolds, Between, NoRing
      <3>2. Between(rb.head, rb.tail, rb.cell) \in Seq(Any)
        BY Sizes, BetweenIs DEF Reads, IInv, MainPlace, Ring, Index
      <3> QED
        BY <3>1, <3>2
    <2> QED
      BY <2>1, <2>2
  <1> QED
    BY <1>1, <1>2, <1>3, <1>4 DEF Any

(* A step that leaves every part alone. *)
LEMMA Untouched ==
  UNCHANGED <<rb, main, d0, tx>> => UNCHANGED <<RingHolds, One(d0), Inside>>
  BY DEF Inside, All, RingHolds, One

(* The Pico puts a byte: it is the newest, or lost. *)
LEMMA PutRefines ==
  ASSUME IInv, pio_sm_put, UNCHANGED <<cpuVars, ringVars>>
  PROVE  Path!Next
  <1>1. bytes' = bytes + 1 /\ UNCHANGED <<received, RingHolds, One(d0)>>
    BY DEF pio_sm_put, cpuVars, ringVars, RingHolds, One
  <1>2. PICK k \in Any : k = bytes + 1
    BY Parts
  <1>3. CASE tx' = tx
    <2>1. Inside' = Inside
      BY <1>1, <1>3 DEF Inside
    <2> QED
      BY <1>1, <2>1, PathSteps
  <1>4. CASE tx' = Append(tx, k)
    <2>1. Longer(All(RingHolds, One(d0), Append(tx, k)), Inside, k)
      BY Parts, Arrive DEF Inside
    <2>2. Inside' = Append(Inside, k)
      BY <1>1, <1>4, <2>1 DEF Inside, Longer
    <2> QED
      BY <1>1, <1>2, <2>2, PathSteps
  <1> QED
    BY <1>1, <1>2, <1>3, <1>4 DEF pio_sm_put

(* The Pico and its keyboards put bytes, or lose what is cleared. *)
LEMMA PicoRefines ==
  ASSUME IInv, Type \/ ps2_ihandler \/ Pico
  PROVE  Path!Next \/ UNCHANGED Path!vars
  <1>1. UNCHANGED <<cpuVars, ringVars>>
    BY DEF Type, ps2_ihandler, Pico, BusEmpty, kbd_int_off, pio_sm_get, pio_sm_clear_fifos, PutAnswer,
       kbd_poll, OfferKey
  <1>2. UNCHANGED <<received, RingHolds, One(d0)>>
    BY <1>1 DEF cpuVars, ringVars, RingHolds, One
  <1>3. CASE pio_sm_put
    BY <1>1, <1>3, PutRefines
  <1>4. CASE pio_sm_clear_fifos
    <2>1. Cut(Inside, All(RingHolds, One(d0), << >>))
      BY Parts, LoseWords DEF Inside
    <2>2. Cut(Inside, Inside') /\ UNCHANGED bytes
      BY <1>2, <1>4, <2>1 DEF Inside, pio_sm_clear_fifos
    <2> QED
      BY <1>2, <2>2, PathSteps
  <1>5. CASE UNCHANGED <<bytes, tx>>
    <2>1. UNCHANGED Inside
      BY <1>2, <1>5 DEF Inside
    <2> QED
      BY <1>2, <1>5, <2>1, PathSteps
  <1> QED
    BY <1>3, <1>4, <1>5 DEF Type, ps2_ihandler, PutKey, Pico, BusEmpty, kbd_int_off, pio_sm_get, PutAnswer,
       kbd_poll, OfferKey, fifoVars

(* The bus moves a byte up, or a write loses it. *)
LEMMA BusRefines ==
  ASSUME IInv, espera_cs \/ TakeStep \/ start_irq
  PROVE  Path!Next \/ UNCHANGED Path!vars
  <1>1. UNCHANGED <<bytes, received, RingHolds>>
    BY DEF espera_cs, TakeStep, m68k_escrita, m68k_leitura, start_irq, fifoVars, ringVars, RingHolds
  <1>2. CASE UNCHANGED <<tx, d0>>
    <2>1. UNCHANGED Inside
      BY <1>1, <1>2 DEF Inside, One
    <2> QED
      BY <1>1, <2>1, PathSteps
  <1>3. CASE m68k_leitura
    <2>1. One(d0) = << >> /\ tx # << >> /\ d0' = Head(tx) /\ tx' = Tail(tx)
      BY <1>3 DEF m68k_leitura, IInv, BusPlace, One
    <2>2. tx \in Seq(1..bytes) /\ bytes \in Nat
      BY DEF IInv, TypeOK
    <2>3. Head(tx) \in 1..bytes
      BY <2>1, <2>2, TakeFront
    <2>4. One(d0)' = <<Head(tx)>>
      BY <2>1, <2>2, <2>3 DEF One, NoByte
    <2>5. All(RingHolds, << >>, tx) = All(RingHolds, <<Head(tx)>>, Tail(tx))
      BY <2>1, Parts, Read
    <2>6. UNCHANGED Inside
      BY <1>1, <2>1, <2>4, <2>5 DEF Inside
    <2> QED
      BY <1>1, <2>6, PathSteps
  <1>4. CASE m68k_escrita
    <2>1. One(d0) = << >> /\ One(d0)' = << >> /\ tx # << >> /\ tx' = Tail(tx)
      BY <1>4 DEF m68k_escrita, IInv, BusPlace, One
    <2>2. Cut(All(RingHolds, << >>, tx), All(RingHolds, << >>, Tail(tx)))
      BY <2>1, Parts, Swallow
    <2>3. Cut(Inside, Inside')
      BY <1>1, <2>1, <2>2 DEF Inside
    <2> QED
      BY <1>1, <2>3, PathSteps
  <1> QED
    BY <1>2, <1>3, <1>4 DEF espera_cs, start_irq, TakeStep, cpuVars, fifoVars

(* The handler: a byte that the ring takes moves on, one that it refuses,  *)
(* or that comes before the ring is initialised, is lost.                  *)
LEMMA HandlerRefines ==
  ASSUME IInv, Int3Handler
  PROVE  Path!Next \/ UNCHANGED Path!vars
  <1>1. /\ UNCHANGED <<bytes, received, tx, main>>
        /\ d0 \in Any /\ One(d0) = <<d0>> /\ One(d0)' = << >>
    <2>1. UNCHANGED <<bytes, received, tx, main>> /\ d0 # NoByte /\ d0' = NoByte
      BY DEF Int3Handler, fifoVars, IInv, BusPlace
    <2>2. bytes \in Nat /\ d0 \in 0..bytes
      BY DEF IInv, TypeOK
    <2> QED
      BY <2>1, <2>2 DEF One, Any
  <1>2. CASE UNCHANGED RingHolds
    <2>1. Cut(Inside, All(RingHolds, << >>, tx))
      BY Parts, LoseByte DEF Inside
    <2>2. Cut(Inside, Inside')
      BY <1>1, <1>2, <2>1 DEF Inside
    <2> QED
      BY <1>1, <2>2, PathSteps
  <1>3. CASE RingHolds' = Append(RingHolds, d0)
    <2>1. PICK k \in Any : k = d0
      BY <1>1
    <2>2. All(RingHolds, <<k>>, tx) = All(Append(RingHolds, k), << >>, tx)
      BY Parts, Store
    <2>3. UNCHANGED Inside
      BY <1>1, <1>3, <2>1, <2>2 DEF Inside
    <2> QED
      BY <1>1, <2>3, PathSteps
  <1>4. RingHolds' = RingHolds \/ RingHolds' = Append(RingHolds, d0)
    <2>1. CASE main \in NoRing \/ UNCHANGED rb
      BY <1>1, <2>1 DEF RingHolds, NoRing
    <2>2. CASE main \notin NoRing /\ rb' # rb
      <3>1. rb \in Ring /\ rb.buffer
        BY <2>2 DEF IInv, MainPlace, NoRing
      <3>2. /\ Succ(rb.head) # rb.tail
            /\ rb' = [rb EXCEPT !.head = Succ(@), !.cell[rb.head] = d0]
        BY <2>2, <3>1 DEF Int3Handler, ring_buf_put
      <3>3. PICK n \in Nat : n = RING_BUFFER_SIZE /\ n > 1
        BY Sizes
      <3>4. PICK head \in 0..n - 1, tail \in 0..n - 1, f \in [0..n - 1 -> Any], c \in Any :
               head = rb.head /\ tail = rb.tail /\ f = rb.cell /\ c = d0
        BY <1>1, <3>1, <3>3 DEF Ring, Index
      <3>5. Succ(rb.head) = After(n, head)
        BY <3>3, <3>4, NoRemainder DEF Succ
      <3>6. Longer(Between(After(n, head), tail, [f EXCEPT ![head] = c]), Between(head, tail, f), c)
        <4>1. After(n, head) # tail
          BY <3>2, <3>4, <3>5
        <4> QED
          BY <3>3, <4>1, PutLast
      <3>7. rb'.head = After(n, head) /\ rb'.tail = tail /\ rb'.cell = [f EXCEPT ![head] = c]
        BY <3>1, <3>2, <3>4, <3>5 DEF Ring
      <3>8. RingHolds = Between(rb.head, rb.tail, rb.cell) /\ RingHolds' = Between(rb'.head, rb'.tail, rb'.cell)
        BY <1>1, <2>2 DEF RingHolds, Between, NoRing
      <3> QED
        BY <3>4, <3>6, <3>7, <3>8 DEF Longer
    <2> QED
      BY <2>1, <2>2
  <1> QED
    BY <1>2, <1>3, <1>4

(* The main program: ring_buf_init hides nothing that was seen, and what   *)
(* the reader gets is the oldest of the ring.                              *)
LEMMA MainRefines ==
  ASSUME IInv, Main
  PROVE  Path!Next \/ UNCHANGED Path!vars
  <1>1. UNCHANGED <<bytes, One(d0), tx>>
    BY DEF Main, WR_CHAR, EnableInterrupts, ring_buf_init, ring_buf_is_empty, ring_buf_get, fifoVars, cpuVars, One
  <1>2. CASE UNCHANGED <<RingHolds, received>>
    <2>1. UNCHANGED Inside
      BY <1>1, <1>2 DEF Inside
    <2> QED
      BY <1>1, <1>2, <2>1, PathSteps
  <1>3. PICK n \in Nat : n = RING_BUFFER_SIZE /\ n > 1
    BY Sizes
  <1>4. rb \in Ring
    BY DEF IInv, MainPlace
  <1>5. PICK head \in 0..n - 1, tail \in 0..n - 1, f \in [0..n - 1 -> Any] :
           head = rb.head /\ tail = rb.tail /\ f = rb.cell
    BY <1>3, <1>4 DEF Ring, Index
  <1>6. CASE ring_buf_get
    <2>1. /\ head # tail /\ received' = Append(received, f[tail])
          /\ rb'.head = head /\ rb'.tail = Succ(tail) /\ rb'.cell = f
          /\ main = "get" /\ main' = "look"
      BY <1>4, <1>5, <1>6 DEF ring_buf_get, IInv, MainPlace, Ring
    <2>2. Succ(tail) = After(n, tail)
      BY <1>3, NoRemainder DEF Succ
    <2>3. RingHolds = Between(head, tail, f) /\ RingHolds' = Between(head, After(n, tail), f)
      BY <1>5, <2>1, <2>2 DEF RingHolds, Between
    <2>4. Shorter(RingHolds, RingHolds', f[tail])
      BY <1>3, <2>1, <2>3, GetFirst
    <2>5. Shorter(Inside, All(Tail(RingHolds), One(d0), tx), Head(RingHolds))
      <3>1. RingHolds # << >>
        BY <2>4 DEF Shorter
      <3> QED
        BY <3>1, Parts, TakeOut DEF Inside
    <2>6. Inside' = Tail(Inside)
      BY <1>1, <2>4, <2>5 DEF Inside, Shorter
    <2> QED
      BY <1>1, <2>1, <2>4, <2>5, <2>6, PathSteps DEF Shorter
  <1>7. CASE main = "boot head" /\ ring_buf_init
    <2>1. main' = "boot tail" /\ rb'.head = 0 /\ rb'.tail = 0 /\ rb'.cell = f /\ RingHolds = << >>
      BY <1>4, <1>5, <1>7 DEF ring_buf_init, IInv, MainPlace, NoRing, Ring, RingHolds
    <2>2. RingHolds' = Between(0, 0, f)
      BY <2>1 DEF RingHolds, Between
    <2>3. Count(n, 0, 0) = 0 /\ 0 \in 0..n - 1
      BY <1>3 DEF Count
    <2>4. Reads(Between(0, 0, f), n, 0, 0, f)
      BY <1>3, <2>3, BetweenIs
    <2>5. RingHolds' = << >>
      BY <2>2, <2>4, EmptySeq DEF Reads
    <2> QED
      BY <1>2, <1>7, <2>1, <2>5 DEF ring_buf_init
  <1>8. CASE main \in NoRing /\ main' \in NoRing /\ UNCHANGED received
    BY <1>2, <1>8 DEF RingHolds, NoRing
  <1>9. CASE /\ main \notin NoRing /\ main' \notin NoRing /\ UNCHANGED received
             /\ rb'.head = head /\ rb'.tail = tail /\ rb'.cell = f
    <2>1. UNCHANGED RingHolds
      BY <1>5, <1>9 DEF RingHolds, NoRing
    <2> QED
      BY <1>2, <1>9, <2>1
  <1>10. CASE WR_CHAR \/ EnableInterrupts
    BY <1>8, <1>10 DEF WR_CHAR, EnableInterrupts, NoRing
  <1>11. CASE ring_buf_init /\ main # "boot head"
    <2>1. CASE main = "boot"
      BY <1>8, <1>11, <2>1 DEF ring_buf_init, NoRing
    <2>2. CASE main = "boot tail"
      <3>1. rb'.head = head /\ rb'.tail = tail /\ rb'.cell = f
        BY <1>4, <1>5, <1>11, <2>2 DEF ring_buf_init, IInv, MainPlace, NoRing, Ring
      <3> QED
        BY <1>9, <1>11, <2>2, <3>1 DEF ring_buf_init, NoRing
    <2> QED
      BY <1>11, <2>1, <2>2 DEF ring_buf_init
  <1>12. CASE ring_buf_is_empty
    BY <1>5, <1>9, <1>12 DEF ring_buf_is_empty, NoRing
  <1> QED
    BY <1>6, <1>7, <1>10, <1>11, <1>12 DEF Main

(* Nothing is on its way at first. *)
LEMMA InitRefines == Init => Path!Init
  <1> SUFFICES ASSUME Init PROVE Path!Init
    OBVIOUS
  <1>1. RingHolds = << >> /\ One(d0) = << >> /\ tx = << >>
    BY DEF Init, RingHolds, One
  <1> QED
    BY <1>1 DEF Init, Path!Init

(* Every step is one of LossyFifo. *)
LEMMA StepRefines == IInv /\ [Next]_vars => [Path!Next]_(Path!vars)
  <1> SUFFICES ASSUME IInv, [Next]_vars PROVE [Path!Next]_(Path!vars)
    OBVIOUS
  <1>1. CASE UNCHANGED vars
    <2>1. UNCHANGED <<rb, main, d0, tx, bytes, received>>
      BY <1>1 DEF vars, fifoVars, cpuVars, ringVars
    <2> QED
      BY <2>1, Untouched, PathSteps
  <1> QED
    BY <1>1, PicoRefines, BusRefines, HandlerRefines, MainRefines DEF Next, TakeStep

-----------------------------------------------------------------------------
(* Whatever the depths of the queues and the size of the ring, none runs   *)
(* over and the ring's indices stay inside it.                             *)
THEOREM TypeCorrect == Spec => []TypeOK
  <1>1. IInv => TypeOK
    BY DEF IInv
  <1> QED
    BY Invariance, <1>1, PTL

(* However the two keyboards, the Pico, the bus and the 68000 interleave,  *)
(* no key lies in the TX FIFO unannounced.                                 *)
THEOREM EveryKeyAnnounced == Spec => []NoSilentKey
  <1>1. IInv => NoSilentKey
    BY DEF IInv
  <1> QED
    BY Invariance, <1>1, PTL

(* However often the boot writes its marks, no more zeros that answer them *)
(* are read as keys than keys were taken for their dummies.                *)
THEOREM StrayIsPaidFor == Spec => []StrayCostsKey
  <1>1. IInv => StrayCostsKey
    BY DEF IInv
  <1> QED
    BY Invariance, <1>1, PTL

(* Whatever the depths of the queues, the size of the ring and the         *)
(* interleaving, what the shell gets was put by the Pico, once, and in     *)
(* that order: every step puts a byte, loses bytes that lie one behind the *)
(* other, hands the oldest to the shell, or leaves the bytes on their way. *)
THEOREM RefinesLossyFifo == Spec => ImplementsLossyFifo
  BY Invariance, InitRefines, StepRefines, PTL DEF Spec, ImplementsLossyFifo, Path!Spec
=============================================================================
