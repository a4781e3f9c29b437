----------------------------- MODULE KHeapProofs ----------------------------
(***************************************************************************)
(* Proofs about KHeap, for a heap of any length, any clients and requests, *)
(* and the executions in which no tick lands inside a call.                *)
(***************************************************************************)
EXTENDS KHeap, TLAPS

At == frame[running].at
P  == frame[running].p

-----------------------------------------------------------------------------
(* The parts of the inductive invariant.  B is the set of the blocks.       *)

(* The block that belongs to no client: krealloc has taken it and not moved *)
(* the data yet, or it is about to be marked as free.                       *)
Claimed(b) == At \in {"copy", "mark_free"} /\ b = P

(* A used block is a client's, or the one the call has claimed. *)
UsedAreClaimed(B) ==
    \A b \in B : ~mem[b].free => Claimed(b) \/ \E c \in Client : held[c] = b + 1

(* What a client holds is a used block, as large as what it uses of it. *)
HeldAreUsed(B) ==
    \A c \in Client : held[c] # NULL =>
        /\ held[c] - 1 \in B
        /\ ~mem[held[c] - 1].free
        /\ want[c] <= mem[held[c] - 1].size

Distinct == \A c, d \in Client : held[c] = held[d] /\ held[c] # NULL => c = d

OneCall == \A c \in Client : c # running => frame[c].at = "user"

(* A search, and what it has found: krealloc searches for more than it has. *)
Asking ==
    At \in {"search", "take", "copy"} =>
        /\ frame[running].ask \in Request
        /\ held[running] # NULL => mem[held[running] - 1].size < frame[running].ask

(* The search is at a block, or at the end, and none before it will do. *)
Searching(B) ==
    At = "search" => /\ P \in B \cup {HEAP}
                     /\ frame[running].n = frame[running].ask
                     /\ \A b \in B : b < P => ~Fits(b, frame[running].ask)

(* The block found is free and large enough; if it is to be split, the      *)
(* header of the part that is left over is there.                           *)
Taking(B) ==
    At = "take" =>
        LET n == frame[running].n IN
        /\ P \in B
        /\ mem[P].free
        /\ n \in 0..HEAP
        /\ frame[running].ask <= n
        /\ \/ n = mem[P].size
           \/ /\ n + 1 <= mem[P].size
              /\ mem[P + 1 + n] = [size |-> mem[P].size - n - 1, free |-> TRUE]

Claiming(B) ==
    At \in {"copy", "mark_free"} =>
        /\ P \in B
        /\ ~mem[P].free
        /\ \A c \in Client : held[c] # P + 1

Copying == At = "copy" => held[running] # NULL /\ frame[running].ask <= mem[P].size

Merging(B) ==
    /\ At \in {"look_behind", "merge"} => P \in B /\ mem[P].free
    /\ At = "merge" => /\ Behind(P) \in B
                       /\ mem[Behind(P)].free
                       /\ frame[running].n = mem[P].size + 1 + mem[Behind(P)].size

Blocks(B) == B \in SUBSET Address /\ Tiling(B)
Owners(B) == UsedAreClaimed(B) /\ HeldAreUsed(B) /\ Distinct
Call(B)   == OneCall /\ Asking /\ Searching(B) /\ Taking(B) /\ Claiming(B) /\ Copying /\ Merging(B)

IInv == TypeOK /\ DataKept /\ \E B \in SUBSET Address : Blocks(B) /\ Owners(B) /\ Call(B)

-----------------------------------------------------------------------------
(* Types, headers and what a write of memory changes. *)
FrameType == [at : Place, p : 0..HEAP, ask : Request \cup {0}, n : 0..HEAP \cup Request]

LEMMA Constants ==
  /\ HEAP \in Nat /\ HEAP > 0
  /\ \A a : a \in Address <=> a \in Nat /\ a < HEAP
  /\ \A n \in Request : n \in Nat /\ n > 0
  /\ NULL \notin Address
  <1>1. HEAP \in Nat /\ HEAP > 0
    BY KHeapAssumption
  <1>2. \A n \in Request : n \in Nat /\ n > 0
    BY KHeapAssumption
  <1>3. \A a : a \in Address <=> a \in Nat /\ a < HEAP
    BY <1>1 DEF Address
  <1>4. NULL \notin Address
    BY <1>3, KHeapAssumption
  <1> QED
    BY <1>1, <1>2, <1>3, <1>4

LEMMA HeaderFields ==
  ASSUME NEW h \in Header
  PROVE  h.size \in Nat /\ h.size <= HEAP /\ h.free \in BOOLEAN
  BY KHeapAssumption DEF Header

LEMMA IsHeaderTyped ==
  ASSUME TypeOK, NEW a
  PROVE  IsHeader(a) <=> a \in Address /\ mem[a] \in Header
  BY KHeapAssumption DEF IsHeader, TypeOK, Word, Header

LEMMA FillTyped ==
  ASSUME NEW m \in [Address -> Word], NEW from, NEW n, NEW w \in Word
  PROVE  Fill(m, from, n, w) \in [Address -> Word]
  BY DEF Fill

LEMMA SetHeaderTyped ==
  ASSUME NEW m \in [Address -> Word], NEW a \in Address, NEW n \in 0..HEAP, NEW free \in BOOLEAN
  PROVE  /\ SetHeader(m, a, n, free) \in [Address -> Word]
         /\ SetHeader(m, a, n, free)[a] = [size |-> n, free |-> free]
         /\ \A b \in Address : b # a => SetHeader(m, a, n, free)[b] = m[b]
  <1>1. [size |-> n, free |-> free] \in Word
    BY DEF Word, Header
  <1> QED
    BY <1>1 DEF SetHeader

(* Each block is a header and the words behind it, inside the heap, and two *)
(* blocks do not overlap.                                                   *)
LEMMA BlockFacts ==
  ASSUME TypeOK, NEW B \in SUBSET Address, Blocks(B)
  PROVE  /\ 0 \in B
         /\ \A b \in B : /\ b \in Nat /\ b < HEAP
                         /\ mem[b] \in Header
                         /\ mem[b].size \in Nat
                         /\ mem[b].free \in BOOLEAN
                         /\ Behind(b) \in B \cup {HEAP}
                         /\ Behind(b) = b + 1 + mem[b].size
                         /\ b + 1 + mem[b].size <= HEAP
         /\ \A b, c \in B : b < c => b + 1 + mem[b].size <= c
  <1>1. \A b \in B : b \in Nat /\ b < HEAP
    BY KHeapAssumption DEF Address
  <1>2. \A b \in B : mem[b] \in Header
    BY IsHeaderTyped DEF Blocks, Tiling
  <1>3. \A b \in B : mem[b].size \in Nat /\ mem[b].free \in BOOLEAN
    BY <1>2, HeaderFields
  <1>4. \A b \in B : Behind(b) \in B \cup {HEAP}
    BY DEF Blocks, Tiling
  <1>5. \A b \in B : Behind(b) <= HEAP
    BY <1>1, <1>4, KHeapAssumption
  <1>6. ASSUME NEW b \in B, NEW c \in B, b < c
        PROVE  b + 1 + mem[b].size <= c
    <2>1. c <= b \/ c >= Behind(b)
      BY DEF Blocks, Tiling
    <2> QED
      BY <2>1, <1>1, <1>3, <1>6 DEF Behind
  <1> QED
    BY <1>1, <1>2, <1>3, <1>4, <1>5, <1>6 DEF Blocks, Tiling, Behind

(* The blocks stay where they are as long as their sizes do. *)
LEMMA SameBlocks ==
  ASSUME TypeOK, TypeOK', NEW B \in SUBSET Address, Blocks(B),
         \A b \in B : mem'[b] \in Header /\ mem'[b].size = mem[b].size
  PROVE  Blocks(B)'
  <1>1. \A b \in B : IsHeader(b)'
    BY KHeapAssumption DEF IsHeader, Header
  <1>2. \A b \in B : Behind(b)' = Behind(b)
    BY DEF Behind
  <1> QED
    BY <1>1, <1>2 DEF Blocks, Tiling

(* The running task goes to another place of its call; the others are in no *)
(* call and stay there.                                                     *)
LEMMA FrameStep ==
  ASSUME TypeOK, OneCall, running' = running, NEW f \in FrameType, Goto(f)
  PROVE  /\ frame' \in [Client -> FrameType]
         /\ frame'[running'] = f /\ frame'[running] = f
         /\ At' = f.at /\ P' = f.p
         /\ OneCall'
  <1>1. frame \in [Client -> FrameType] /\ running \in Client
    BY DEF TypeOK, FrameType
  <1>2. /\ frame' \in [Client -> FrameType] /\ frame'[running] = f
        /\ \A c \in Client : c # running => frame'[c] = frame[c]
    BY <1>1 DEF Goto
  <1> QED
    BY <1>2 DEF At, P, OneCall

LEMMA HeldFacts ==
  ASSUME TypeOK, NEW B \in SUBSET Address, Blocks(B), Owners(B),
         NEW c \in Client, held[c] # NULL
  PROVE  /\ held[c] \in Nat /\ held[c] > 0 /\ held[c] - 1 \in B
         /\ ~mem[held[c] - 1].free
         /\ mem[held[c] - 1].size \in Nat
         /\ want[c] \in Nat /\ want[c] <= mem[held[c] - 1].size
         /\ held[c] + mem[held[c] - 1].size <= HEAP
  <1>0. held[c] \in Address /\ want[c] \in Request \cup {0}
    BY DEF TypeOK
  <1>1. held[c] \in Nat /\ want[c] \in Nat
    BY <1>0, Constants
  <1>2. held[c] - 1 \in B /\ ~mem[held[c] - 1].free /\ want[c] <= mem[held[c] - 1].size
    BY DEF Owners, HeldAreUsed
  <1>3. held[c] > 0
    BY <1>1, <1>2, BlockFacts
  <1>4. mem[held[c] - 1].size \in Nat /\ (held[c] - 1) + 1 + mem[held[c] - 1].size <= HEAP
    BY <1>2, BlockFacts
  <1> QED
    BY <1>1, <1>2, <1>3, <1>4

-----------------------------------------------------------------------------
LEMMA InitIInv == kmalloc_init => IInv
  <1> SUFFICES ASSUME kmalloc_init PROVE IInv
    OBVIOUS
  <1> USE KHeapAssumption
  <1>1. 0 \in Address /\ HEAP - 1 \in 0..HEAP
    BY DEF Address
  <1>2. [a \in Address |-> JUNK] \in [Address -> Word]
    BY DEF Word
  <1>3. mem \in [Address -> Word] /\ mem[0] = [size |-> HEAP - 1, free |-> TRUE]
    <2> DEFINE m == [a \in Address |-> JUNK]
    <2>1. m \in [Address -> Word] /\ mem = SetHeader(m, 0, HEAP - 1, TRUE)
      BY <1>2 DEF kmalloc_init
    <2> HIDE DEF m
    <2> QED
      BY <1>1, <2>1, SetHeaderTyped
  <1>4. frame = [c \in Client |-> UserFrame] /\ UserFrame \in FrameType /\ UserFrame.at = "user"
    BY DEF kmalloc_init, UserFrame, Frame, FrameType, Place
  <1>5. held = [c \in Client |-> NULL] /\ want = [c \in Client |-> 0] /\ running \in Client
    BY DEF kmalloc_init
  <1>6. TypeOK
    BY <1>3, <1>4, <1>5 DEF TypeOK, FrameType
  <1>7. Blocks({0})
    <2>1. mem[0] \in Header
      BY <1>1, <1>3 DEF Header
    <2>2. IsHeader(0) /\ Behind(0) = HEAP
      <3>1. IsHeader(0)
        BY <1>1, <1>6, <2>1, IsHeaderTyped
      <3>2. mem[0].size = HEAP - 1
        BY <1>3
      <3> QED
        BY <3>1, <3>2 DEF Behind
    <2> QED
      BY <1>1, <2>2 DEF Blocks, Tiling
  <1>8. mem[0].free
    BY <1>3
  <1>9. Owners({0})
    BY <1>5, <1>8 DEF Owners, UsedAreClaimed, HeldAreUsed, Distinct
  <1>10. Call({0})
    BY <1>4, <1>5 DEF Call, OneCall, Asking, Searching, Taking, Claiming, Copying, Merging, At
  <1>11. DataKept
    BY <1>5 DEF DataKept
  <1> QED
    BY <1>1, <1>6, <1>7, <1>9, <1>10, <1>11 DEF IInv

-----------------------------------------------------------------------------
(* One step of the running task, of those that write nothing: the blocks    *)
(* and what they hold are as before, whatever the place of the call.        *)
LEMMA QuietStep ==
  ASSUME TypeOK, DataKept, NEW B \in SUBSET Address, Blocks(B), Owners(B), OneCall,
         NEW f \in FrameType, Goto(f), UNCHANGED <<mem, held, want, running>>,
         At \notin {"copy", "mark_free"}
  PROVE  TypeOK' /\ DataKept' /\ Blocks(B)' /\ Owners(B)' /\ OneCall'
  <1>1. frame' \in [Client -> FrameType] /\ OneCall'
    BY FrameStep
  <1>2. TypeOK'
    BY <1>1 DEF TypeOK, FrameType
  <1>3. DataKept'
    BY DEF DataKept
  <1>4. Blocks(B)'
    BY DEF Blocks, Tiling, IsHeader, Behind
  <1>5. UsedAreClaimed(B)'
    BY DEF Owners, UsedAreClaimed, Claimed
  <1>6. HeldAreUsed(B)' /\ Distinct'
    BY DEF Owners, HeldAreUsed, Distinct
  <1> QED
    BY <1>1, <1>2, <1>3, <1>4, <1>5, <1>6 DEF Owners

(* kmalloc, and krealloc of a block that is too small: the search begins. *)
LEMMA BeginSearch ==
  ASSUME IInv, NEW n \in Request, Running("user"),
         held[running] # NULL => mem[held[running] - 1].size < n,
         Goto(Frame("search", 0, n, n)), UNCHANGED <<mem, held, want, running>>
  PROVE  IInv'
  <1>1. PICK B \in SUBSET Address : Blocks(B) /\ Owners(B) /\ Call(B)
    BY DEF IInv
  <1> DEFINE f == Frame("search", 0, n, n)
  <1>2. f \in FrameType /\ f.at = "search" /\ f.p = 0 /\ f.ask = n /\ f.n = n
    BY KHeapAssumption DEF Frame, FrameType, Place
  <1>3. TypeOK /\ DataKept /\ OneCall /\ At = "user" /\ Goto(f)
    BY <1>1 DEF IInv, Call, Running, At
  <1> HIDE DEF f
  <1>4. TypeOK' /\ DataKept' /\ Blocks(B)' /\ Owners(B)' /\ OneCall'
    BY <1>1, <1>2, <1>3, QuietStep
  <1>5. frame'[running'] = f /\ At' = "search" /\ P' = 0
    BY <1>2, <1>3, FrameStep
  <1>6. Asking'
    BY <1>2, <1>5 DEF Asking
  <1>7. Searching(B)'
    <2>1. 0 \in B /\ \A b \in B : ~(b < 0)
      BY <1>1, <1>3, BlockFacts
    <2> QED
      BY <1>2, <1>5, <2>1 DEF Searching
  <1>8. Taking(B)' /\ Claiming(B)' /\ Copying' /\ Merging(B)'
    BY <1>5 DEF Taking, Claiming, Copying, Merging
  <1> QED
    BY <1>4, <1>6, <1>7, <1>8 DEF IInv, Call

(* The search goes on behind a block that will not do. *)
LEMMA SkipBlockStep ==
  ASSUME IInv, SkipBlock
  PROVE  IInv'
  <1>1. PICK B \in SUBSET Address : Blocks(B) /\ Owners(B) /\ Call(B)
    BY DEF IInv
  <1> DEFINE f == [frame[running] EXCEPT !.p = Behind(P)]
  <1>2. /\ TypeOK /\ DataKept /\ OneCall /\ At = "search" /\ Goto(f)
        /\ UNCHANGED <<mem, held, want, running>>
    BY <1>1 DEF IInv, Call, SkipBlock, Running, At, P
  <1>3. P < HEAP /\ P \in B /\ ~Fits(P, frame[running].ask)
    <2>1. P < HEAP /\ ~Fits(P, frame[running].ask)
      BY DEF SkipBlock, P
    <2>2. P \in B \cup {HEAP}
      BY <1>1, <1>2 DEF Call, Searching
    <2>3. P # HEAP
      BY <2>1, Constants
    <2> QED
      BY <2>1, <2>2, <2>3
  <1>4. Behind(P) \in B \cup {HEAP} /\ Behind(P) \in 0..HEAP
    <2>1. Behind(P) \in B \cup {HEAP}
      BY <1>1, <1>2, <1>3, BlockFacts
    <2> QED
      BY <2>1, Constants
  <1>5. frame[running] \in FrameType
    BY <1>2 DEF TypeOK, FrameType
  <1>6. /\ f \in FrameType /\ f.at = "search" /\ f.p = Behind(P)
        /\ f.ask = frame[running].ask /\ f.n = frame[running].n
    BY <1>2, <1>4, <1>5 DEF FrameType, At
  <1> HIDE DEF f
  <1>7. TypeOK' /\ DataKept' /\ Blocks(B)' /\ Owners(B)' /\ OneCall'
    BY <1>1, <1>2, <1>6, QuietStep
  <1>8. frame'[running'] = f /\ At' = "search" /\ P' = Behind(P)
    BY <1>2, <1>6, FrameStep
  <1>9. Asking'
    BY <1>1, <1>2, <1>6, <1>8 DEF Asking, Call
  <1>10. Searching(B)'
    <2>1. \A b \in B : b < Behind(P) => b < P \/ b = P
      BY <1>1, <1>2, <1>3, BlockFacts
    <2>2. \A b \in B : b < Behind(P) => ~Fits(b, frame[running].ask)
      BY <1>1, <1>2, <1>3, <2>1 DEF Call, Searching
    <2>3. \A b \in B : b < Behind(P) => ~Fits(b, frame[running].ask)'
      BY <1>2, <1>6, <1>8, <2>2 DEF Fits, IsFree, IsHeader
    <2>4. frame[running].n = frame[running].ask
      BY <1>1, <1>2 DEF Call, Searching
    <2> QED
      BY <1>4, <1>6, <1>8, <2>3, <2>4 DEF Searching
  <1>11. Taking(B)' /\ Claiming(B)' /\ Copying' /\ Merging(B)'
    BY <1>8 DEF Taking, Claiming, Copying, Merging
  <1> QED
    BY <1>7, <1>9, <1>10, <1>11 DEF IInv, Call

(* The search ends with the whole block that fits. *)
LEMMA UseWholeStep ==
  ASSUME IInv, UseWhole
  PROVE  IInv'
  <1>1. PICK B \in SUBSET Address : Blocks(B) /\ Owners(B) /\ Call(B)
    BY DEF IInv
  <1> DEFINE f == [frame[running] EXCEPT !.at = "take", !.n = mem[P].size]
  <1>2. /\ TypeOK /\ DataKept /\ OneCall /\ At = "search" /\ Goto(f)
        /\ UNCHANGED <<mem, held, want, running>>
        /\ Fits(P, frame[running].ask)
    BY <1>1 DEF IInv, Call, UseWhole, Running, At, P
  <1>3. P \in B /\ mem[P].free /\ frame[running].ask <= mem[P].size /\ mem[P].size \in 0..HEAP
    <2>1. P \in B \cup {HEAP} /\ P \in Address
      BY <1>1, <1>2 DEF Call, Searching, Fits, IsFree, IsHeader
    <2>2. P \in B
      BY <2>1, Constants
    <2>3. mem[P].size \in Nat /\ mem[P].size <= HEAP
      BY <1>1, <1>2, <2>2, BlockFacts, HeaderFields
    <2>4. frame[running].ask \in Nat
      BY <1>1, <1>2, Constants DEF Call, Asking
    <2> QED
      BY <1>2, <2>2, <2>3, <2>4, Constants DEF Fits, IsFree
  <1>5. frame[running] \in FrameType
    BY <1>2 DEF TypeOK, FrameType
  <1>6. /\ f \in FrameType /\ f.at = "take" /\ f.p = P
        /\ f.ask = frame[running].ask /\ f.n = mem[P].size
    BY <1>3, <1>5 DEF FrameType, Place, P
  <1> HIDE DEF f
  <1>7. TypeOK' /\ DataKept' /\ Blocks(B)' /\ Owners(B)' /\ OneCall'
    BY <1>1, <1>2, <1>6, QuietStep
  <1>8. frame'[running'] = f /\ At' = "take" /\ P' = P
    BY <1>2, <1>6, FrameStep
  <1>9. Asking'
    BY <1>1, <1>2, <1>6, <1>8 DEF Asking, Call
  <1>10. Taking(B)'
    BY <1>2, <1>3, <1>6, <1>8 DEF Taking
  <1>11. Searching(B)' /\ Claiming(B)' /\ Copying' /\ Merging(B)'
    BY <1>8 DEF Searching, Claiming, Copying, Merging
  <1> QED
    BY <1>7, <1>9, <1>10, <1>11 DEF IInv, Call

(* A step that ends the call in any place where it has claimed nothing. *)
LEMMA BackToUser ==
  ASSUME IInv, Goto(UserFrame), UNCHANGED <<mem, held, want, running>>,
         At \notin {"copy", "mark_free"}
  PROVE  IInv'
  <1>1. PICK B \in SUBSET Address : Blocks(B) /\ Owners(B) /\ Call(B)
    BY DEF IInv
  <1>2. TypeOK /\ DataKept /\ OneCall
    BY <1>1 DEF IInv, Call
  <1>3. UserFrame \in FrameType /\ UserFrame.at = "user"
    BY Constants DEF UserFrame, Frame, FrameType, Place
  <1>4. TypeOK' /\ DataKept' /\ Blocks(B)' /\ Owners(B)' /\ OneCall'
    BY <1>1, <1>2, <1>3, QuietStep
  <1>5. At' = "user"
    BY <1>2, <1>3, FrameStep
  <1>6. Asking' /\ Taking(B)' /\ Searching(B)' /\ Claiming(B)' /\ Copying' /\ Merging(B)'
    BY <1>5 DEF Asking, Taking, Searching, Claiming, Copying, Merging
  <1> QED
    BY <1>4, <1>6 DEF IInv, Call

(* The look at the block behind the freed one. *)
LEMMA LookBehindStep ==
  ASSUME IInv, LookBehind
  PROVE  IInv'
  <1>1. PICK B \in SUBSET Address : Blocks(B) /\ Owners(B) /\ Call(B)
    BY DEF IInv
  <1> DEFINE n == mem[P].size + 1 + mem[Behind(P)].size
             f == [frame[running] EXCEPT !.at = "merge", !.n = n]
  <1>2. /\ TypeOK /\ DataKept /\ OneCall /\ At = "look_behind"
        /\ UNCHANGED <<mem, held, want, running>>
    BY <1>1 DEF IInv, Call, LookBehind, Running, At
  <1>3. CASE Merges(P)
    <2>1. Goto(f)
      BY <1>3 DEF LookBehind, P
    <2>2. P \in B /\ mem[P].free
      BY <1>1, <1>2 DEF Call, Merging
    <2>3. Behind(P) \in B /\ mem[Behind(P)].free
      <3>1. Behind(P) \in B \cup {HEAP} /\ Behind(P) \in Address
        BY <1>1, <1>2, <1>3, <2>2, BlockFacts DEF Merges, IsFree, IsHeader
      <3> QED
        BY <1>3, <3>1, Constants DEF Merges, IsFree
    <2>4. n \in 0..HEAP
      <3>1. /\ P \in Nat /\ mem[P].size \in Nat /\ mem[Behind(P)].size \in Nat
            /\ Behind(P) = P + 1 + mem[P].size
            /\ Behind(P) + 1 + mem[Behind(P)].size <= HEAP
        BY <1>1, <1>2, <2>2, <2>3, BlockFacts
      <3> QED
        BY <3>1, Constants
    <2> HIDE DEF n
    <2>5. frame[running] \in FrameType
      BY <1>2 DEF TypeOK, FrameType
    <2>6. f \in FrameType /\ f.at = "merge" /\ f.p = P /\ f.n = n
      BY <2>4, <2>5 DEF FrameType, Place, P
    <2> HIDE DEF f
    <2>7. TypeOK' /\ DataKept' /\ Blocks(B)' /\ Owners(B)' /\ OneCall'
      BY <1>1, <1>2, <2>1, <2>6, QuietStep
    <2>8. frame'[running'] = f /\ At' = "merge" /\ P' = P
      BY <1>2, <2>1, <2>6, FrameStep
    <2>9. Merging(B)'
      <3>1. Behind(P)' = Behind(P)
        BY <1>2, <2>8 DEF Behind
      <3> QED
        BY <1>2, <2>2, <2>3, <2>6, <2>8, <3>1 DEF Merging, n
    <2>10. Asking' /\ Taking(B)' /\ Searching(B)' /\ Claiming(B)' /\ Copying'
      BY <2>8 DEF Asking, Taking, Searching, Claiming, Copying
    <2> QED
      BY <2>7, <2>9, <2>10 DEF IInv, Call
  <1>4. CASE ~Merges(P)
    BY <1>2, <1>4, BackToUser DEF LookBehind, P
  <1> QED
    BY <1>3, <1>4

-----------------------------------------------------------------------------
(* The words of a block.  Other blocks' words are others. *)
Within(a, b) == b <= a /\ a < b + 1 + mem[b].size

LEMMA OneBlockPerWord ==
  ASSUME TypeOK, NEW B \in SUBSET Address, Blocks(B), NEW b \in B, NEW c \in B, NEW a \in Nat,
         Within(a, b), Within(a, c)
  PROVE  b = c
  <1>1. b \in Nat /\ c \in Nat /\ mem[b].size \in Nat /\ mem[c].size \in Nat
    BY BlockFacts
  <1>2. ~(b < c) /\ ~(c < b)
    BY <1>1, BlockFacts DEF Within
  <1> QED
    BY <1>1, <1>2

LEMMA HeaderWithin ==
  ASSUME TypeOK, NEW B \in SUBSET Address, Blocks(B), NEW b \in B
  PROVE  Within(b, b)
  <1>1. b \in Nat /\ mem[b].size \in Nat
    BY BlockFacts
  <1> QED
    BY <1>1 DEF Within

(* What a client has written lies in its block, behind the header. *)
LEMMA DataWithin ==
  ASSUME TypeOK, NEW B \in SUBSET Address, Blocks(B), Owners(B),
         NEW c \in Client, held[c] # NULL, NEW a \in held[c]..held[c] + want[c] - 1
  PROVE  a \in Nat /\ a \in Address /\ a # held[c] - 1 /\ Within(a, held[c] - 1)
  <1>1. /\ held[c] \in Nat /\ want[c] \in Nat /\ mem[held[c] - 1].size \in Nat
        /\ held[c] > 0 /\ want[c] <= mem[held[c] - 1].size
        /\ held[c] + mem[held[c] - 1].size <= HEAP
    BY HeldFacts
  <1>2. a \in Nat /\ held[c] <= a /\ a < held[c] + want[c]
    BY <1>1
  <1> QED
    BY <1>1, <1>2, Constants DEF Within

(* A write inside one block leaves the headers of all blocks alone. *)
LEMMA InnerWrite ==
  ASSUME TypeOK, TypeOK', NEW B \in SUBSET Address, Blocks(B), NEW W \in SUBSET B,
         \A a \in Address : mem'[a] # mem[a] => \E b \in W : a # b /\ Within(a, b)
  PROVE  Blocks(B)' /\ \A b \in B : mem'[b] = mem[b]
  <1>1. ASSUME NEW b \in B PROVE mem'[b] = mem[b]
    <2>1. b \in Address /\ b \in Nat /\ Within(b, b)
      BY BlockFacts, HeaderWithin
    <2>2. \A c \in W : Within(b, c) => b = c
      BY <2>1, OneBlockPerWord
    <2> QED
      BY <2>1, <2>2
  <1>2. \A b \in B : mem'[b] \in Header /\ mem'[b].size = mem[b].size
    BY <1>1, BlockFacts
  <1> QED
    BY <1>1, <1>2, SameBlocks

(* A client's data is kept by a write in blocks that are not its own. *)
LEMMA ForeignWrite ==
  ASSUME TypeOK, NEW B \in SUBSET Address, Blocks(B), Owners(B), DataKept, NEW W \in SUBSET B,
         \A a \in Address : mem'[a] # mem[a] => \E b \in W : Within(a, b),
         NEW c \in Client, held[c] # NULL, held[c] - 1 \notin W
  PROVE  \A a \in held[c]..held[c] + want[c] - 1 : mem'[a] = c
  <1> TAKE a \in held[c]..held[c] + want[c] - 1
  <1>1. a \in Nat /\ a \in Address /\ Within(a, held[c] - 1) /\ held[c] - 1 \in B
    BY DataWithin, HeldFacts
  <1>2. \A b \in W : ~Within(a, b)
    BY <1>1, OneBlockPerWord
  <1>3. mem[a] = c
    BY DEF DataKept
  <1> QED
    BY <1>1, <1>2, <1>3

-----------------------------------------------------------------------------
(* krealloc of a block that is large enough. *)
LEMMA ReallocInPlace ==
  ASSUME IInv, NEW n \in Request, krealloc(n), n <= mem[held[running] - 1].size
  PROVE  IInv'
  <1>1. PICK B \in SUBSET Address : Blocks(B) /\ Owners(B) /\ Call(B)
    BY DEF IInv
  <1> DEFINE h == held[running]
             m == Fill(mem, h, want[running], JUNK)
  <1>2. /\ TypeOK /\ DataKept /\ At = "user" /\ h # NULL /\ running \in Client
        /\ want' = [want EXCEPT ![running] = n]
        /\ mem' = Fill(m, h, n, running)
        /\ UNCHANGED <<held, running, frame>>
    BY DEF IInv, krealloc, Running, At, TypeOK
  <1>3. /\ h \in Nat /\ h > 0 /\ h - 1 \in B /\ mem[h - 1].size \in Nat
        /\ want[running] \in Nat /\ want[running] <= mem[h - 1].size
    BY <1>1, <1>2, HeldFacts
  <1>4. mem' \in [Address -> Word]
    <2>1. mem \in [Address -> Word] /\ JUNK \in Word /\ running \in Word
      BY <1>2 DEF TypeOK, Word
    <2>2. m \in [Address -> Word]
      BY <2>1, FillTyped
    <2> HIDE DEF m
    <2> QED
      BY <1>2, <2>1, <2>2, FillTyped
  <1>5. \A a \in Address : mem'[a] = IF a \in h..h + n - 1 THEN running
                                    ELSE IF a \in h..h + want[running] - 1 THEN JUNK ELSE mem[a]
    BY <1>2 DEF Fill
  <1> HIDE DEF m
  <1>6. TypeOK'
    BY <1>2, <1>4 DEF TypeOK
  <1>7. \A a \in Address : mem'[a] # mem[a] => a # h - 1 /\ Within(a, h - 1)
    <2> SUFFICES ASSUME NEW a \in Address, mem'[a] # mem[a]
                 PROVE  a # h - 1 /\ Within(a, h - 1)
      OBVIOUS
    <2>1. a \in h..h + n - 1 \/ a \in h..h + want[running] - 1
      BY <1>5
    <2>2. a \in Nat /\ n \in Nat
      BY Constants
    <2>3. h <= a /\ a < h + mem[h - 1].size
      BY <1>3, <2>1, <2>2
    <2> HIDE DEF h
    <2> QED
      BY <1>3, <2>2, <2>3 DEF Within
  <1>8. Blocks(B)' /\ \A b \in B : mem'[b] = mem[b]
    BY <1>1, <1>2, <1>3, <1>6, <1>7, InnerWrite, {h - 1} \in SUBSET B
  <1>9. DataKept'
    <2> SUFFICES ASSUME NEW c \in Client, held[c] # NULL,
                        NEW a \in held[c]..held[c] + want'[c] - 1
                 PROVE  mem'[a] = c
      BY <1>2 DEF DataKept
    <2>1. CASE c = running
      <3>1. a \in h..h + n - 1 /\ a \in Nat
        BY <1>2, <1>3, <2>1, Constants DEF TypeOK
      <3>2. a < HEAP
        <4>1. h + mem[h - 1].size <= HEAP /\ n \in Nat
          BY <1>1, <1>2, HeldFacts, Constants
        <4> QED
          BY <1>3, <3>1, <4>1, Constants
      <3> QED
        BY <1>5, <2>1, <3>1, <3>2, Constants
    <2>2. CASE c # running
      <3>1. held[c] # h
        BY <1>1, <1>2, <2>2 DEF Owners, Distinct
      <3>2. held[c] \in Nat
        BY <1>1, <1>2, HeldFacts
      <3>3. held[c] - 1 \notin {h - 1}
        BY <1>3, <3>1, <3>2
      <3>4. a \in held[c]..held[c] + want[c] - 1
        BY <1>2, <2>2 DEF TypeOK
      <3> QED
        BY <1>1, <1>2, <1>3, <1>7, <3>3, <3>4, ForeignWrite, {h - 1} \in SUBSET B
    <2> QED
      BY <2>1, <2>2
  <1>10. Owners(B)'
    <2>1. UsedAreClaimed(B)' /\ Distinct'
      BY <1>1, <1>2, <1>8 DEF Owners, UsedAreClaimed, Claimed, Distinct, At, P
    <2>2. HeldAreUsed(B)'
      BY <1>1, <1>2, <1>8 DEF Owners, HeldAreUsed, TypeOK
    <2> QED
      BY <2>1, <2>2 DEF Owners
  <1>11. Call(B)'
    <2>1. OneCall' /\ At' = "user"
      BY <1>1, <1>2 DEF Call, OneCall, At
    <2> QED
      BY <2>1 DEF Call, Asking, Searching, Taking, Claiming, Copying, Merging
  <1> QED
    BY <1>6, <1>8, <1>9, <1>10, <1>11 DEF IInv

(* The header of the part that is split off goes inside the free block. *)
LEMMA SplitStep ==
  ASSUME IInv, Split
  PROVE  IInv'
  <1>1. PICK B \in SUBSET Address : Blocks(B) /\ Owners(B) /\ Call(B)
    BY DEF IInv
  <1> DEFINE f == [frame[running] EXCEPT !.at = "take"]
             ask == frame[running].ask
             rest == P + 1 + ask
  <1>2. /\ TypeOK /\ DataKept /\ OneCall /\ At = "search" /\ Goto(f)
        /\ UNCHANGED <<held, want, running>>
        /\ Fits(P, ask) /\ Splits(P, ask)
        /\ mem' = SetHeader(mem, rest, mem[P].size - ask - 1, TRUE)
    BY <1>1 DEF IInv, Call, Split, Running, At, P
  <1>3. ask \in Request /\ ask \in Nat /\ frame[running].n = ask
    BY <1>1, <1>2, Constants DEF Call, Asking, Searching
  <1>4. P \in B /\ P \in Nat /\ mem[P].free /\ mem[P].size \in Nat /\ P + 1 + mem[P].size <= HEAP
    <2>1. P \in B \cup {HEAP} /\ P \in Address
      BY <1>1, <1>2 DEF Call, Searching, Fits, IsFree, IsHeader
    <2>2. P \in B
      BY <2>1, Constants
    <2> QED
      BY <1>1, <1>2, <2>2, BlockFacts DEF Fits, IsFree
  <1>5. ask + 1 <= mem[P].size
    <2>1. mem[P].size >= ask + 1 + MIN_SPLIT /\ MIN_SPLIT \in Nat
      BY <1>2, KHeapAssumption DEF Splits
    <2> QED
      BY <1>3, <1>4, <2>1
  <1>6. frame[running] \in FrameType
    BY <1>2 DEF TypeOK, FrameType
  <1>7. /\ f \in FrameType /\ f.at = "take" /\ f.p = P
        /\ f.ask = ask /\ f.n = ask
    BY <1>3, <1>6 DEF FrameType, Place, P
  <1> HIDE DEF f, ask
  <1>8. rest \in Address /\ rest # P /\ Within(rest, P) /\ mem[P].size - ask - 1 \in 0..HEAP
    BY <1>3, <1>4, <1>5, Constants DEF Within
  <1>9. /\ mem' \in [Address -> Word]
        /\ mem'[rest] = [size |-> mem[P].size - ask - 1, free |-> TRUE]
        /\ \A a \in Address : a # rest => mem'[a] = mem[a]
    <2>1. mem \in [Address -> Word]
      BY <1>2 DEF TypeOK
    <2> HIDE DEF rest
    <2> QED
      BY <1>2, <1>8, <2>1, SetHeaderTyped
  <1>10. frame' \in [Client -> FrameType] /\ frame'[running'] = f /\ At' = "take" /\ P' = P /\ OneCall'
    BY <1>2, <1>7, FrameStep
  <1>11. TypeOK'
    BY <1>2, <1>9, <1>10 DEF TypeOK, FrameType
  <1>12. \A a \in Address : mem'[a] # mem[a] => \E b \in {P} : a # b /\ Within(a, b)
    BY <1>8, <1>9
  <1>13. Blocks(B)' /\ \A b \in B : mem'[b] = mem[b]
    BY <1>1, <1>2, <1>4, <1>11, <1>12, InnerWrite, {P} \in SUBSET B
  <1>14. DataKept'
    <2> SUFFICES ASSUME NEW c \in Client, held[c] # NULL
                 PROVE  \A a \in held[c]..held[c] + want[c] - 1 : mem'[a] = c
      BY <1>2 DEF DataKept
    <2>1. held[c] - 1 \notin {P}
      BY <1>1, <1>2, <1>4, HeldFacts
    <2>2. \A a \in Address : mem'[a] # mem[a] => \E b \in {P} : Within(a, b)
      BY <1>12
    <2> QED
      BY <1>1, <1>2, <1>4, <2>1, <2>2, ForeignWrite, {P} \in SUBSET B
  <1>15. Owners(B)'
    <2>1. UsedAreClaimed(B)' /\ Distinct'
      BY <1>1, <1>2, <1>10, <1>13 DEF Owners, UsedAreClaimed, Claimed, Distinct
    <2>2. HeldAreUsed(B)'
      BY <1>1, <1>2, <1>13 DEF Owners, HeldAreUsed
    <2> QED
      BY <2>1, <2>2 DEF Owners
  <1>16. Asking'
    <2>1. held[running] # NULL => held[running] - 1 \in B /\ mem[held[running] - 1].size < ask
      BY <1>1, <1>2, HeldFacts DEF Call, Asking, ask, TypeOK
    <2> QED
      BY <1>2, <1>3, <1>7, <1>10, <1>13, <2>1 DEF Asking
  <1>17. Taking(B)'
    <2>1. ask \in 0..HEAP
      BY <1>3, <1>4, <1>5, Constants
    <2>2. P + 1 + ask = rest /\ ask <= ask
      BY <1>3
    <2> QED
      BY <1>4, <1>5, <1>7, <1>9, <1>10, <1>13, <2>1, <2>2 DEF Taking
  <1>18. Searching(B)' /\ Claiming(B)' /\ Copying' /\ Merging(B)'
    BY <1>10 DEF Searching, Claiming, Copying, Merging
  <1> QED
    BY <1>10, <1>11, <1>13, <1>14, <1>15, <1>16, <1>17, <1>18 DEF IInv, Call

-----------------------------------------------------------------------------
(* The blocks once the block found is marked as used: what is left over has *)
(* become one of them.                                                      *)
LEMMA TakenBlocks ==
  ASSUME TypeOK, TypeOK', NEW B \in SUBSET Address, Blocks(B), NEW p \in B, NEW n \in 0..HEAP,
         \/ n = mem[p].size
         \/ /\ n + 1 <= mem[p].size
            /\ mem[p + 1 + n] = [size |-> mem[p].size - n - 1, free |-> TRUE],
         mem'[p] = [size |-> n, free |-> FALSE],
         \A a \in Address : a # p /\ (~Within(a, p) \/ a > p + n) => mem'[a] = mem[a]
  PROVE  \E C \in SUBSET Address :
            /\ B \subseteq C
            /\ Blocks(C)'
            /\ \A b \in B \ {p} : mem'[b] = mem[b]
            /\ \A c \in C \ B : mem'[c].free
  <1> DEFINE rest == p + 1 + n
  <1>1. n \in Nat /\ n <= HEAP
    BY Constants
  <1>2. p \in Address /\ p \in Nat /\ mem[p].size \in Nat /\ p + 1 + mem[p].size <= HEAP
    BY <1>1, BlockFacts
  <1>3. \A b \in B \ {p} : mem'[b] = mem[b]
    <2> TAKE b \in B \ {p}
    <2>1. b \in Address /\ b \in Nat /\ Within(b, b)
      BY BlockFacts, HeaderWithin
    <2>2. ~Within(b, p)
      BY <1>1, <2>1, OneBlockPerWord
    <2> QED
      BY <2>1, <2>2
  <1>4. mem'[p].size = n /\ mem'[p] \in Header
    BY DEF Header
  <1>5. CASE n = mem[p].size
    <2>1. \A b \in B : mem'[b] \in Header /\ mem'[b].size = mem[b].size
      BY <1>3, <1>4, <1>5, BlockFacts
    <2>2. Blocks(B)'
      BY <2>1, SameBlocks
    <2> QED
      BY <1>3, <2>2
  <1>6. CASE n + 1 <= mem[p].size /\ mem[rest] = [size |-> mem[p].size - n - 1, free |-> TRUE]
    <2> DEFINE C == B \cup {rest}
    <2>1. rest \in Nat /\ rest < HEAP /\ rest \in Address /\ rest > p + n /\ rest = p + 1 + n
      BY <1>1, <1>2, <1>6, Constants
    <2> HIDE DEF rest
    <2>2. mem'[rest] = mem[rest]
      BY <1>1, <1>2, <2>1
    <2>3. /\ mem'[rest].size = mem[p].size - n - 1 /\ mem'[rest].free
          /\ mem'[rest] \in Header
      <3>1. mem[p].size - n - 1 \in 0..HEAP
        BY <1>1, <1>2, <1>6, Constants
      <3>2. [size |-> mem[p].size - n - 1, free |-> TRUE] \in Header
        BY <3>1 DEF Header
      <3> QED
        BY <1>6, <2>2, <3>2
    <2>4. \A c \in C : IsHeader(c)'
      <3>1. \A c \in C : c \in Address /\ mem'[c] \in Header
        BY <1>3, <1>4, <2>1, <2>3, BlockFacts
      <3> QED
        BY <3>1, KHeapAssumption DEF IsHeader, Header
    <2>5. Behind(p)' = rest /\ Behind(rest)' = Behind(p)
      <3>1. Behind(p)' = p + 1 + n /\ Behind(rest)' = rest + 1 + (mem[p].size - n - 1)
        BY <1>4, <2>3 DEF Behind
      <3>2. Behind(p) = p + 1 + mem[p].size
        BY DEF Behind
      <3> QED
        BY <1>1, <1>2, <2>1, <3>1, <3>2
    <2>6. \A b \in B \ {p} : Behind(b)' = Behind(b)
      BY <1>3 DEF Behind
    <2>7. \A c \in C : Behind(c)' \in C \cup {HEAP}
      BY <1>1, <2>5, <2>6, BlockFacts
    <2>8. ASSUME NEW b \in C, NEW c \in C
          PROVE  c <= b \/ c >= Behind(b)'
      <3>1. b \in Nat /\ c \in Nat /\ Behind(p) = p + 1 + mem[p].size
        BY <1>1, <2>1, BlockFacts
      <3>2. CASE b \in B /\ c \in B /\ b # p
        <4>1. c <= b \/ c >= Behind(b)
          BY <3>2 DEF Blocks, Tiling
        <4> QED
          BY <2>6, <3>2, <4>1
      <3>3. CASE b = p /\ c \in B
        <4>1. c <= p \/ c >= p + 1 + mem[p].size
          BY <1>1, <1>2, <3>1, <3>3, BlockFacts
        <4> QED
          BY <1>1, <1>2, <1>6, <2>1, <2>5, <3>1, <3>3, <4>1
      <3>4. CASE b \in B /\ b # p /\ c = rest
        <4>1. mem[b].size \in Nat /\ Behind(b) = b + 1 + mem[b].size
          BY <3>4, BlockFacts
        <4>2. p <= b \/ p >= b + 1 + mem[b].size
          BY <1>1, <1>2, <3>1, <3>4, BlockFacts
        <4>3. b <= p \/ b >= p + 1 + mem[p].size
          BY <1>1, <1>2, <3>1, <3>4, BlockFacts
        <4> QED
          BY <1>1, <1>2, <1>6, <2>1, <2>6, <3>1, <3>4, <4>1, <4>2, <4>3
      <3>5. CASE b = p /\ c = rest
        BY <2>1, <2>5, <3>5
      <3>6. CASE b = rest /\ c \in B
        <4>1. c <= p \/ c >= p + 1 + mem[p].size
          BY <1>1, <1>2, <3>1, <3>6, BlockFacts
        <4> QED
          BY <1>1, <1>2, <2>1, <2>5, <3>1, <3>6, <4>1
      <3>7. CASE b = rest /\ c = rest
        BY <3>1, <3>7
      <3> QED
        BY <3>2, <3>3, <3>4, <3>5, <3>6, <3>7
    <2>9. Blocks(C)'
      <3>1. 0 \in C /\ C \in SUBSET Address
        BY <2>1, BlockFacts
      <3> HIDE DEF C
      <3> QED
        BY <2>4, <2>7, <2>8, <3>1 DEF Blocks, Tiling
    <2> QED
      BY <1>3, <2>1, <2>3, <2>9
  <1> QED
    BY <1>5, <1>6

(* The block found becomes the caller's; or krealloc's, which has still to  *)
(* move the data over.                                                      *)
LEMMA TakeStep ==
  ASSUME IInv, Take
  PROVE  IInv'
  <1>1. PICK B \in SUBSET Address : Blocks(B) /\ Owners(B) /\ Call(B)
    BY DEF IInv
  <1>2. PICK p, n, ask : p = P /\ n = frame[running].n /\ ask = frame[running].ask
    OBVIOUS
  <1> DEFINE m == SetHeader(mem, p, n, FALSE)
  <1>3. TypeOK /\ DataKept /\ OneCall /\ At = "take" /\ running \in Client /\ running' = running
    BY <1>1 DEF IInv, Call, Take, Running, At, TypeOK
  <1>4. /\ p \in B /\ mem[p].free /\ n \in 0..HEAP /\ ask <= n
        /\ \/ n = mem[p].size
           \/ n + 1 <= mem[p].size /\ mem[p + 1 + n] = [size |-> mem[p].size - n - 1, free |-> TRUE]
    BY <1>1, <1>2, <1>3 DEF Call, Taking
  <1>5. ask \in Request /\ ask \in Nat /\ ask > 0 /\ n \in Nat
    BY <1>1, <1>2, <1>3, <1>4, Constants DEF Call, Asking
  <1>6. /\ p \in Nat /\ p \in Address /\ mem[p].size \in Nat /\ n <= mem[p].size
        /\ p + 1 + mem[p].size <= HEAP
    <2>1. p \in Nat /\ p \in Address /\ mem[p].size \in Nat /\ p + 1 + mem[p].size <= HEAP
      BY <1>1, <1>3, <1>4, BlockFacts
    <2> QED
      BY <1>4, <1>5, <2>1
  <1>7. /\ m \in [Address -> Word] /\ m[p] = [size |-> n, free |-> FALSE]
        /\ \A a \in Address : a # p => m[a] = mem[a]
    <2>1. mem \in [Address -> Word] /\ FALSE \in BOOLEAN
      BY <1>3 DEF TypeOK
    <2> QED
      BY <1>4, <1>6, <2>1, SetHeaderTyped
  <1> HIDE DEF m
  <1>8. \A c \in Client : held[c] # p + 1
    <2> SUFFICES ASSUME NEW c \in Client, held[c] = p + 1 PROVE FALSE
      OBVIOUS
    <2>1. held[c] # NULL /\ held[c] - 1 = p
      BY <1>6, KHeapAssumption
    <2> QED
      BY <1>1, <1>3, <1>4, <2>1, HeldFacts
  <1>9. CASE held[running] = NULL
    <2>1. /\ mem' = Fill(m, p + 1, ask, running)
          /\ held' = [held EXCEPT ![running] = p + 1]
          /\ want' = [want EXCEPT ![running] = ask]
          /\ Goto(UserFrame)
      BY <1>2, <1>9 DEF Take, m, P
    <2>2. UserFrame \in FrameType /\ UserFrame.at = "user"
      BY Constants DEF UserFrame, Frame, FrameType, Place
    <2>3. frame' \in [Client -> FrameType] /\ At' = "user" /\ OneCall'
      BY <1>3, <2>1, <2>2, FrameStep
    <2>4. p + 1 \in Address
      BY <1>4, <1>5, <1>6, Constants
    <2>5. mem' \in [Address -> Word]
      BY <1>3, <1>7, <2>1, FillTyped DEF Word
    <2>6. TypeOK'
      BY <1>3, <1>5, <2>1, <2>3, <2>4, <2>5 DEF TypeOK, FrameType
    <2>7. \A a \in Address : mem'[a] = IF a \in p + 1..p + 1 + ask - 1 THEN running ELSE m[a]
      BY <2>1 DEF Fill
    <2>8. mem'[p] = [size |-> n, free |-> FALSE]
      <3>1. p \notin p + 1..p + 1 + ask - 1
        BY <1>6
      <3> QED
        BY <1>6, <1>7, <2>7, <3>1
    <2>9. \A a \in Address : a # p /\ (~Within(a, p) \/ a > p + n) => mem'[a] = mem[a]
      <3> TAKE a \in Address
      <3>1. a \in p + 1..p + 1 + ask - 1 => Within(a, p) /\ a <= p + n
        BY <1>4, <1>5, <1>6, Constants DEF Within
      <3>2. a \in Nat
        BY Constants
      <3>3. ~(a <= p + n) <=> a > p + n
        BY <1>5, <1>6, <3>2
      <3> QED
        BY <1>7, <2>7, <3>1, <3>3
    <2>10. PICK C \in SUBSET Address :
            /\ B \subseteq C
            /\ Blocks(C)'
            /\ \A b \in B \ {p} : mem'[b] = mem[b]
            /\ \A c \in C \ B : mem'[c].free
      BY <1>1, <1>3, <1>4, <2>6, <2>8, <2>9, TakenBlocks
    <2>11. \A c \in Client : c # running => held'[c] = held[c] /\ want'[c] = want[c]
      BY <1>3, <2>1 DEF TypeOK
    <2>12. held'[running] = p + 1 /\ want'[running] = ask
      BY <1>3, <2>1 DEF TypeOK
    <2>13. UsedAreClaimed(C)'
      <3> SUFFICES ASSUME NEW c \in C, ~mem'[c].free
                   PROVE  \E d \in Client : held'[d] = c + 1
        BY DEF UsedAreClaimed
      <3>1. CASE c = p
        BY <1>3, <2>12, <3>1
      <3>2. CASE c # p
        <4>1. c \in B /\ ~mem[c].free
          BY <2>10, <3>2
        <4>2. PICK d \in Client : held[d] = c + 1
          BY <1>1, <1>3, <4>1 DEF Owners, UsedAreClaimed, Claimed
        <4>3. c + 1 \in Nat
          BY <1>1, <1>3, <4>1, BlockFacts
        <4>4. d # running
          BY <1>9, <4>2, <4>3, KHeapAssumption
        <4> QED
          BY <2>11, <4>2, <4>4
      <3> QED
        BY <3>1, <3>2
    <2>14. HeldAreUsed(C)'
      <3> SUFFICES ASSUME NEW c \in Client, held'[c] # NULL
                   PROVE  /\ held'[c] - 1 \in C
                          /\ ~mem'[held'[c] - 1].free
                          /\ want'[c] <= mem'[held'[c] - 1].size
        BY DEF HeldAreUsed
      <3>1. CASE c = running
        <4>1. held'[c] - 1 = p
          BY <1>6, <2>12, <3>1
        <4> QED
          BY <1>4, <2>8, <2>10, <2>12, <3>1, <4>1
      <3>2. CASE c # running
        <4>1. held[c] - 1 \in B /\ ~mem[held[c] - 1].free /\ want[c] <= mem[held[c] - 1].size
          BY <1>1, <1>3, <2>11, <3>2, HeldFacts
        <4>2. held[c] - 1 # p
          BY <1>4, <4>1
        <4> QED
          BY <2>10, <2>11, <3>2, <4>1, <4>2
      <3> QED
        BY <3>1, <3>2
    <2>15. Distinct'
      BY <1>1, <1>8, <2>11, <2>12 DEF Owners, Distinct
    <2>16. DataKept'
      <3> SUFFICES ASSUME NEW c \in Client, held'[c] # NULL,
                          NEW a \in held'[c]..held'[c] + want'[c] - 1
                   PROVE  mem'[a] = c
        BY DEF DataKept
      <3>1. CASE c = running
        <4>1. a \in p + 1..p + 1 + ask - 1
          BY <2>12, <3>1
        <4>2. a \in Address
          BY <1>4, <1>5, <1>6, <4>1, Constants
        <4> QED
          BY <2>7, <3>1, <4>1, <4>2
      <3>2. CASE c # running
        <4>1. held[c] # NULL /\ held[c] - 1 \notin {p} /\ a \in held[c]..held[c] + want[c] - 1
          BY <1>1, <1>3, <1>4, <2>11, <3>2, HeldFacts
        <4>2. \A x \in Address : mem'[x] # mem[x] => \E b \in {p} : Within(x, b)
          <5>1. Within(p, p)
            BY <1>1, <1>3, <1>4, HeaderWithin
          <5> QED
            BY <2>9, <5>1
        <4> QED
          BY <1>1, <1>3, <1>4, <4>1, <4>2, ForeignWrite, {p} \in SUBSET B
      <3> QED
        BY <3>1, <3>2
    <2>17. Asking' /\ Searching(C)' /\ Taking(C)' /\ Claiming(C)' /\ Copying' /\ Merging(C)'
      BY <2>3 DEF Asking, Searching, Taking, Claiming, Copying, Merging
    <2> QED
      BY <2>3, <2>6, <2>10, <2>13, <2>14, <2>15, <2>16, <2>17 DEF IInv, Owners, Call
  <1>10. CASE held[running] # NULL
    <2> DEFINE f == [frame[running] EXCEPT !.at = "copy"]
    <2>1. mem' = m /\ Goto(f) /\ UNCHANGED <<held, want>>
      BY <1>2, <1>10 DEF Take, m, P
    <2>2. f \in FrameType /\ f.at = "copy" /\ f.p = p /\ f.ask = ask
      BY <1>2, <1>3 DEF TypeOK, FrameType, Place, P
    <2> HIDE DEF f
    <2>3. frame' \in [Client -> FrameType] /\ frame'[running'] = f /\ At' = "copy" /\ P' = p /\ OneCall'
      BY <1>3, <2>1, <2>2, FrameStep
    <2>4. TypeOK'
      BY <1>3, <1>7, <2>1, <2>3 DEF TypeOK, FrameType
    <2>5. mem'[p] = [size |-> n, free |-> FALSE]
      BY <1>7, <2>1
    <2>6. \A a \in Address : a # p => mem'[a] = mem[a]
      BY <1>7, <2>1
    <2>7. PICK C \in SUBSET Address :
            /\ B \subseteq C
            /\ Blocks(C)'
            /\ \A b \in B \ {p} : mem'[b] = mem[b]
            /\ \A c \in C \ B : mem'[c].free
      BY <1>1, <1>3, <1>4, <2>4, <2>5, <2>6, TakenBlocks
    <2>8. UsedAreClaimed(C)'
      <3> SUFFICES ASSUME NEW c \in C, ~mem'[c].free, c # p
                   PROVE  \E d \in Client : held[d] = c + 1
        BY <2>1, <2>3 DEF UsedAreClaimed, Claimed
      <3>1. c \in B /\ ~mem[c].free
        BY <2>7
      <3> QED
        BY <1>1, <1>3, <3>1 DEF Owners, UsedAreClaimed, Claimed
    <2>9. HeldAreUsed(C)'
      <3> SUFFICES ASSUME NEW c \in Client, held[c] # NULL
                   PROVE  /\ held[c] - 1 \in C
                          /\ ~mem'[held[c] - 1].free
                          /\ want[c] <= mem'[held[c] - 1].size
        BY <2>1 DEF HeldAreUsed
      <3>1. held[c] - 1 \in B /\ ~mem[held[c] - 1].free /\ want[c] <= mem[held[c] - 1].size
        BY <1>1, <1>3, HeldFacts
      <3>2. held[c] - 1 # p
        BY <1>4, <3>1
      <3> QED
        BY <2>7, <3>1, <3>2
    <2>10. Distinct'
      BY <1>1, <2>1 DEF Owners, Distinct
    <2>11. DataKept'
      <3> SUFFICES ASSUME NEW c \in Client, held[c] # NULL
                   PROVE  \A a \in held[c]..held[c] + want[c] - 1 : mem'[a] = c
        BY <2>1 DEF DataKept
      <3>1. held[c] - 1 \notin {p}
        BY <1>1, <1>3, <1>4, HeldFacts
      <3>2. \A x \in Address : mem'[x] # mem[x] => \E b \in {p} : Within(x, b)
        BY <1>1, <1>3, <1>4, <2>6, HeaderWithin
      <3> QED
        BY <1>1, <1>3, <1>4, <3>1, <3>2, ForeignWrite, {p} \in SUBSET B
    <2>12. Asking'
      <3>1. held[running] - 1 \in B /\ ~mem[held[running] - 1].free /\ mem[held[running] - 1].size < ask
        BY <1>1, <1>2, <1>3, <1>10, HeldFacts DEF Call, Asking
      <3>2. held[running] - 1 # p
        BY <1>4, <3>1
      <3> QED
        BY <1>3, <1>5, <2>1, <2>2, <2>3, <2>7, <3>1, <3>2 DEF Asking
    <2>13. Claiming(C)'
      BY <1>4, <1>8, <2>1, <2>3, <2>5, <2>7 DEF Claiming
    <2>14. Copying'
      BY <1>3, <1>4, <1>10, <2>1, <2>2, <2>3, <2>5 DEF Copying
    <2>15. Searching(C)' /\ Taking(C)' /\ Merging(C)'
      BY <2>3 DEF Searching, Taking, Merging
    <2> QED
      BY <2>3, <2>4, <2>7, <2>8, <2>9, <2>10, <2>11, <2>12, <2>13, <2>14, <2>15 DEF IInv, Owners, Call
  <1> QED
    BY <1>9, <1>10

(* krealloc moves the data into the new block and turns to the old one. *)
LEMMA CopyStep ==
  ASSUME IInv, Copy
  PROVE  IInv'
  <1>1. PICK B \in SUBSET Address : Blocks(B) /\ Owners(B) /\ Call(B)
    BY DEF IInv
  <1>2. PICK p, ask, old, used, size :
          /\ p = P /\ ask = frame[running].ask
          /\ old = held[running] /\ used = want[running] /\ size = mem[old - 1].size
    OBVIOUS
  <1> DEFINE m1 == memcpy(old, p + 1, size)
             m2 == Fill(m1, old, used, JUNK)
             f  == Frame("mark_free", old - 1, 0, 0)
  <1>3. /\ TypeOK /\ DataKept /\ OneCall /\ At = "copy" /\ running \in Client /\ running' = running
        /\ mem' = Fill(m2, p + 1 + used, ask - used, running)
        /\ held' = [held EXCEPT ![running] = p + 1]
        /\ want' = [want EXCEPT ![running] = ask]
        /\ Goto(f)
    BY <1>1, <1>2 DEF IInv, Call, Copy, Running, At, P, TypeOK
  <1>4. /\ p \in B /\ ~mem[p].free /\ \A c \in Client : held[c] # p + 1
        /\ held[running] # NULL /\ ask <= mem[p].size
        /\ ask \in Request /\ size < ask
    BY <1>1, <1>2, <1>3 DEF Call, Claiming, Copying, Asking
  <1>5. ask \in Nat /\ ask > 0
    BY <1>4, Constants
  <1>6. /\ p \in Nat /\ mem[p].size \in Nat /\ p + 1 + mem[p].size <= HEAP
        /\ p \in Address
    BY <1>1, <1>3, <1>4, BlockFacts
  <1>7. /\ old \in Nat /\ old > 0 /\ old - 1 \in B /\ ~mem[old - 1].free
        /\ size \in Nat /\ used \in Nat /\ used <= size /\ old + size <= HEAP
    BY <1>1, <1>2, <1>3, <1>4, HeldFacts
  <1>8. old - 1 # p
    BY <1>2, <1>3, <1>4, <1>6, <1>7
  <1>9. \A a \in Address : m1[a] = IF a \in p + 1..p + 1 + size - 1 THEN mem[old + (a - (p + 1))] ELSE mem[a]
    BY DEF memcpy
  <1>10. m1 \in [Address -> Word]
    <2>1. mem \in [Address -> Word]
      BY <1>3 DEF TypeOK
    <2>2. ASSUME NEW a \in Address, a \in p + 1..p + 1 + size - 1
          PROVE  old + (a - (p + 1)) \in Address
      <3>1. a \in Nat
        BY Constants
      <3>2. old + (a - (p + 1)) \in Nat /\ old + (a - (p + 1)) < old + size
        BY <1>6, <1>7, <2>2, <3>1
      <3> QED
        BY <1>7, <3>2, Constants
    <2> QED
      BY <2>1, <2>2 DEF memcpy
  <1>11. \A a \in Address : m2[a] = IF a \in old..old + used - 1 THEN JUNK ELSE m1[a]
    BY DEF Fill
  <1> HIDE DEF m1
  <1>12. m2 \in [Address -> Word]
    BY <1>10, FillTyped DEF Word
  <1> HIDE DEF m2
  <1>13. \A a \in Address : mem'[a] = IF a \in p + 1 + used..p + 1 + used + (ask - used) - 1
                                     THEN running ELSE m2[a]
    BY <1>3 DEF Fill
  <1>14. mem' \in [Address -> Word]
    BY <1>3, <1>12, FillTyped DEF Word
  <1>15. f \in FrameType /\ f.at = "mark_free" /\ f.p = old - 1
    <2>1. old - 1 \in 0..HEAP
      BY <1>7, Constants
    <2> QED
      BY <2>1, Constants DEF Frame, FrameType, Place
  <1> HIDE DEF f
  <1>16. frame' \in [Client -> FrameType] /\ At' = "mark_free" /\ P' = old - 1 /\ OneCall'
    BY <1>3, <1>15, FrameStep
  <1>17. TypeOK'
    <2>1. p + 1 \in Address
      BY <1>4, <1>5, <1>6, Constants
    <2> QED
      BY <1>3, <1>4, <1>14, <1>16, <2>1 DEF TypeOK, FrameType
  <1>18. ASSUME NEW a \in Address, mem'[a] # mem[a]
         PROVE  \E b \in {p, old - 1} : a # b /\ Within(a, b)
    <2>1. \/ a \in p + 1 + used..p + 1 + used + (ask - used) - 1
          \/ a \in old..old + used - 1
          \/ a \in p + 1..p + 1 + size - 1
      BY <1>9, <1>11, <1>13, <1>18
    <2>2. a \in Nat
      BY Constants
    <2>3. CASE a \in old..old + used - 1
      <3>1. a # old - 1 /\ old - 1 <= a /\ a < (old - 1) + 1 + size
        BY <1>7, <2>2, <2>3
      <3> QED
        BY <1>2, <3>1 DEF Within
    <2>4. CASE a \notin old..old + used - 1
      <3>1. a # p /\ p <= a /\ a < p + 1 + mem[p].size
        BY <1>4, <1>5, <1>6, <1>7, <2>1, <2>2, <2>4
      <3> QED
        BY <3>1 DEF Within
    <2> QED
      BY <2>3, <2>4
  <1>19. Blocks(B)' /\ \A b \in B : mem'[b] = mem[b]
    BY <1>1, <1>3, <1>4, <1>7, <1>17, <1>18, InnerWrite, {p, old - 1} \in SUBSET B
  <1>20. /\ held'[running] = p + 1 /\ want'[running] = ask
         /\ \A c \in Client : c # running => held'[c] = held[c] /\ want'[c] = want[c]
    BY <1>3 DEF TypeOK
  <1>21. \A c \in Client : c # running /\ held[c] # NULL => held[c] - 1 \notin {p, old - 1}
    <2> SUFFICES ASSUME NEW c \in Client, c # running, held[c] # NULL
                 PROVE  held[c] - 1 # p /\ held[c] - 1 # old - 1
      OBVIOUS
    <2>1. held[c] \in Nat /\ held[c] # p + 1
      BY <1>1, <1>3, <1>4, HeldFacts
    <2>2. held[c] # old
      BY <1>1, <1>2, <1>3 DEF Owners, Distinct
    <2> QED
      BY <1>6, <1>7, <2>1, <2>2
  <1>22. DataKept'
    <2> SUFFICES ASSUME NEW c \in Client, held'[c] # NULL,
                        NEW a \in held'[c]..held'[c] + want'[c] - 1
                 PROVE  mem'[a] = c
      BY DEF DataKept
    <2>1. CASE c = running
      <3>1. a \in p + 1..p + 1 + ask - 1 /\ a \in Nat
        BY <1>6, <1>20, <2>1
      <3>2. a \in Address /\ Within(a, p)
        BY <1>4, <1>5, <1>6, <3>1, Constants DEF Within
      <3>3. CASE a \in p + 1 + used..p + 1 + used + (ask - used) - 1
        BY <1>13, <2>1, <3>2, <3>3
      <3>4. CASE a \notin p + 1 + used..p + 1 + used + (ask - used) - 1
        <4>1. a \in p + 1..p + 1 + size - 1 /\ old + (a - (p + 1)) \in old..old + used - 1
          BY <1>5, <1>6, <1>7, <3>1, <3>4
        <4>2. a \notin old..old + used - 1
          <5>1. ~Within(a, old - 1)
            BY <1>1, <1>3, <1>4, <1>7, <1>8, <3>1, <3>2, OneBlockPerWord
          <5> QED
            BY <1>1, <1>2, <1>3, <1>4, <5>1, DataWithin
        <4>3. mem'[a] = mem[old + (a - (p + 1))]
          BY <1>9, <1>11, <1>13, <3>2, <3>4, <4>1, <4>2
        <4> QED
          BY <1>2, <1>3, <1>4, <2>1, <4>1, <4>3 DEF DataKept
      <3> QED
        BY <3>3, <3>4
    <2>2. CASE c # running
      <3>1. held[c] # NULL /\ a \in held[c]..held[c] + want[c] - 1
        BY <1>20, <2>2
      <3>2. \A x \in Address : mem'[x] # mem[x] => \E b \in {p, old - 1} : Within(x, b)
        BY <1>18
      <3>3. {p, old - 1} \in SUBSET B
        BY <1>4, <1>7
      <3> QED
        BY <1>1, <1>3, <1>21, <2>2, <3>1, <3>2, <3>3, ForeignWrite
    <2> QED
      BY <2>1, <2>2
  <1>23. UsedAreClaimed(B)'
    <2> SUFFICES ASSUME NEW b \in B, ~mem[b].free, b # old - 1
                 PROVE  \E c \in Client : held'[c] = b + 1
      BY <1>16, <1>19 DEF UsedAreClaimed, Claimed
    <2>1. CASE b = p
      BY <1>3, <1>20, <2>1
    <2>2. CASE b # p
      <3>1. PICK c \in Client : held[c] = b + 1
        BY <1>1, <1>2, <2>2 DEF Owners, UsedAreClaimed, Claimed
      <3>2. c # running
        <4>1. b \in Nat
          BY <1>1, <1>3, BlockFacts
        <4> QED
          BY <1>2, <3>1, <4>1
      <3> QED
        BY <1>20, <3>1, <3>2
    <2> QED
      BY <2>1, <2>2
  <1>24. HeldAreUsed(B)'
    <2> SUFFICES ASSUME NEW c \in Client, held'[c] # NULL
                 PROVE  /\ held'[c] - 1 \in B
                        /\ ~mem'[held'[c] - 1].free
                        /\ want'[c] <= mem'[held'[c] - 1].size
      BY DEF HeldAreUsed
    <2>1. CASE c = running
      <3>1. held'[c] - 1 = p
        BY <1>6, <1>20, <2>1
      <3> QED
        BY <1>4, <1>19, <1>20, <2>1, <3>1
    <2>2. CASE c # running
      <3>1. held[c] - 1 \in B /\ ~mem[held[c] - 1].free /\ want[c] <= mem[held[c] - 1].size
        BY <1>1, <1>3, <1>20, <2>2, HeldFacts
      <3> QED
        BY <1>19, <1>20, <2>2, <3>1
    <2> QED
      BY <2>1, <2>2
  <1>25. Distinct'
    BY <1>1, <1>4, <1>20 DEF Owners, Distinct
  <1>26. Claiming(B)'
    <2>1. \A c \in Client : held'[c] # old - 1 + 1
      <3> TAKE c \in Client
      <3>1. CASE c = running
        BY <1>6, <1>7, <1>8, <1>20, <3>1
      <3>2. CASE c # running
        <4>1. held[c] # old
          BY <1>1, <1>2, <1>3, <1>4, <3>2 DEF Owners, Distinct
        <4> QED
          BY <1>7, <1>20, <3>2, <4>1
      <3> QED
        BY <3>1, <3>2
    <2> QED
      BY <1>7, <1>16, <1>19, <2>1 DEF Claiming
  <1>27. Asking' /\ Searching(B)' /\ Taking(B)' /\ Copying' /\ Merging(B)'
    BY <1>16 DEF Asking, Searching, Taking, Copying, Merging
  <1> QED
    BY <1>16, <1>17, <1>19, <1>22, <1>23, <1>24, <1>25, <1>26, <1>27 DEF IInv, Owners, Call

-----------------------------------------------------------------------------
(* The caller of kfree has no use for its block any more. *)
LEMMA KfreeStep ==
  ASSUME IInv, kfree
  PROVE  IInv'
  <1>1. PICK B \in SUBSET Address : Blocks(B) /\ Owners(B) /\ Call(B)
    BY DEF IInv
  <1>2. PICK h, used : h = held[running] /\ used = want[running]
    OBVIOUS
  <1> DEFINE f == Frame("mark_free", h - 1, 0, 0)
  <1>3. /\ TypeOK /\ DataKept /\ OneCall /\ At = "user" /\ running \in Client /\ running' = running
        /\ h # NULL
        /\ mem' = Fill(mem, h, used, JUNK)
        /\ held' = [held EXCEPT ![running] = NULL]
        /\ want' = [want EXCEPT ![running] = 0]
        /\ Goto(f)
    BY <1>1, <1>2 DEF IInv, Call, kfree, Running, At, TypeOK
  <1>4. /\ h \in Nat /\ h > 0 /\ h - 1 \in B /\ ~mem[h - 1].free
        /\ used \in Nat /\ mem[h - 1].size \in Nat /\ used <= mem[h - 1].size
        /\ h + mem[h - 1].size <= HEAP
    BY <1>1, <1>2, <1>3, HeldFacts
  <1>5. f \in FrameType /\ f.at = "mark_free" /\ f.p = h - 1
    <2>1. h - 1 \in 0..HEAP
      BY <1>4, Constants
    <2> QED
      BY <2>1, Constants DEF Frame, FrameType, Place
  <1> HIDE DEF f
  <1>6. frame' \in [Client -> FrameType] /\ At' = "mark_free" /\ P' = h - 1 /\ OneCall'
    BY <1>3, <1>5, FrameStep
  <1>7. mem' \in [Address -> Word]
    BY <1>3, FillTyped DEF TypeOK, Word
  <1>8. TypeOK'
    BY <1>3, <1>6, <1>7 DEF TypeOK, FrameType
  <1>9. ASSUME NEW a \in Address, mem'[a] # mem[a]
        PROVE  a # h - 1 /\ Within(a, h - 1)
    <2>1. a \in h..h + used - 1 /\ a \in Nat
      BY <1>3, <1>9, Constants DEF Fill
    <2> QED
      BY <1>4, <2>1 DEF Within
  <1>10. {h - 1} \in SUBSET B
    BY <1>4
  <1>11. Blocks(B)' /\ \A b \in B : mem'[b] = mem[b]
    BY <1>1, <1>3, <1>8, <1>9, <1>10, InnerWrite
  <1>12. /\ held'[running] = NULL
         /\ \A c \in Client : c # running => held'[c] = held[c] /\ want'[c] = want[c]
    BY <1>3 DEF TypeOK
  <1>13. \A c \in Client : c # running => held[c] # h
    BY <1>1, <1>2, <1>3 DEF Owners, Distinct
  <1>14. DataKept'
    <2> SUFFICES ASSUME NEW c \in Client, c # running, held[c] # NULL
                 PROVE  \A a \in held[c]..held[c] + want[c] - 1 : mem'[a] = c
      BY <1>12 DEF DataKept
    <2>1. held[c] \in Nat
      BY <1>1, <1>3, HeldFacts
    <2>2. held[c] - 1 \notin {h - 1}
      BY <1>4, <1>13, <2>1
    <2> QED
      BY <1>1, <1>3, <1>9, <1>10, <2>2, ForeignWrite
  <1>15. UsedAreClaimed(B)'
    <2> SUFFICES ASSUME NEW b \in B, ~mem[b].free, b # h - 1
                 PROVE  \E c \in Client : held'[c] = b + 1
      BY <1>6, <1>11 DEF UsedAreClaimed, Claimed
    <2>1. PICK c \in Client : held[c] = b + 1
      BY <1>1, <1>3 DEF Owners, UsedAreClaimed, Claimed
    <2>2. c # running
      <3>1. b \in Nat
        BY <1>1, <1>3, BlockFacts
      <3> QED
        BY <1>2, <2>1, <3>1
    <2> QED
      BY <1>12, <2>1, <2>2
  <1>16. HeldAreUsed(B)'
    <2> SUFFICES ASSUME NEW c \in Client, c # running, held[c] # NULL
                 PROVE  /\ held[c] - 1 \in B
                        /\ ~mem'[held[c] - 1].free
                        /\ want[c] <= mem'[held[c] - 1].size
      BY <1>12 DEF HeldAreUsed
    <2>1. held[c] - 1 \in B /\ ~mem[held[c] - 1].free /\ want[c] <= mem[held[c] - 1].size
      BY <1>1, <1>3, HeldFacts
    <2> QED
      BY <1>11, <2>1
  <1>17. Distinct'
    BY <1>1, <1>12 DEF Owners, Distinct
  <1>18. Claiming(B)'
    <2>1. \A c \in Client : held'[c] # h - 1 + 1
      BY <1>3, <1>4, <1>12, <1>13
    <2> QED
      BY <1>4, <1>6, <1>11, <2>1 DEF Claiming
  <1>19. Asking' /\ Searching(B)' /\ Taking(B)' /\ Copying' /\ Merging(B)'
    BY <1>6 DEF Asking, Searching, Taking, Copying, Merging
  <1> QED
    BY <1>6, <1>8, <1>11, <1>14, <1>15, <1>16, <1>17, <1>18, <1>19 DEF IInv, Owners, Call

(* The claimed block is marked as free. *)
LEMMA MarkFreeStep ==
  ASSUME IInv, MarkFree
  PROVE  IInv'
  <1>1. PICK B \in SUBSET Address : Blocks(B) /\ Owners(B) /\ Call(B)
    BY DEF IInv
  <1>2. PICK p : p = P
    OBVIOUS
  <1> DEFINE f == [frame[running] EXCEPT !.at = "look_behind"]
  <1>3. /\ TypeOK /\ DataKept /\ OneCall /\ At = "mark_free" /\ Goto(f)
        /\ mem' = SetHeader(mem, p, mem[p].size, TRUE)
        /\ UNCHANGED <<held, want, running>>
    BY <1>1, <1>2 DEF IInv, Call, MarkFree, Running, At, P
  <1>4. p \in B /\ ~mem[p].free /\ \A c \in Client : held[c] # p + 1
    BY <1>1, <1>2, <1>3 DEF Call, Claiming
  <1>5. p \in Address /\ p \in Nat /\ mem[p].size \in 0..HEAP
    <2>1. p \in Address /\ p \in Nat /\ mem[p].size \in Nat /\ p + 1 + mem[p].size <= HEAP
      BY <1>1, <1>3, <1>4, BlockFacts
    <2> QED
      BY <2>1, Constants
  <1>6. f \in FrameType /\ f.at = "look_behind" /\ f.p = p
    BY <1>2, <1>3 DEF TypeOK, FrameType, Place, P
  <1> HIDE DEF f
  <1>7. frame' \in [Client -> FrameType] /\ At' = "look_behind" /\ P' = p /\ OneCall'
    BY <1>3, <1>6, FrameStep
  <1>8. /\ mem' \in [Address -> Word]
        /\ mem'[p] = [size |-> mem[p].size, free |-> TRUE]
        /\ \A a \in Address : a # p => mem'[a] = mem[a]
    <2>1. mem \in [Address -> Word] /\ TRUE \in BOOLEAN
      BY <1>3 DEF TypeOK
    <2> QED
      BY <1>3, <1>5, <2>1, SetHeaderTyped
  <1>9. TypeOK'
    BY <1>3, <1>7, <1>8 DEF TypeOK, FrameType
  <1>10. Blocks(B)'
    <2>1. \A b \in B : mem'[b] \in Header /\ mem'[b].size = mem[b].size
      <3>1. mem'[p] \in Header /\ mem'[p].size = mem[p].size
        BY <1>5, <1>8 DEF Header
      <3>2. \A b \in B : b \in Address /\ mem[b] \in Header
        BY <1>1, <1>3, BlockFacts
      <3> QED
        BY <1>8, <3>1, <3>2
    <2> QED
      BY <1>1, <1>3, <1>9, <2>1, SameBlocks
  <1>11. \A c \in Client : held[c] # NULL => held[c] - 1 \in B /\ held[c] - 1 \in Address /\ held[c] - 1 # p
    <2> SUFFICES ASSUME NEW c \in Client, held[c] # NULL
                 PROVE  held[c] - 1 \in B /\ held[c] - 1 # p
      OBVIOUS
    <2>1. held[c] \in Nat /\ held[c] - 1 \in B
      BY <1>1, <1>3, HeldFacts
    <2>2. held[c] # p + 1
      BY <1>4
    <2> QED
      BY <1>5, <2>1, <2>2
  <1>12. DataKept'
    <2> SUFFICES ASSUME NEW c \in Client, held[c] # NULL
                 PROVE  \A a \in held[c]..held[c] + want[c] - 1 : mem'[a] = c
      BY <1>3 DEF DataKept
    <2>1. \A x \in Address : mem'[x] # mem[x] => \E b \in {p} : Within(x, b)
      BY <1>1, <1>3, <1>4, <1>8, HeaderWithin
    <2>2. {p} \in SUBSET B /\ held[c] - 1 \notin {p}
      BY <1>4, <1>11
    <2> QED
      BY <1>1, <1>3, <2>1, <2>2, ForeignWrite
  <1>13. UsedAreClaimed(B)'
    <2> SUFFICES ASSUME NEW b \in B, ~mem'[b].free
                 PROVE  \E c \in Client : held[c] = b + 1
      BY <1>3 DEF UsedAreClaimed
    <2>1. b # p /\ ~mem[b].free
      BY <1>8, b \in Address
    <2> QED
      BY <1>1, <1>2, <2>1 DEF Owners, UsedAreClaimed, Claimed
  <1>14. HeldAreUsed(B)'
    <2> SUFFICES ASSUME NEW c \in Client, held[c] # NULL
                 PROVE  /\ held[c] - 1 \in B
                        /\ ~mem'[held[c] - 1].free
                        /\ want[c] <= mem'[held[c] - 1].size
      BY <1>3 DEF HeldAreUsed
    <2>1. held[c] - 1 \in B /\ ~mem[held[c] - 1].free /\ want[c] <= mem[held[c] - 1].size
      BY <1>1, <1>3, HeldFacts
    <2> QED
      BY <1>8, <1>11, <2>1
  <1>15. Distinct'
    BY <1>1, <1>3 DEF Owners, Distinct
  <1>16. Merging(B)'
    BY <1>4, <1>7, <1>8 DEF Merging
  <1>17. Asking' /\ Searching(B)' /\ Taking(B)' /\ Claiming(B)' /\ Copying'
    BY <1>7 DEF Asking, Searching, Taking, Claiming, Copying
  <1> QED
    BY <1>7, <1>9, <1>10, <1>12, <1>13, <1>14, <1>15, <1>16, <1>17 DEF IInv, Owners, Call

(* The freed block takes in the one behind it, which is a block no more. *)
LEMMA MergeStep ==
  ASSUME IInv, Merge
  PROVE  IInv'
  <1>1. PICK B \in SUBSET Address : Blocks(B) /\ Owners(B) /\ Call(B)
    BY DEF IInv
  <1>2. PICK p, q, n : p = P /\ q = Behind(P) /\ n = frame[running].n
    OBVIOUS
  <1>3. /\ TypeOK /\ DataKept /\ OneCall /\ At = "merge" /\ Goto(UserFrame)
        /\ mem' = SetHeader(mem, p, n, TRUE)
        /\ UNCHANGED <<held, want, running>>
    BY <1>1, <1>2 DEF IInv, Call, Merge, Running, At, P
  <1>4. /\ p \in B /\ mem[p].free /\ q \in B /\ mem[q].free
        /\ n = mem[p].size + 1 + mem[q].size /\ q = Behind(p)
    BY <1>1, <1>2, <1>3 DEF Call, Merging
  <1>5. /\ p \in Nat /\ p \in Address /\ q \in Nat /\ mem[p].size \in Nat /\ mem[q].size \in Nat
        /\ q = p + 1 + mem[p].size /\ q + 1 + mem[q].size <= HEAP
        /\ Behind(q) = q + 1 + mem[q].size
    BY <1>1, <1>3, <1>4, BlockFacts
  <1>6. n \in 0..HEAP /\ n \in Nat /\ p # q /\ Behind(q) = p + 1 + n
    BY <1>4, <1>5, Constants
  <1>7. UserFrame \in FrameType /\ UserFrame.at = "user"
    BY Constants DEF UserFrame, Frame, FrameType, Place
  <1>8. frame' \in [Client -> FrameType] /\ At' = "user" /\ OneCall'
    BY <1>3, <1>7, FrameStep
  <1>9. /\ mem' \in [Address -> Word]
        /\ mem'[p] = [size |-> n, free |-> TRUE]
        /\ \A a \in Address : a # p => mem'[a] = mem[a]
    <2>1. mem \in [Address -> Word] /\ TRUE \in BOOLEAN
      BY <1>3 DEF TypeOK
    <2> QED
      BY <1>3, <1>5, <1>6, <2>1, SetHeaderTyped
  <1>10. TypeOK'
    BY <1>3, <1>8, <1>9 DEF TypeOK, FrameType
  <1> DEFINE C == B \ {q}
  <1>11. Blocks(C)'
    <2>1. \A c \in C : IsHeader(c)'
      <3>1. \A c \in C : c \in Address /\ mem'[c] \in Header
        <4>1. mem'[p] \in Header
          BY <1>6, <1>9 DEF Header
        <4>2. \A b \in B : b \in Address /\ mem[b] \in Header
          BY <1>1, <1>3, BlockFacts
        <4> QED
          BY <1>9, <4>1, <4>2
      <3> QED
        BY <3>1, KHeapAssumption DEF IsHeader, Header
    <2>2. Behind(p)' = Behind(q)
      BY <1>6, <1>9 DEF Behind
    <2>3. \A b \in C \ {p} : Behind(b)' = Behind(b) /\ Behind(b) # q
      <3> TAKE b \in C \ {p}
      <3>1. b \in Nat /\ mem[b].size \in Nat /\ Behind(b) = b + 1 + mem[b].size
        BY <1>1, <1>3, BlockFacts
      <3>2. p <= b \/ p >= b + 1 + mem[b].size
        BY <1>1, <1>3, <1>4, <3>1 DEF Blocks, Tiling
      <3>3. b <= p \/ b >= p + 1 + mem[p].size
        BY <1>1, <1>3, <1>4, <1>5 DEF Blocks, Tiling
      <3>4. Behind(b)' = Behind(b)
        BY <1>9, b \in Address DEF Behind
      <3> QED
        BY <1>5, <3>1, <3>2, <3>3, <3>4
    <2>4. Behind(q) \in B \cup {HEAP} /\ Behind(q) # q
      BY <1>1, <1>3, <1>4, <1>5, BlockFacts
    <2>5. \A c \in C : Behind(c)' \in C \cup {HEAP}
      BY <1>1, <1>3, <2>2, <2>3, <2>4, BlockFacts
    <2>6. ASSUME NEW b \in C, NEW c \in C
          PROVE  c <= b \/ c >= Behind(b)'
      <3>1. CASE b = p
        <4>1. c \in Nat /\ (c <= p \/ c >= q)
          BY <1>1, <1>3, <1>4, BlockFacts DEF Blocks, Tiling
        <4>2. c <= q \/ c >= Behind(q)
          BY <1>1, <1>4 DEF Blocks, Tiling
        <4> QED
          BY <1>5, <2>2, <3>1, <4>1, <4>2, c # q
      <3>2. CASE b # p
        <4>1. c <= b \/ c >= Behind(b)
          BY <1>1 DEF Blocks, Tiling
        <4> QED
          BY <2>3, <3>2, <4>1
      <3> QED
        BY <3>1, <3>2
    <2>7. 0 \in C
      BY <1>1, <1>3, <1>5, BlockFacts
    <2> HIDE DEF C
    <2>8. C \in SUBSET Address
      BY DEF C
    <2> QED
      BY <2>1, <2>5, <2>6, <2>7, <2>8 DEF Blocks, Tiling
  <1>12. \A c \in Client : held[c] # NULL =>
            held[c] - 1 \in C /\ held[c] - 1 \in Address /\ held[c] - 1 # p
    BY <1>1, <1>3, <1>4, HeldFacts
  <1>13. DataKept'
    <2> SUFFICES ASSUME NEW c \in Client, held[c] # NULL
                 PROVE  \A a \in held[c]..held[c] + want[c] - 1 : mem'[a] = c
      BY <1>3 DEF DataKept
    <2>1. \A x \in Address : mem'[x] # mem[x] => \E b \in {p} : Within(x, b)
      BY <1>1, <1>3, <1>4, <1>9, HeaderWithin
    <2>2. {p} \in SUBSET B /\ held[c] - 1 \notin {p}
      BY <1>4, <1>12
    <2> QED
      BY <1>1, <1>3, <2>1, <2>2, ForeignWrite
  <1>14. UsedAreClaimed(C)'
    <2> SUFFICES ASSUME NEW b \in C, ~mem'[b].free
                 PROVE  \E c \in Client : held[c] = b + 1
      BY <1>3 DEF UsedAreClaimed
    <2>1. b # p /\ ~mem[b].free
      BY <1>9, b \in Address
    <2> QED
      BY <1>1, <1>3, <2>1 DEF Owners, UsedAreClaimed, Claimed
  <1>15. HeldAreUsed(C)'
    <2> SUFFICES ASSUME NEW c \in Client, held[c] # NULL
                 PROVE  /\ held[c] - 1 \in C
                        /\ ~mem'[held[c] - 1].free
                        /\ want[c] <= mem'[held[c] - 1].size
      BY <1>3 DEF HeldAreUsed
    <2>1. ~mem[held[c] - 1].free /\ want[c] <= mem[held[c] - 1].size
      BY <1>1, <1>3, HeldFacts
    <2> QED
      BY <1>9, <1>12, <2>1
  <1>16. Distinct'
    BY <1>1, <1>3 DEF Owners, Distinct
  <1>17. Asking' /\ Searching(C)' /\ Taking(C)' /\ Claiming(C)' /\ Copying' /\ Merging(C)'
    BY <1>8 DEF Asking, Searching, Taking, Claiming, Copying, Merging
  <1> HIDE DEF C
  <1>18. C \in SUBSET Address
    BY DEF C
  <1> QED
    BY <1>8, <1>10, <1>11, <1>13, <1>14, <1>15, <1>16, <1>17, <1>18 DEF IInv, Owners, Call

(* The tick: no task is in a call, so it does not matter which one goes on. *)
LEMMA TickStep ==
  ASSUME InterruptInCall = FALSE, IInv, Tick
  PROVE  IInv'
  <1>1. PICK B \in SUBSET Address : Blocks(B) /\ Owners(B) /\ Call(B)
    BY DEF IInv
  <1>2. /\ TypeOK /\ DataKept /\ OneCall /\ running \in Client /\ running' \in Client
        /\ frame[running].at = "user" /\ UNCHANGED <<mem, held, want, frame>>
    BY <1>1 DEF IInv, Call, Tick, Running, TypeOK
  <1>3. \A c \in Client : frame'[c].at = "user"
    BY <1>2 DEF OneCall
  <1>4. TypeOK' /\ DataKept'
    BY <1>2 DEF TypeOK, DataKept
  <1>5. Blocks(B)'
    BY <1>1, <1>2 DEF Blocks, Tiling, IsHeader, Behind
  <1>6. OneCall' /\ At' = "user"
    BY <1>2, <1>3 DEF OneCall, At
  <1>7. UsedAreClaimed(B)'
    BY <1>1, <1>2 DEF Owners, UsedAreClaimed, Claimed, At
  <1>8. HeldAreUsed(B)' /\ Distinct'
    BY <1>1, <1>2 DEF Owners, HeldAreUsed, Distinct
  <1>9. Asking' /\ Searching(B)' /\ Taking(B)' /\ Claiming(B)' /\ Copying' /\ Merging(B)'
    BY <1>6 DEF Asking, Searching, Taking, Claiming, Copying, Merging
  <1> QED
    BY <1>4, <1>5, <1>6, <1>7, <1>8, <1>9 DEF IInv, Owners, Call

(* krealloc of a block that is too small begins a search, as kmalloc does. *)
LEMMA KreallocStep ==
  ASSUME IInv, NEW n \in Request, krealloc(n)
  PROVE  IInv'
  <1>1. running \in Client /\ held[running] # NULL /\ TypeOK
    BY DEF IInv, TypeOK, krealloc
  <1>2. mem[held[running] - 1].size \in Nat /\ n \in Nat
    BY <1>1, HeldFacts, Constants DEF IInv
  <1>3. CASE n <= mem[held[running] - 1].size
    BY <1>3, ReallocInPlace
  <1>4. CASE ~(n <= mem[held[running] - 1].size)
    <2>1. mem[held[running] - 1].size < n
      BY <1>2, <1>4
    <2> QED
      BY <1>4, <2>1, BeginSearch DEF krealloc
  <1> QED
    BY <1>3, <1>4

LEMMA StepIInv ==
  ASSUME InterruptInCall = FALSE, IInv, [Next]_vars
  PROVE  IInv'
  <1>1. ASSUME NEW n \in Request, kmalloc(n) PROVE IInv'
    BY <1>1, BeginSearch DEF kmalloc
  <1>2. ASSUME NoBlock PROVE IInv'
    BY <1>2, BackToUser DEF NoBlock, Running, At
  <1>3. CASE UNCHANGED vars
    <2>1. PICK B \in SUBSET Address : Blocks(B) /\ Owners(B) /\ Call(B)
      BY DEF IInv
    <2>2. Blocks(B)'
      BY <1>3, <2>1 DEF vars, Blocks, Tiling, IsHeader, Behind
    <2>3. Owners(B)'
      BY <1>3, <2>1 DEF vars, Owners, UsedAreClaimed, Claimed, HeldAreUsed, Distinct, At, P
    <2>4. OneCall' /\ Asking' /\ Taking(B)' /\ Claiming(B)' /\ Copying'
      BY <1>3, <2>1 DEF vars, Call, OneCall, Asking, Taking, Claiming, Copying, At, P
    <2>5. Searching(B)' /\ Merging(B)'
      BY <1>3, <2>1 DEF vars, Call, Searching, Merging, At, P, Fits, IsFree, IsHeader, Behind
    <2>6. TypeOK' /\ DataKept'
      BY <1>3 DEF vars, IInv, TypeOK, DataKept
    <2> QED
      BY <2>2, <2>3, <2>4, <2>5, <2>6 DEF IInv, Call
  <1> QED
    BY <1>1, <1>2, <1>3, KreallocStep, SkipBlockStep, UseWholeStep, SplitStep, TakeStep, CopyStep,
       KfreeStep, MarkFreeStep, LookBehindStep, MergeStep, TickStep DEF Next

LEMMA Invariance ==
  ASSUME InterruptInCall = FALSE
  PROVE  Spec => []IInv
  <1>1. IInv /\ [Next]_vars => IInv'
    BY StepIInv
  <1> QED
    BY InitIInv, <1>1, PTL DEF Spec

-----------------------------------------------------------------------------
(* Every header in the heap, the live ones and those that merging has left  *)
(* behind, has a size that a block in this heap can have.                   *)
THEOREM TypeCorrect ==
  ASSUME InterruptInCall = FALSE
  PROVE  Spec => []TypeOK
  <1>1. IInv => TypeOK
    BY DEF IInv
  <1> QED
    BY Invariance, <1>1, PTL

(* No block leaks, none is given twice, and together they are the heap.     *)
THEOREM HeapIsTiled ==
  ASSUME InterruptInCall = FALSE
  PROVE  Spec => []HeapTiled
  <1>1. IInv => HeapTiled
    <2> SUFFICES ASSUME IInv, Quiet PROVE HeapTiled
      BY DEF HeapTiled
    <2>1. PICK B \in SUBSET Address : Blocks(B) /\ Owners(B) /\ Call(B)
      BY DEF IInv
    <2>2. TypeOK /\ At = "user"
      BY DEF IInv, TypeOK, Quiet, At
    <2>3. B \in SUBSET Headers /\ Tiling(B)
      BY <2>1 DEF Blocks, Tiling, Headers
    <2>4. \A b \in B : ~IsFree(b) => \E c \in Client : held[c] # NULL /\ b = held[c] - 1
      <3> SUFFICES ASSUME NEW b \in B, ~IsFree(b)
                   PROVE  \E c \in Client : held[c] # NULL /\ b = held[c] - 1
        OBVIOUS
      <3>1. ~mem[b].free /\ b \in Nat
        BY <2>1, <2>2, <2>3, BlockFacts DEF IsFree, Headers
      <3>2. PICK c \in Client : held[c] = b + 1
        BY <2>1, <2>2, <3>1 DEF Owners, UsedAreClaimed, Claimed
      <3>3. held[c] # NULL /\ b = held[c] - 1
        BY <3>1, <3>2, KHeapAssumption
      <3> QED
        BY <3>3
    <2>5. \A c \in Client : held[c] # NULL => held[c] - 1 \in B /\ ~IsFree(held[c] - 1)
      BY <2>1, <2>2, HeldFacts DEF IsFree
    <2>6. {b \in B : ~IsFree(b)} = {held[c] - 1 : c \in {d \in Client : held[d] # NULL}}
      BY <2>4, <2>5
    <2> QED
      BY <2>1, <2>3, <2>6 DEF HeapTiled, Owners, Distinct
  <1> QED
    BY Invariance, <1>1, PTL

(* What a client has written is there until it frees it: across splits,     *)
(* merges and moves, with stale headers about in the free blocks.           *)
THEOREM DataIsKept ==
  ASSUME InterruptInCall = FALSE
  PROVE  Spec => []DataKept
  <1>1. IInv => DataKept
    BY DEF IInv
  <1> QED
    BY Invariance, <1>1, PTL

(* First fit goes through every block before it refuses a request. *)
THEOREM RefusalIsRight ==
  ASSUME InterruptInCall = FALSE
  PROVE  Spec => RefusedOnlyIfNoneFits
  <1>1. ASSUME IInv, NoBlock
        PROVE  \E B \in SUBSET Headers :
                  /\ Tiling(B)
                  /\ \A b \in B : IsFree(b) => mem[b].size < frame[running].ask
    <2>1. PICK B \in SUBSET Address : Blocks(B) /\ Owners(B) /\ Call(B)
      BY <1>1 DEF IInv
    <2>2. TypeOK /\ At = "search" /\ P >= HEAP
      BY <1>1 DEF IInv, NoBlock, Running, At, P
    <2>3. B \in SUBSET Headers /\ Tiling(B)
      BY <2>1 DEF Blocks, Tiling, Headers
    <2>4. ASSUME NEW b \in B, IsFree(b)
          PROVE  mem[b].size < frame[running].ask
      <3>1. b < P
        <4>1. P \in B \cup {HEAP}
          BY <2>1, <2>2 DEF Call, Searching
        <4>2. P = HEAP
          BY <2>1, <2>2, <4>1, BlockFacts, Constants
        <4> QED
          BY <2>1, <2>2, <4>2, BlockFacts
      <3>2. ~(mem[b].size >= frame[running].ask)
        BY <2>1, <2>2, <2>4, <3>1 DEF Call, Searching, Fits
      <3>3. mem[b].size \in Nat /\ frame[running].ask \in Nat
        BY <2>1, <2>2, BlockFacts, Constants DEF Call, Asking
      <3> QED
        BY <3>2, <3>3
    <2> QED
      BY <2>3, <2>4
  <1>2. IInv /\ [Next]_vars =>
          [NoBlock => \E B \in SUBSET Headers :
                         /\ Tiling(B)
                         /\ \A b \in B : IsFree(b) => mem[b].size < frame[running].ask]_vars
    BY <1>1
  <1> QED
    BY Invariance, <1>2, PTL DEF Spec, RefusedOnlyIfNoneFits
============================================================================
