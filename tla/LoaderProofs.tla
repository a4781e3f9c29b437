---------------------------- MODULE LoaderProofs ----------------------------
(***************************************************************************)
(* Proofs about Loader, for any memory map, any number and size of slots   *)
(* and any programs that linker_pic.ld can make.                           *)
(***************************************************************************)
EXTENDS Loader, WellFoundedInduction, TLAPS

(* What the slots must lie apart from, M: slots.h:10-13 asks for it, and   *)
(* the addresses of the code do not give it (run loader_map).              *)
SlotUnits(s)  == Units(Slots_BaseAddr(s), SLOT_SIZE)
SlotsApart(M) == \A s \in Slot : SlotUnits(s) \cap M = {}

-----------------------------------------------------------------------------
(* The parts of the inductive invariant.                                   *)

Loading == [file : File, slot : Slot, progIndex : Nat, pt_load_seen : Nat, whole : BOOLEAN]

(* Where a load is: a segment is read for its header, the patches come     *)
(* after the second one.                                                   *)
Place ==
    at # "idle" =>
       /\ at \in {"header", "program header", "segment", "got", "rela"}
       /\ load \in Loading
       /\ load.progIndex <= Len(phdr)
       /\ at = "segment" => load.progIndex < Len(phdr) /\ header.type = "LOAD"
       /\ at \in {"got", "rela"} => load.pt_load_seen = 2

(* The headers of the segments it has counted lie behind it. *)
Counted ==
    at # "idle" =>
       /\ load.pt_load_seen >= 1 => \E j \in LoadHeaders(load.file) : j <= load.progIndex
       /\ load.pt_load_seen >= 2 =>
             \E j, k \in LoadHeaders(load.file) : j < k /\ k <= load.progIndex

(* The offsets whose pointers have been moved by now. *)
Moved ==
    IF load.pt_load_seen < 2 \/ at = "got" THEN {}
    ELSE IF at = "rela" THEN Program[load.file].got
    ELSE Program[load.file].got \cup Program[load.file].rela

InFile(f, o) == \E s \in Segments(f) : o \in Units(s.paddr, s.filesz)

(* What is in the slot at an offset when the pointers at M have been moved. *)
Part(f, b, M, o) ==
    IF InFile(f, o) THEN [file |-> f, off |-> o, base |-> IF o \in M THEN b ELSE 0] ELSE ZERO

(* The segments read so far are in the slot, with those pointers moved once. *)
PartLoaded ==
    at # "idle" /\ load.pt_load_seen <= 2 /\ load.whole =>
       \A i \in LoadHeaders(load.file) : i <= load.progIndex =>
          \A o \in Units(phdr[i].paddr, phdr[i].memsz) :
             memory[task_base + o] = Part(load.file, task_base, Moved, o)

(* Nothing has been passed over before the patches, and what they go to is *)
(* of the image.                                                           *)
Patchable ==
    at # "idle" =>
       /\ load.pt_load_seen < 2 \/ at = "got" => load.whole
       /\ at \in {"got", "rela"} =>
             \A o \in Program[load.file].got \cup Program[load.file].rela :
                memory[task_base + o] \in Image

(* The image of the task t in a memory m. *)
ImageOf(m, t) ==
    /\ m[Slots_BaseAddr(t.slot) + SLOT_SIZE - 1] = FRAME
    /\ t.whole => \A s \in Segments(t.file) : \A o \in Units(s.paddr, s.memsz) :
                    m[Slots_BaseAddr(t.slot) + o] = Expected(t.file, Slots_BaseAddr(t.slot), o)

(* The programs that run are safe if the heap is not among the slots. *)
Intact == SlotsApart(Heap) => \A i \in Programs : ImageOf(memory, task_pool[i])

IInv == TypeOK /\ SlotsAccounted /\ Place /\ Counted /\ PartLoaded /\ Patchable /\ Intact

-----------------------------------------------------------------------------
(* Units and offsets.                                                      *)

LEMMA SlotBase ==
  ASSUME NEW s \in Slot
  PROVE  /\ s \in Nat
         /\ Slots_BaseAddr(s) \in Nat
         /\ SLOT_BASE <= Slots_BaseAddr(s)
         /\ Slots_BaseAddr(s) + SLOT_SIZE <= SLOT_BASE + SLOT_SIZE * SLOT_COUNT
  <1>1. s \in Nat /\ s + 1 <= SLOT_COUNT /\ SLOT_SIZE \in Nat /\ SLOT_BASE \in Nat
        /\ SLOT_COUNT \in Nat
    BY LoaderAssumption DEF Slot
  <1>2. s * SLOT_SIZE \in Nat
    BY <1>1
  <1>3. PICK k \in Nat : SLOT_COUNT = s + 1 + k
    <2>1. SLOT_COUNT - (s + 1) \in Nat /\ SLOT_COUNT = s + 1 + (SLOT_COUNT - (s + 1))
      BY <1>1
    <2> QED
      BY <2>1
  <1>4. SLOT_SIZE * SLOT_COUNT = s * SLOT_SIZE + SLOT_SIZE + k * SLOT_SIZE
    BY <1>1, <1>3
  <1>5. k * SLOT_SIZE \in Nat
    BY <1>1, <1>3
  <1>6. SLOT_SIZE * SLOT_COUNT \in Nat
    BY <1>1
  <1> QED
    BY <1>1, <1>2, <1>4, <1>5, <1>6 DEF Slots_BaseAddr

LEMMA SlotInMemory ==
  ASSUME NEW s \in Slot
  PROVE  SlotUnits(s) \subseteq Unit
  <1>1. /\ Slots_BaseAddr(s) \in Nat
        /\ SLOT_BASE <= Slots_BaseAddr(s)
        /\ Slots_BaseAddr(s) + SLOT_SIZE <= SLOT_BASE + SLOT_SIZE * SLOT_COUNT
    BY SlotBase
  <1>2. SLOT_SIZE \in Nat /\ SLOT_BASE \in Nat /\ KERNEL_ORIGIN \in Nat
        /\ KERNEL_ORIGIN <= SLOT_BASE /\ SLOT_COUNT \in Nat
    BY LoaderAssumption
  <1>3. PICK e : e = SLOT_SIZE * SLOT_COUNT
    OBVIOUS
  <1>4. e \in Nat
    BY <1>2, <1>3
  <1> QED
    BY <1>1, <1>2, <1>3, <1>4 DEF SlotUnits, Units, Unit

(* No two slots share a unit. *)
LEMMA SlotsLieApart ==
  ASSUME NEW s \in Slot, NEW t \in Slot, s # t
  PROVE  SlotUnits(s) \cap SlotUnits(t) = {}
  <1>1. \A x, y \in Slot : x < y => Slots_BaseAddr(x) + SLOT_SIZE <= Slots_BaseAddr(y)
    <2> SUFFICES ASSUME NEW x \in Slot, NEW y \in Slot, x < y
                 PROVE  Slots_BaseAddr(x) + SLOT_SIZE <= Slots_BaseAddr(y)
      OBVIOUS
    <2>1. x \in Nat /\ y \in Nat /\ SLOT_SIZE \in Nat /\ SLOT_BASE \in Nat
      BY LoaderAssumption DEF Slot
    <2>2. PICK k \in Nat : y = x + 1 + k
      <3>1. y - (x + 1) \in Nat /\ y = x + 1 + (y - (x + 1))
        BY <2>1
      <3> QED
        BY <3>1
    <2>3. y * SLOT_SIZE = x * SLOT_SIZE + SLOT_SIZE + k * SLOT_SIZE
      BY <2>1, <2>2
    <2>4. k * SLOT_SIZE \in Nat /\ x * SLOT_SIZE \in Nat /\ y * SLOT_SIZE \in Nat
      BY <2>1, <2>2
    <2> QED
      BY <2>1, <2>3, <2>4 DEF Slots_BaseAddr
  <1>2. s \in Nat /\ t \in Nat /\ SLOT_SIZE \in Nat
        /\ Slots_BaseAddr(s) \in Nat /\ Slots_BaseAddr(t) \in Nat
    BY SlotBase, LoaderAssumption
  <1>3. s < t \/ t < s
    BY <1>2
  <1>4. \/ Slots_BaseAddr(s) + SLOT_SIZE <= Slots_BaseAddr(t)
        \/ Slots_BaseAddr(t) + SLOT_SIZE <= Slots_BaseAddr(s)
    BY <1>1, <1>3
  <1> QED
    BY <1>2, <1>4 DEF SlotUnits, Units

LEMMA HeaderType ==
  ASSUME NEW f \in File, NEW i \in LoadHeaders(f)
  PROVE  /\ Program[f].phdr[i] \in ProgramHeader /\ Program[f].phdr[i] \in Segments(f)
         /\ Program[f].phdr[i].paddr \in Nat /\ Program[f].phdr[i].filesz \in Nat
         /\ Program[f].phdr[i].memsz \in Nat
         /\ Program[f].phdr[i].filesz <= Program[f].phdr[i].memsz
         /\ Program[f].phdr[i].paddr + Program[f].phdr[i].memsz <= SLOT_SIZE - 1
         /\ i \in 1..Len(Program[f].phdr)
  <1>1. Program[f].phdr \in Seq(ProgramHeader) /\ i \in DOMAIN Program[f].phdr
    BY LoaderAssumption DEF ProgramFile, LoadHeaders
  <1>2. Program[f].phdr[i] \in ProgramHeader
    BY <1>1
  <1>3. Program[f].phdr[i] \in Segments(f)
    BY DEF Segments
  <1> QED
    BY <1>1, <1>2, <1>3, LinkerAssumption DEF ProgramHeader

(* A segment is put into a slot, below its last unit. *)
LEMMA Offsets ==
  ASSUME NEW f \in File, NEW i \in LoadHeaders(f), NEW s \in Slot,
         NEW o \in Units(Program[f].phdr[i].paddr, Program[f].phdr[i].memsz)
  PROVE  /\ o \in Nat
         /\ Slots_BaseAddr(s) + o \in SlotUnits(s)
         /\ Slots_BaseAddr(s) + o \in Unit
         /\ Slots_BaseAddr(s) + o # Slots_BaseAddr(s) + SLOT_SIZE - 1
  <1> DEFINE p == Program[f].phdr[i].paddr
             m == Program[f].phdr[i].memsz
             b == Slots_BaseAddr(s)
  <1>1. p \in Nat /\ m \in Nat /\ p + m <= SLOT_SIZE - 1 /\ o \in Units(p, m)
    BY HeaderType
  <1>2. b \in Nat /\ SLOT_SIZE \in Nat
    BY SlotBase, LoaderAssumption
  <1>3. SlotUnits(s) = Units(b, SLOT_SIZE)
    BY DEF SlotUnits
  <1> HIDE DEF p, m, b
  <1>4. o \in Nat /\ o < SLOT_SIZE - 1
    BY <1>1, <1>2 DEF Units
  <1>5. b + o \in SlotUnits(s) /\ b + o # b + SLOT_SIZE - 1
    BY <1>2, <1>3, <1>4 DEF Units
  <1> QED
    BY <1>4, <1>5, SlotInMemory DEF b

(* What is patched is part of the image, and of one of the first segments. *)
LEMMA PatchedOffsets ==
  ASSUME NEW f \in File, NEW o \in Program[f].got \cup Program[f].rela
  PROVE  /\ InFile(f, o) /\ o \in Nat
         /\ \E i \in LoadHeaders(f) :
               /\ o \in Units(Program[f].phdr[i].paddr, Program[f].phdr[i].memsz)
               /\ \A j, k \in LoadHeaders(f) : j < k => i <= k
  <1>1. PICK i \in LoadHeaders(f) :
               /\ o \in Units(Program[f].phdr[i].paddr, Program[f].phdr[i].filesz)
               /\ \A j, k \in LoadHeaders(f) : j < k => i <= k
    BY LinkerAssumption
  <1>2. /\ Program[f].phdr[i].paddr \in Nat /\ Program[f].phdr[i].filesz \in Nat
        /\ Program[f].phdr[i].memsz \in Nat
        /\ Program[f].phdr[i].filesz <= Program[f].phdr[i].memsz
        /\ Program[f].phdr[i] \in Segments(f)
    BY HeaderType
  <1>3. o \in Nat /\ o \in Units(Program[f].phdr[i].paddr, Program[f].phdr[i].memsz)
    BY <1>1, <1>2 DEF Units
  <1>4. InFile(f, o)
    BY <1>1, <1>2 DEF InFile
  <1> QED
    BY <1>1, <1>3, <1>4

(* A set of numbers has a least one, by well-founded induction. *)
LEMMA LeastElement ==
  ASSUME NEW S, S \subseteq Nat, S # {}
  PROVE  \E x \in S : \A y \in S : x <= y
  <1> DEFINE R == {ss \in Nat \X Nat : ss[1] < ss[2]}
  <1>1. IsWellFoundedOn(R, Nat)
    BY NatLessThanWellFounded DEF OpToRel
  <1>2. \A x, y \in Nat : y < x => <<y, x>> \in R
    OBVIOUS
  <1> HIDE DEF R
  <1>3. PICK x \in S : \A y \in S : ~ (<<y, x>> \in R)
    BY <1>1, WFMin
  <1>4. \A y \in S : ~(y < x)
    BY <1>2, <1>3
  <1>5. \A y \in S : x <= y
    BY <1>4
  <1> QED
    BY <1>5

-----------------------------------------------------------------------------
(* What a load in progress is known to have, and what every step of it     *)
(* leaves alone: it writes to its own slot only.                           *)

KeepsOthers == \A u \in Unit \ SlotUnits(load.slot) : memory'[u] = memory[u]

LEMMA LoadOf ==
  ASSUME IInv, at # "idle"
  PROVE  /\ load \in Loading /\ load.file \in File /\ load.slot \in Slot
         /\ load.progIndex \in Nat /\ load.pt_load_seen \in Nat /\ load.whole \in BOOLEAN
         /\ task_base = Slots_BaseAddr(load.slot) /\ task_base \in Nat
         /\ phdr = Program[load.file].phdr
         /\ phdr \in Seq(ProgramHeader) /\ Len(phdr) \in Nat
         /\ memory \in [Unit -> Content]
         /\ load.slot \in slot_in_use
  <1>1. load \in Loading
    BY DEF IInv, Place
  <1>2. load.file \in File /\ load.slot \in Slot
        /\ load.progIndex \in Nat /\ load.pt_load_seen \in Nat /\ load.whole \in BOOLEAN
    BY <1>1 DEF Loading
  <1>3. task_base = Slots_BaseAddr(load.slot) /\ task_base \in Nat
    BY <1>2, SlotBase DEF task_base
  <1>4. phdr = Program[load.file].phdr /\ phdr \in Seq(ProgramHeader)
    BY <1>2, LoaderAssumption DEF phdr, ProgramFile
  <1>5. Len(phdr) \in Nat
    BY <1>4
  <1>6. memory \in [Unit -> Content] /\ load.slot \in slot_in_use
    BY DEF IInv, TypeOK
  <1> QED
    BY <1>1, <1>2, <1>3, <1>4, <1>5, <1>6

(* The header of a segment about to be read is one of the file's. *)
LEMMA HeaderOf ==
  ASSUME IInv, at = "segment"
  PROVE  /\ load.progIndex + 1 \in LoadHeaders(load.file)
         /\ header = Program[load.file].phdr[load.progIndex + 1]
  <1>1. /\ load.progIndex < Len(phdr) /\ header.type = "LOAD"
        /\ phdr = Program[load.file].phdr /\ phdr \in Seq(ProgramHeader)
        /\ load.progIndex \in Nat /\ Len(phdr) \in Nat
    BY LoadOf DEF IInv, Place
  <1>2. load.progIndex + 1 \in DOMAIN phdr
    BY <1>1
  <1> QED
    BY <1>1, <1>2 DEF header, LoadHeaders

LEMMA TaskOf ==
  ASSUME IInv, NEW i \in Programs
  PROVE  /\ task_pool[i] \in Task /\ i \in 1..Len(task_pool)
         /\ task_pool[i].slot \in Slot /\ task_pool[i].file \in File
         /\ task_pool[i].slot \in slot_in_use
         /\ at # "idle" => task_pool[i].slot # load.slot
  <1>1. task_pool \in Seq(Task) /\ i \in DOMAIN task_pool /\ task_pool[i].slot # NONE
    BY DEF IInv, TypeOK, Programs
  <1>2. task_pool[i] \in Task /\ i \in 1..Len(task_pool)
    BY <1>1
  <1>3. task_pool[i].slot \in Slot /\ task_pool[i].file \in File
    BY <1>1, <1>2 DEF Task
  <1>4. task_pool[i].slot \in slot_in_use /\ (at # "idle" => task_pool[i].slot # load.slot)
    BY DEF IInv, SlotsAccounted
  <1> QED
    BY <1>2, <1>3, <1>4

(* Who leaves the slot of a task alone leaves its image alone. *)
LEMMA ImageStays ==
  ASSUME NEW t, t.slot \in Slot, t.file \in File, NEW m, NEW n, ImageOf(m, t),
         \A u \in SlotUnits(t.slot) : n[u] = m[u]
  PROVE  ImageOf(n, t)
  <1> DEFINE b == Slots_BaseAddr(t.slot)
  <1>1. b + SLOT_SIZE - 1 \in SlotUnits(t.slot)
    <2>1. b \in Nat /\ SLOT_SIZE \in Nat \ {0}
      BY SlotBase, LoaderAssumption
    <2> QED
      BY <2>1 DEF SlotUnits, Units
  <1>2. \A s \in Segments(t.file) : \A o \in Units(s.paddr, s.memsz) : b + o \in SlotUnits(t.slot)
    BY Offsets DEF Segments
  <1> QED
    BY <1>1, <1>2 DEF ImageOf

(* The programs that run are not touched. *)
LEMMA ProgramsKept ==
  ASSUME IInv, at # "idle", KeepsOthers, UNCHANGED task_pool
  PROVE  Intact'
  <1>1. Programs' = Programs
    BY DEF Programs
  <1> SUFFICES ASSUME SlotsApart(Heap), NEW i \in Programs
               PROVE  ImageOf(memory', task_pool[i])
    BY <1>1 DEF Intact
  <1>2. /\ task_pool[i].slot \in Slot /\ task_pool[i].slot # load.slot /\ load.slot \in Slot
        /\ task_pool[i].file \in File
    BY TaskOf, LoadOf
  <1>3. SlotUnits(task_pool[i].slot) \cap SlotUnits(load.slot) = {}
    BY <1>2, SlotsLieApart
  <1>4. \A u \in SlotUnits(task_pool[i].slot) : memory'[u] = memory[u]
    BY <1>2, <1>3, SlotInMemory DEF KeepsOthers
  <1>5. ImageOf(memory, task_pool[i])
    BY DEF IInv, Intact
  <1> QED
    BY <1>2, <1>4, <1>5, ImageStays

-----------------------------------------------------------------------------
(* The steps of a load.                                                    *)

(* The slot goes back, and nothing is left of the load. *)
LEMMA FailKeeps ==
  ASSUME IInv, at # "idle", Fail, KeepsOthers, memory' \in [Unit -> Content]
  PROVE  IInv'
  <1>1. /\ slot_in_use' = slot_in_use \ {load.slot} /\ at' = "idle" /\ load' = NoLoad
        /\ task_pool' = task_pool
    BY DEF Fail, Slots_Free, Return
  <1>2. TypeOK'
    BY <1>1 DEF IInv, TypeOK, NoLoad
  <1>3. Programs' = Programs
    BY <1>1 DEF Programs
  <1>4. SlotsAccounted'
    <2>1. /\ slot_in_use = {task_pool[i].slot : i \in Programs} \cup {load.slot}
          /\ \A i, j \in Programs : task_pool[i].slot = task_pool[j].slot => i = j
          /\ \A i \in Programs : task_pool[i].slot # load.slot
      BY DEF IInv, SlotsAccounted
    <2> QED
      BY <1>1, <1>3, <2>1 DEF SlotsAccounted
  <1>5. Intact'
    BY <1>1, ProgramsKept
  <1>6. Place' /\ Counted' /\ PartLoaded' /\ Patchable'
    BY <1>1 DEF Place, Counted, PartLoaded, Patchable
  <1> QED
    BY <1>2, <1>4, <1>5, <1>6 DEF IInv

(* A step that goes on with the same file in the same slot. *)
LEMMA GoOnKeeps ==
  ASSUME IInv, at # "idle", KeepsOthers, memory' \in [Unit -> Content],
         at' \in {"program header", "segment", "got", "rela"},
         load' \in Loading, load'.file = load.file, load'.slot = load.slot,
         UNCHANGED <<slot_in_use, task_pool>>
  PROVE  TypeOK' /\ SlotsAccounted' /\ Intact'
  <1>1. load' # NoLoad
    <2>1. load'.slot \in Slot
      BY DEF Loading
    <2>2. NoLoad.slot = NONE /\ NONE \notin Slot
      BY LoaderAssumption DEF NoLoad
    <2> QED
      BY <2>1, <2>2
  <1>2. TypeOK'
    BY <1>1, LoadOf DEF IInv, TypeOK
  <1>3. Programs' = Programs
    BY DEF Programs
  <1>4. SlotsAccounted'
    <2> DEFINE A == {task_pool[i].slot : i \in Programs}
               D == \A i, j \in Programs : task_pool[i].slot = task_pool[j].slot => i = j
               N == \A i \in Programs : task_pool[i].slot # load.slot
    <2>1. slot_in_use = A \cup {load.slot} /\ D /\ N
      BY DEF IInv, SlotsAccounted
    <2>2. /\ at' # "idle" /\ load'.slot = load.slot
          /\ slot_in_use' = slot_in_use /\ task_pool' = task_pool
      OBVIOUS
    <2>3. A' = A
      BY <1>3, <2>2
    <2>4. D' = D
      BY <1>3, <2>2
    <2>5. N' = N
      BY <1>3, <2>2
    <2>6. slot_in_use' = A' \cup {load'.slot} /\ D' /\ N'
      <3> HIDE DEF A, D, N
      <3> QED
        BY <2>1, <2>2, <2>3, <2>4, <2>5
    <2> QED
      BY <2>2, <2>6 DEF SlotsAccounted
  <1>5. Intact'
    BY ProgramsKept
  <1> QED
    BY <1>2, <1>4, <1>5

LEMMA AllocKeeps ==
  ASSUME IInv, Slots_Alloc
  PROVE  IInv'
  <1>1. /\ at = "idle" /\ FreeSlots # {} /\ at' = "header"
        /\ slot_in_use' = slot_in_use \cup {Min(FreeSlots)}
        /\ UNCHANGED <<memory, task_pool>>
    BY DEF Slots_Alloc
  <1>2. PICK f \in File : load' = [NoLoad EXCEPT !.file = f, !.slot = Min(FreeSlots)]
    BY DEF Slots_Alloc
  <1>3. PICK s \in FreeSlots : s = Min(FreeSlots)
    <2>1. FreeSlots \subseteq Nat
      BY DEF FreeSlots, Slot
    <2>2. \E x \in FreeSlots : \A y \in FreeSlots : x <= y
      BY <1>1, <2>1, LeastElement
    <2> QED
      BY <2>2 DEF Min
  <1>4. s \in Slot /\ s \notin slot_in_use
    BY DEF FreeSlots
  <1>5. load' = [file |-> f, slot |-> s, progIndex |-> 0, pt_load_seen |-> 0, whole |-> TRUE]
    BY <1>2, <1>3 DEF NoLoad
  <1>6. load' # NoLoad /\ load' \in Loading
    BY <1>4, <1>5, LoaderAssumption DEF NoLoad, Loading
  <1>7. TypeOK'
    BY <1>1, <1>3, <1>4, <1>5, <1>6 DEF IInv, TypeOK
  <1>8. Programs' = Programs
    BY <1>1 DEF Programs
  <1>9. SlotsAccounted'
    <2>1. /\ slot_in_use = {task_pool[i].slot : i \in Programs}
          /\ \A i, j \in Programs : task_pool[i].slot = task_pool[j].slot => i = j
      BY <1>1 DEF IInv, SlotsAccounted
    <2>2. /\ slot_in_use' = slot_in_use \cup {load'.slot} /\ load'.slot = s
          /\ task_pool' = task_pool /\ at' # "idle"
      BY <1>1, <1>3, <1>5
    <2> QED
      BY <1>4, <1>8, <2>1, <2>2 DEF SlotsAccounted
  <1>10. Intact'
    BY <1>1, <1>8 DEF IInv, Intact
  <1>11. phdr' = Program[f].phdr /\ LoadHeaders(f) \subseteq 1..Len(Program[f].phdr)
    BY <1>5, HeaderType DEF phdr
  <1>12. Place'
    <2>1. Len(phdr') \in Nat
      BY <1>11, LoaderAssumption DEF ProgramFile
    <2> QED
      BY <1>1, <1>5, <1>6, <2>1 DEF Place
  <1>13. Counted' /\ Patchable'
    BY <1>1, <1>5 DEF Counted, Patchable
  <1>14. PartLoaded'
    BY <1>1, <1>5, <1>11 DEF PartLoaded
  <1> QED
    BY <1>7, <1>9, <1>10, <1>12, <1>13, <1>14 DEF IInv

LEMMA ReadHeaderKeeps ==
  ASSUME IInv, ReadHeader
  PROVE  IInv'
  <1>1. at = "header" /\ memory' = memory
    BY DEF ReadHeader
  <1>2. KeepsOthers /\ memory' \in [Unit -> Content]
    BY <1>1, LoadOf DEF KeepsOthers
  <1>3. CASE Fail
    BY <1>1, <1>2, <1>3, FailKeeps
  <1>4. CASE at' = "program header" /\ UNCHANGED <<slot_in_use, task_pool, load>>
    <2>1. TypeOK' /\ SlotsAccounted' /\ Intact'
      BY <1>1, <1>2, <1>4, LoadOf, GoOnKeeps
    <2>2. Place' /\ Counted' /\ Patchable'
      BY <1>1, <1>4 DEF IInv, Place, Counted, Patchable, phdr, task_base
    <2>3. PartLoaded'
      BY <1>1, <1>4 DEF IInv, PartLoaded, Moved, phdr, task_base
    <2> QED
      BY <2>1, <2>2, <2>3 DEF IInv
  <1> QED
    BY <1>3, <1>4 DEF ReadHeader

LEMMA ReadProgramHeaderKeeps ==
  ASSUME IInv, ReadProgramHeader
  PROVE  IInv'
  <1>1. at = "program header" /\ load.progIndex < Len(phdr) /\ memory' = memory
    BY DEF ReadProgramHeader
  <1>2. KeepsOthers /\ memory' \in [Unit -> Content]
    BY <1>1, LoadOf DEF KeepsOthers
  <1>a. load \in Loading /\ load.file \in File /\ load.progIndex \in Nat /\ Len(phdr) \in Nat
    BY <1>1, LoadOf
  <1>b. \A i \in LoadHeaders(load.file) : i \in Nat
    BY <1>a, HeaderType
  <1>3. CASE Fail
    BY <1>1, <1>2, <1>3, FailKeeps
  <1>4. CASE header.type = "LOAD" /\ at' = "segment" /\ UNCHANGED <<slot_in_use, task_pool, load>>
    <2>1. TypeOK' /\ SlotsAccounted' /\ Intact'
      BY <1>1, <1>2, <1>4, LoadOf, GoOnKeeps
    <2>2. Place' /\ Counted' /\ Patchable'
      BY <1>1, <1>4 DEF IInv, Place, Counted, Patchable, phdr, task_base, header
    <2>3. PartLoaded'
      BY <1>1, <1>4 DEF IInv, PartLoaded, Moved, phdr, task_base
    <2> QED
      BY <2>1, <2>2, <2>3 DEF IInv
  <1>5. CASE header.type = "NOTE" /\ load' = [load EXCEPT !.progIndex = @ + 1]
             /\ UNCHANGED <<slot_in_use, task_pool, at>>
    <2>1. /\ load'.file = load.file /\ load'.slot = load.slot /\ load'.whole = load.whole
          /\ load'.pt_load_seen = load.pt_load_seen /\ load'.progIndex = load.progIndex + 1
          /\ load' \in Loading
      BY <1>5, <1>a DEF Loading
    <2>2. TypeOK' /\ SlotsAccounted' /\ Intact'
      BY <1>1, <1>2, <1>5, <2>1, GoOnKeeps
    <2>3. phdr' = phdr /\ task_base' = task_base /\ Moved' = Moved /\ at' = "program header"
      BY <1>1, <1>5, <2>1 DEF phdr, task_base, Moved
    <2>4. \A i \in LoadHeaders(load.file) : i <= load.progIndex + 1 => i <= load.progIndex
      <3>1. load.progIndex + 1 \notin LoadHeaders(load.file)
        BY <1>1, <1>5 DEF LoadHeaders, header, phdr
      <3> QED
        BY <1>a, <1>b, <3>1
    <2>5. \A i \in LoadHeaders(load.file) : i <= load.progIndex => i <= load.progIndex + 1
      BY <1>a, <1>b
    <2>6. Place'
      <3>1. load.progIndex + 1 <= Len(phdr)
        <4>1. \A k, n \in Nat : k < n => k + 1 <= n
          OBVIOUS
        <4> QED
          BY <1>1, <1>a, <4>1
      <3> QED
        BY <2>1, <2>3, <3>1 DEF Place
    <2>7. Counted'
      <3>1. /\ load.pt_load_seen >= 1 => \E j \in LoadHeaders(load.file) : j <= load.progIndex
            /\ load.pt_load_seen >= 2 =>
                 \E j, k \in LoadHeaders(load.file) : j < k /\ k <= load.progIndex
        BY <1>1 DEF IInv, Counted
      <3> QED
        BY <2>1, <2>5, <3>1 DEF Counted
    <2>8. Patchable'
      BY <1>1, <2>1, <2>3 DEF IInv, Patchable
    <2>9. PartLoaded'
      BY <1>1, <2>1, <2>3, <2>4 DEF IInv, PartLoaded
    <2> QED
      BY <2>2, <2>6, <2>7, <2>8, <2>9 DEF IInv
  <1> QED
    BY <1>3, <1>4, <1>5 DEF ReadProgramHeader

(* The units a segment is read into. *)
LEMMA SegmentUnits ==
  ASSUME IInv, at = "segment", NEW n \in 0..header.memsz
  PROVE  /\ Units(task_base + header.paddr, n) \subseteq SlotUnits(load.slot)
         /\ header.paddr \in Nat /\ header.filesz \in Nat /\ header.memsz \in Nat
         /\ header.filesz <= header.memsz
         /\ \A u \in Units(task_base + header.paddr, n) : u - task_base \in Nat
  <1>1. /\ header.paddr \in Nat /\ header.filesz \in Nat /\ header.memsz \in Nat
        /\ header.filesz <= header.memsz /\ header.paddr + header.memsz <= SLOT_SIZE - 1
    BY HeaderOf, LoadOf, HeaderType
  <1>2. task_base \in Nat /\ task_base = Slots_BaseAddr(load.slot) /\ SLOT_SIZE \in Nat
    BY LoadOf, LoaderAssumption
  <1>3. PICK b : b = task_base
    OBVIOUS
  <1>4. SlotUnits(load.slot) = Units(b, SLOT_SIZE)
    BY <1>2, <1>3 DEF SlotUnits
  <1>5. Units(b + header.paddr, n) \subseteq Units(b, SLOT_SIZE)
    BY <1>1, <1>2, <1>3 DEF Units
  <1>6. \A u \in Units(b + header.paddr, n) : u - b \in Nat
    BY <1>1, <1>2, <1>3 DEF Units
  <1> QED
    BY <1>1, <1>3, <1>4, <1>5, <1>6

(* A segment read as far as n units: only the slot is written to. *)
LEMMA SegmentCutShort ==
  ASSUME IInv, at = "segment", NEW n \in 0..header.filesz,
         memory' = [u \in Unit |-> IF u \in Units(task_base + header.paddr, n)
                      THEN [file |-> load.file, off |-> u - task_base, base |-> 0]
                      ELSE memory[u]]
  PROVE  KeepsOthers /\ memory' \in [Unit -> Content]
  <1>1. n \in 0..header.memsz
    <2>1. header.filesz \in Nat /\ header.memsz \in Nat /\ header.filesz <= header.memsz
      BY HeaderOf, LoadOf, HeaderType
    <2> QED
      BY <2>1
  <1>2. /\ Units(task_base + header.paddr, n) \subseteq SlotUnits(load.slot)
        /\ \A u \in Units(task_base + header.paddr, n) : u - task_base \in Nat
    BY <1>1, SegmentUnits
  <1>3. \A u \in Units(task_base + header.paddr, n) :
           [file |-> load.file, off |-> u - task_base, base |-> 0] \in Content
    BY <1>2, LoadOf DEF Image, Content
  <1>4. memory \in [Unit -> Content]
    BY LoadOf
  <1> QED
    BY <1>2, <1>3, <1>4 DEF KeepsOthers

(* A segment read as a whole is in the slot, and the others are left alone. *)
LEMMA SegmentRead ==
  ASSUME IInv, at = "segment",
         memory' = [u \in Unit |-> IF u \in Units(task_base + header.paddr, header.memsz)
                      THEN IF u < task_base + header.paddr + header.filesz
                           THEN [file |-> load.file, off |-> u - task_base, base |-> 0]
                           ELSE ZERO
                      ELSE memory[u]]
  PROVE  /\ KeepsOthers /\ memory' \in [Unit -> Content]
         /\ \A o \in Units(header.paddr, header.memsz) :
               memory'[task_base + o] = Part(load.file, task_base, {}, o)
         /\ \A i \in LoadHeaders(load.file) : Program[load.file].phdr[i] # header =>
               \A o \in Units(Program[load.file].phdr[i].paddr, Program[load.file].phdr[i].memsz) :
                  memory'[task_base + o] = memory[task_base + o]
  <1>1. /\ load.file \in File /\ load.slot \in Slot
        /\ task_base = Slots_BaseAddr(load.slot) /\ memory \in [Unit -> Content]
    BY LoadOf
  <1> DEFINE f == load.file
             k == load.progIndex + 1
  <1>2. k \in LoadHeaders(f) /\ header = Program[f].phdr[k] /\ header \in Segments(f)
    BY <1>1, HeaderOf, HeaderType
  <1>3. PICK b \in Nat : b = task_base
    BY LoadOf
  <1>4. PICK p \in Nat, z \in Nat, m \in Nat :
           p = header.paddr /\ z = header.filesz /\ m = header.memsz /\ z <= m
    BY <1>1, <1>2, HeaderType
  <1>5. /\ Units(b + p, m) \subseteq SlotUnits(load.slot)
        /\ \A u \in Units(b + p, m) : u - b \in Nat /\ u \in Nat
    <2>1. header.memsz \in 0..header.memsz
      BY <1>4
    <2>2. \A u \in Units(b + p, m) : u \in Nat
      BY <1>3, <1>4 DEF Units
    <2> QED
      BY <1>3, <1>4, <2>1, <2>2, SegmentUnits
  <1>6. SlotUnits(load.slot) \subseteq Unit
    BY <1>1, SlotInMemory
  <1>7. /\ \A u \in Units(b + p, m) : u < b + p + z =>
                 memory'[u] = [file |-> f, off |-> u - b, base |-> 0]
        /\ \A u \in Units(b + p, m) : ~(u < b + p + z) => memory'[u] = ZERO
        /\ \A u \in Unit \ Units(b + p, m) : memory'[u] = memory[u]
        /\ DOMAIN memory' = Unit
    BY <1>3, <1>4, <1>5, <1>6
  <1>8. KeepsOthers
    BY <1>5, <1>7 DEF KeepsOthers
  <1>9. memory' \in [Unit -> Content]
    <2>1. \A u \in Units(b + p, m) : [file |-> f, off |-> u - b, base |-> 0] \in Content
      BY <1>1, <1>5 DEF Image, Content
    <2>2. ZERO \in Content
      BY DEF Content
    <2>3. \A u \in Unit : memory'[u] \in Content
      BY <1>1, <1>7, <2>1, <2>2
    <2>4. memory' = [u \in Unit |-> memory'[u]]
      OBVIOUS
    <2> QED
      BY <2>3, <2>4
  <1>10. ASSUME NEW o \in Units(p, m)
         PROVE  memory'[b + o] = Part(f, b, {}, o)
    <2>1. o \in Nat /\ b + o \in Units(b + p, m) /\ (b + o < b + p + z <=> o < p + z)
          /\ (b + o) - b = o /\ (o \in Units(p, z) <=> o < p + z)
      BY <1>4 DEF Units
    <2>2. CASE o < p + z
      <3>1. InFile(f, o)
        BY <1>2, <1>4, <2>1, <2>2 DEF InFile
      <3> QED
        BY <1>7, <2>1, <2>2, <3>1 DEF Part
    <2>3. CASE ~(o < p + z)
      <3>1. ASSUME NEW t \in Segments(f), o \in Units(t.paddr, t.filesz)
            PROVE  FALSE
        <4>1. t # header
          BY <1>4, <2>1, <2>3, <3>1
        <4>2. t.paddr \in Nat /\ t.filesz \in Nat /\ t.memsz \in Nat /\ t.filesz <= t.memsz
          BY <1>1, HeaderType DEF Segments
        <4>3. o \in Units(t.paddr, t.memsz)
          BY <3>1, <4>2 DEF Units
        <4>4. Units(header.paddr, header.memsz) \cap Units(t.paddr, t.memsz) = {}
          BY <1>1, <1>2, <4>1, LinkerAssumption
        <4> QED
          BY <1>4, <4>3, <4>4
      <3>2. ~InFile(f, o)
        BY <3>1 DEF InFile
      <3> QED
        BY <1>7, <2>1, <2>3, <3>2 DEF Part
    <2> QED
      BY <2>2, <2>3
  <1>11. ASSUME NEW i \in LoadHeaders(f), Program[f].phdr[i] # header,
                NEW o \in Units(Program[f].phdr[i].paddr, Program[f].phdr[i].memsz)
         PROVE  memory'[b + o] = memory[b + o]
    <2>1. Program[f].phdr[i] \in Segments(f)
      BY <1>1, HeaderType
    <2>2. Units(header.paddr, header.memsz)
            \cap Units(Program[f].phdr[i].paddr, Program[f].phdr[i].memsz) = {}
      BY <1>1, <1>2, <1>11, <2>1, LinkerAssumption
    <2>3. o \notin Units(p, m)
      BY <1>4, <2>2
    <2>4. o \in Nat /\ b + o \in Unit
      BY <1>1, <1>3, Offsets
    <2>5. b + o \notin Units(b + p, m)
      BY <1>4, <2>3, <2>4 DEF Units
    <2> QED
      BY <1>7, <2>4, <2>5
  <1> QED
    BY <1>3, <1>4, <1>8, <1>9, <1>10, <1>11

LEMMA ReadSegmentKeeps ==
  ASSUME IInv, ReadSegment
  PROVE  IInv'
  <1>1. at = "segment" /\ at # "idle"
    BY DEF ReadSegment
  <1>2. /\ load \in Loading /\ load.file \in File /\ load.slot \in Slot /\ load.whole \in BOOLEAN
        /\ load.progIndex \in Nat /\ load.pt_load_seen \in Nat /\ task_base \in Nat
        /\ phdr = Program[load.file].phdr
    BY <1>1, LoadOf
  <1> DEFINE f == load.file
             k == load.progIndex + 1
             b == task_base
  <1>3. CASE Fail /\ \E n \in 0..header.filesz :
               memory' = Write(Units(task_base + header.paddr, n),
                               LAMBDA u : [file |-> load.file, off |-> u - task_base, base |-> 0])
    <2>1. PICK n \in 0..header.filesz :
               memory' = [u \in Unit |-> IF u \in Units(task_base + header.paddr, n)
                            THEN [file |-> load.file, off |-> u - task_base, base |-> 0]
                            ELSE memory[u]]
      BY <1>3 DEF Write
    <2>2. KeepsOthers /\ memory' \in [Unit -> Content]
      BY <1>1, <2>1, SegmentCutShort
    <2> QED
      BY <1>1, <1>3, <2>2, FailKeeps
  <1>4. CASE /\ memory' = [u \in Unit |-> IF u \in Units(task_base + header.paddr, header.memsz)
                              THEN IF u < task_base + header.paddr + header.filesz
                                   THEN [file |-> load.file, off |-> u - task_base, base |-> 0]
                                   ELSE ZERO
                              ELSE memory[u]]
             /\ at' = IF load.pt_load_seen = 1 THEN "got" ELSE "program header"
             /\ load' = [load EXCEPT !.progIndex = @ + 1, !.pt_load_seen = @ + 1]
             /\ UNCHANGED <<slot_in_use, task_pool>>
    <2>1. /\ load'.file = f /\ load'.slot = load.slot /\ load'.whole = load.whole
          /\ load'.pt_load_seen = load.pt_load_seen + 1 /\ load'.progIndex = k
          /\ load' \in Loading
      <3>1. load' = [file |-> f, slot |-> load.slot, progIndex |-> k,
                     pt_load_seen |-> load.pt_load_seen + 1, whole |-> load.whole]
        BY <1>2, <1>4 DEF Loading
      <3>2. k \in Nat /\ load.pt_load_seen + 1 \in Nat
        BY <1>2
      <3> HIDE DEF k, f
      <3> QED
        BY <1>2, <3>1, <3>2 DEF Loading, f
    <2>2. /\ KeepsOthers /\ memory' \in [Unit -> Content]
          /\ \A o \in Units(header.paddr, header.memsz) : memory'[b + o] = Part(f, b, {}, o)
          /\ \A i \in LoadHeaders(f) : Program[f].phdr[i] # header =>
               \A o \in Units(Program[f].phdr[i].paddr, Program[f].phdr[i].memsz) :
                  memory'[b + o] = memory[b + o]
      BY <1>1, <1>4, SegmentRead
    <2>3. at' \in {"program header", "got"} /\ (at' = "got" <=> load.pt_load_seen = 1)
      BY <1>4
    <2>4. TypeOK' /\ SlotsAccounted' /\ Intact'
      BY <1>1, <1>4, <2>1, <2>2, <2>3, GoOnKeeps
    <2>5. phdr' = Program[f].phdr /\ task_base' = b
      BY <2>1 DEF phdr, task_base
    <2>6. k \in LoadHeaders(f) /\ header = Program[f].phdr[k]
      BY <1>1, HeaderOf
    <2>7. \A i \in LoadHeaders(f) : i \in Nat /\ (i <= k <=> i <= load.progIndex \/ i = k)
      <3>1. \A i \in LoadHeaders(f) : i \in Nat
        BY <1>2, HeaderType
      <3> QED
        BY <1>2, <3>1
    <2>8. Place'
      <3>1. k \in 1..Len(Program[f].phdr)
        BY <1>2, <2>6, HeaderType
      <3>2. k <= Len(phdr')
        BY <2>5, <3>1
      <3>3. at' = "got" => load'.pt_load_seen = 2
        BY <2>1, <2>3
      <3> QED
        BY <2>1, <2>3, <3>2, <3>3 DEF Place
    <2>9. Counted'
      <3>1. load.pt_load_seen >= 1 => \E j \in LoadHeaders(f) : j <= load.progIndex
        BY <1>1 DEF IInv, Counted
      <3>2. k <= k /\ (\A j \in Nat : j <= load.progIndex => j < k)
        BY <1>2
      <3>3. load.pt_load_seen + 1 >= 2 => load.pt_load_seen >= 1
        BY <1>2
      <3> QED
        BY <2>1, <2>6, <2>7, <3>1, <3>2, <3>3 DEF Counted
    <2>10. load.pt_load_seen + 1 <= 2 =>
             /\ load.whole
             /\ \A i \in LoadHeaders(f) : i <= k =>
                  \A o \in Units(Program[f].phdr[i].paddr, Program[f].phdr[i].memsz) :
                     memory'[b + o] = Part(f, b, {}, o)
      <3> SUFFICES ASSUME load.pt_load_seen + 1 <= 2
                   PROVE  /\ load.whole
                          /\ \A i \in LoadHeaders(f) : i <= k =>
                               \A o \in Units(Program[f].phdr[i].paddr, Program[f].phdr[i].memsz) :
                                 memory'[b + o] = Part(f, b, {}, o)
        OBVIOUS
      <3>1. load.pt_load_seen < 2 /\ load.pt_load_seen <= 2
        BY <1>2
      <3>2. load.whole
        BY <1>1, <3>1 DEF IInv, Patchable
      <3>3. Moved = {}
        BY <3>1 DEF Moved
      <3>4. \A i \in LoadHeaders(f) : i <= load.progIndex =>
              \A o \in Units(Program[f].phdr[i].paddr, Program[f].phdr[i].memsz) :
                 memory[b + o] = Part(f, b, {}, o)
        BY <1>1, <1>2, <3>1, <3>2, <3>3 DEF IInv, PartLoaded
      <3> QED
        BY <2>2, <2>6, <2>7, <3>2, <3>4
    <2>11. load'.pt_load_seen <= 2 => Moved' = {}
      <3>1. load.pt_load_seen + 1 <= 2 => load.pt_load_seen + 1 < 2 \/ load.pt_load_seen = 1
        BY <1>2
      <3> QED
        BY <2>1, <2>3, <3>1 DEF Moved
    <2>12. PartLoaded'
      BY <2>1, <2>3, <2>5, <2>10, <2>11 DEF PartLoaded
    <2>13. Patchable'
      <3>1. load'.pt_load_seen < 2 \/ at' = "got" => load'.whole
        <4>1. load.pt_load_seen + 1 < 2 \/ load.pt_load_seen = 1 => load.pt_load_seen + 1 <= 2
          BY <1>2
        <4> QED
          BY <2>1, <2>3, <2>10, <4>1
      <3>2. ASSUME at' = "got", NEW o \in Program[f].got \cup Program[f].rela
            PROVE  memory'[b + o] \in Image
        <4>1. PICK i \in LoadHeaders(f) :
                 /\ o \in Units(Program[f].phdr[i].paddr, Program[f].phdr[i].memsz)
                 /\ \A j, l \in LoadHeaders(f) : j < l => i <= l
          BY <1>2, PatchedOffsets
        <4>2. InFile(f, o) /\ o \in Nat
          BY <1>2, PatchedOffsets
        <4>3. load.pt_load_seen = 1
          BY <2>3, <3>2
        <4>4. PICK j, l \in LoadHeaders(f) : j < l /\ l <= k
          BY <2>1, <2>3, <2>9, <4>3 DEF Counted
        <4>5. i <= k
          <5>1. i <= l /\ i \in Nat /\ l \in Nat /\ k \in Nat
            BY <1>2, <2>7, <4>1, <4>4
          <5> QED
            BY <4>4, <5>1
        <4>6. memory'[b + o] = Part(f, b, {}, o)
          BY <2>10, <4>1, <4>3, <4>5
        <4> QED
          BY <1>2, <4>2, <4>6 DEF Part, Image
      <3> QED
        BY <2>1, <2>3, <2>5, <3>1, <3>2 DEF Patchable
    <2> QED
      BY <2>4, <2>8, <2>9, <2>12, <2>13 DEF IInv
  <1> QED
    BY <1>3, <1>4 DEF ReadSegment, Write

(* The base added to the pointers at D: they move, and nothing else does. *)
LEMMA PatchMoves ==
  ASSUME IInv, at \in {"got", "rela"},
         NEW D, D \subseteq Program[load.file].got \cup Program[load.file].rela,
         memory' = [u \in Unit |-> IF u \in {task_base + o : o \in D} THEN AddBase(u) ELSE memory[u]]
  PROVE  /\ KeepsOthers /\ memory' \in [Unit -> Content]
         /\ \A o \in Program[load.file].got \cup Program[load.file].rela :
               memory'[task_base + o] \in Image
         /\ \A M, o : /\ D \cap M = {} /\ o \in Nat /\ task_base + o \in Unit
                      /\ memory[task_base + o] = Part(load.file, task_base, M, o)
                      => memory'[task_base + o] = Part(load.file, task_base, M \cup D, o)
  <1>1. /\ load.file \in File /\ load.slot \in Slot
        /\ task_base = Slots_BaseAddr(load.slot) /\ memory \in [Unit -> Content]
    BY LoadOf
  <1>2. PICK b \in Nat : b = task_base
    BY LoadOf
  <1>3. PICK f \in File : f = load.file
    BY <1>1
  <1> DEFINE G == Program[f].got \cup Program[f].rela
  <1>4. \A o \in G : /\ o \in Nat /\ InFile(f, o) /\ b + o \in Unit /\ b + o \in SlotUnits(load.slot)
                     /\ memory[b + o] \in Image
    <2> SUFFICES ASSUME NEW o \in G
                 PROVE  /\ o \in Nat /\ InFile(f, o) /\ b + o \in Unit
                        /\ b + o \in SlotUnits(load.slot) /\ memory[b + o] \in Image
      OBVIOUS
    <2>1. o \in Nat /\ InFile(f, o)
      BY PatchedOffsets
    <2>2. PICK i \in LoadHeaders(f) : o \in Units(Program[f].phdr[i].paddr, Program[f].phdr[i].memsz)
      BY PatchedOffsets
    <2>3. b + o \in Unit /\ b + o \in SlotUnits(load.slot)
      BY <1>1, <1>2, <2>2, Offsets
    <2>4. memory[b + o] \in Image
      BY <1>2, <1>3 DEF IInv, Patchable
    <2> QED
      BY <2>1, <2>3, <2>4
  <1>5. \A u \in Unit : memory[u] \in Image => /\ AddBase(u) \in Image
                                               /\ AddBase(u) = [file |-> memory[u].file, off |-> memory[u].off,
                                                                base |-> memory[u].base + b]
    <2> SUFFICES ASSUME NEW u \in Unit, memory[u] \in Image
                 PROVE  /\ AddBase(u) \in Image
                        /\ AddBase(u) = [file |-> memory[u].file, off |-> memory[u].off,
                                         base |-> memory[u].base + b]
      OBVIOUS
    <2>1. PICK r \in Image : r = memory[u]
      OBVIOUS
    <2>2. AddBase(u) = [r EXCEPT !.base = r.base + b]
      BY <1>2, <2>1 DEF AddBase
    <2>3. [r EXCEPT !.base = r.base + b] = [file |-> r.file, off |-> r.off, base |-> r.base + b]
      BY DEF Image
    <2>4. r.file \in File /\ r.off \in Nat /\ r.base + b \in Nat
      BY DEF Image
    <2> QED
      BY <2>1, <2>2, <2>3, <2>4 DEF Image
  <1>6. \A o \in D : memory'[b + o] = AddBase(b + o)
    BY <1>2, <1>3, <1>4
  <1>7. \A o \in Nat : o \notin D /\ b + o \in Unit => memory'[b + o] = memory[b + o]
    <2> SUFFICES ASSUME NEW o \in Nat, o \notin D, b + o \in Unit
                 PROVE  memory'[b + o] = memory[b + o]
      OBVIOUS
    <2>1. \A q \in D : q \in Nat
      BY <1>3, <1>4
    <2>2. \A q \in D : b + q # b + o
      BY <2>1
    <2>3. b + o \notin {task_base + q : q \in D}
      BY <1>2, <2>2
    <2> QED
      BY <2>3
  <1>8. KeepsOthers
    BY <1>2, <1>3, <1>4 DEF KeepsOthers
  <1>9. memory' \in [Unit -> Content]
    <2>1. \A u \in Unit : u \in {task_base + o : o \in D} => AddBase(u) \in Content
      BY <1>2, <1>3, <1>4, <1>5 DEF Content
    <2> QED
      BY <1>1, <2>1
  <1>10. \A o \in G : memory'[b + o] \in Image
    <2> SUFFICES ASSUME NEW o \in G
                 PROVE  memory'[b + o] \in Image
      OBVIOUS
    <2>1. CASE o \in D
      BY <1>4, <1>5, <1>6, <2>1
    <2>2. CASE o \notin D
      BY <1>4, <1>7, <2>2
    <2> QED
      BY <2>1, <2>2
  <1>11. ASSUME NEW M, NEW o, D \cap M = {}, o \in Nat, b + o \in Unit,
                memory[b + o] = Part(f, b, M, o)
         PROVE  memory'[b + o] = Part(f, b, M \cup D, o)
    <2>1. CASE o \notin D
      BY <1>7, <1>11, <2>1 DEF Part
    <2>2. CASE o \in D
      <3>1. InFile(f, o) /\ o \notin M /\ memory[b + o] \in Image
        BY <1>3, <1>4, <1>11, <2>2
      <3>2. memory[b + o] = [file |-> f, off |-> o, base |-> 0]
        BY <1>11, <3>1 DEF Part
      <3>3. memory'[b + o] = [file |-> f, off |-> o, base |-> 0 + b]
        BY <1>5, <1>6, <1>11, <2>2, <3>1, <3>2
      <3>4. Part(f, b, M \cup D, o) = [file |-> f, off |-> o, base |-> b]
        BY <2>2, <3>1 DEF Part
      <3> QED
        BY <3>3, <3>4
    <2> QED
      BY <2>1, <2>2
  <1> QED
    BY <1>2, <1>3, <1>8, <1>9, <1>10, <1>11

(* The patch of the .got goes from its first to its last unit. *)
LEMMA GotRange ==
  ASSUME NEW f \in File, NEW found \in (SUBSET Program[f].got) \ {{}}
  PROVE  /\ Min(found) \in Nat /\ Max(found) \in Nat
         /\ Min(found)..Max(found) \subseteq Program[f].got
         /\ found = Program[f].got => Min(found)..Max(found) = Program[f].got
  <1>1. found \subseteq Program[f].got /\ found # {}
    OBVIOUS
  <1>2. SLOT_SIZE \in Nat /\ \A o \in found : o \in Nat /\ o <= SLOT_SIZE
    <2>1. SLOT_SIZE \in Nat
      BY LoaderAssumption
    <2>2. ASSUME NEW o \in found
          PROVE  o \in Nat /\ o <= SLOT_SIZE
      <3>1. PICK i \in LoadHeaders(f) :
               o \in Units(Program[f].phdr[i].paddr, Program[f].phdr[i].memsz)
        BY <1>1, PatchedOffsets
      <3> QED
        BY <2>1, <3>1, HeaderType DEF Units
    <2> QED
      BY <2>1, <2>2
  <1>3. PICK a \in found : \A y \in found : a <= y
    BY <1>1, <1>2, LeastElement
  <1>4. PICK z \in found : \A y \in found : z >= y
    <2> DEFINE S == {SLOT_SIZE - o : o \in found}
    <2>1. S \subseteq Nat /\ S # {}
      BY <1>1, <1>2
    <2>2. PICK d \in S : \A y \in S : d <= y
      BY <2>1, LeastElement
    <2>3. PICK o \in found : d = SLOT_SIZE - o
      OBVIOUS
    <2>4. \A y \in found : SLOT_SIZE - o <= SLOT_SIZE - y
      BY <2>2, <2>3
    <2> QED
      BY <1>2, <2>4
  <1>5. Min(found) \in found /\ \A y \in found : Min(found) <= y
    BY <1>3 DEF Min
  <1>6. Max(found) \in found /\ \A y \in found : Max(found) >= y
    BY <1>4 DEF Max
  <1>7. Min(found)..Max(found) \subseteq Program[f].got
    BY <1>1, <1>5, <1>6, LinkerAssumption
  <1>8. \A y \in found : y \in Min(found)..Max(found)
    BY <1>2, <1>5, <1>6
  <1> QED
    BY <1>2, <1>5, <1>6, <1>7, <1>8

LEMMA SecondRead ==
  ASSUME IInv, at \in {"got", "rela"}
  PROVE  ~(load.pt_load_seen < 2) /\ load.pt_load_seen <= 2
  <1>1. load.pt_load_seen = 2
    BY DEF IInv, Place
  <1> QED
    BY <1>1

LEMMA GotUnits ==
  ASSUME NEW found, Min(found) \in Nat, Max(found) \in Nat, task_base \in Nat
  PROVE  find_got_section(found) = {task_base + o : o \in Min(found)..Max(found)}
  <1>1. \A b, m, n \in Nat : Units(b + m, n - m + 1) = {b + o : o \in m..n}
    <2> SUFFICES ASSUME NEW b \in Nat, NEW m \in Nat, NEW n \in Nat
                 PROVE  Units(b + m, n - m + 1) = {b + o : o \in m..n}
      OBVIOUS
    <2>1. \A o \in m..n : b + o \in Units(b + m, n - m + 1)
      BY DEF Units
    <2>2. \A u \in Units(b + m, n - m + 1) : u - b \in m..n /\ u = b + (u - b)
      BY DEF Units
    <2> QED
      BY <2>1, <2>2
  <1> QED
    BY <1>1 DEF find_got_section

(* What the two patches have in common: D is what they add the base to, M  *)
(* what had it before, next the place they go on to.                       *)
LEMMA PatchKeeps ==
  ASSUME IInv, at \in {"got", "rela"},
         NEW D, D \subseteq Program[load.file].got \cup Program[load.file].rela,
         D \cap Moved = {},
         memory' = [u \in Unit |-> IF u \in {task_base + o : o \in D} THEN AddBase(u) ELSE memory[u]],
         NEW all \in BOOLEAN, load' = [load EXCEPT !.whole = load.whole /\ all],
         at' \in {"program header", "rela"}, all => Moved' = Moved \cup D,
         UNCHANGED <<slot_in_use, task_pool>>
  PROVE  IInv'
  <1>1. at # "idle"
    OBVIOUS
  <1>2. /\ load \in Loading /\ load.file \in File /\ load.slot \in Slot /\ load.whole \in BOOLEAN
        /\ task_base = Slots_BaseAddr(load.slot) /\ phdr = Program[load.file].phdr
    BY <1>1, LoadOf
  <1>3. /\ load'.file = load.file /\ load'.slot = load.slot
        /\ load'.pt_load_seen = load.pt_load_seen /\ load'.progIndex = load.progIndex
    BY <1>2 DEF Loading
  <1>4. load' \in Loading /\ (load'.whole <=> load.whole /\ all)
    <2>1. (load.whole /\ all) \in BOOLEAN
      OBVIOUS
    <2>2. PICK w \in BOOLEAN : w = (load.whole /\ all)
      BY <2>1
    <2>3. load' = [load EXCEPT !.whole = w]
      BY <2>2
    <2>4. load' \in Loading /\ load'.whole = w
      BY <1>2, <2>3 DEF Loading
    <2> QED
      BY <2>2, <2>4
  <1>5. load.pt_load_seen = 2 /\ load.progIndex <= Len(phdr)
    BY <1>1 DEF IInv, Place
  <1>a. ~(load.pt_load_seen < 2) /\ load.pt_load_seen <= 2
    BY SecondRead
  <1>b. at' # "got" /\ at' # "idle"
    OBVIOUS
  <1>6. /\ KeepsOthers /\ memory' \in [Unit -> Content]
        /\ \A o \in Program[load.file].got \cup Program[load.file].rela :
              memory'[task_base + o] \in Image
        /\ \A M, o : /\ D \cap M = {} /\ o \in Nat /\ task_base + o \in Unit
                     /\ memory[task_base + o] = Part(load.file, task_base, M, o)
                     => memory'[task_base + o] = Part(load.file, task_base, M \cup D, o)
    BY PatchMoves
  <1>7. TypeOK' /\ SlotsAccounted' /\ Intact'
    BY <1>1, <1>3, <1>4, <1>6, GoOnKeeps
  <1>8. phdr' = phdr /\ task_base' = task_base
    BY <1>3 DEF phdr, task_base
  <1>9. Place'
    BY <1>3, <1>4, <1>5, <1>8 DEF Place
  <1>10. Counted'
    BY <1>1, <1>3 DEF IInv, Counted
  <1>11. Patchable'
    BY <1>3, <1>a, <1>b, <1>6, <1>8 DEF Patchable
  <1>12. PartLoaded'
    <2> SUFFICES ASSUME load'.whole, NEW i \in LoadHeaders(load.file), i <= load.progIndex,
                        NEW o \in Units(Program[load.file].phdr[i].paddr, Program[load.file].phdr[i].memsz)
                 PROVE  memory'[task_base + o] = Part(load.file, task_base, Moved', o)
      <3>1. phdr' = Program[load.file].phdr /\ task_base' = task_base
        BY <1>2, <1>8
      <3> QED
        BY <1>3, <3>1 DEF PartLoaded
    <2>1. load.whole /\ all
      BY <1>4
    <2>2. memory[task_base + o] = Part(load.file, task_base, Moved, o)
      BY <1>1, <1>2, <1>a, <2>1 DEF IInv, PartLoaded
    <2>3. o \in Nat /\ task_base + o \in Unit
      BY <1>2, Offsets
    <2>4. memory'[task_base + o] = Part(load.file, task_base, Moved \cup D, o)
      BY <1>6, <2>2, <2>3
    <2> QED
      BY <2>1, <2>4
  <1> QED
    BY <1>7, <1>9, <1>10, <1>11, <1>12 DEF IInv

LEMMA PatchGotKeeps ==
  ASSUME IInv, PatchGot
  PROVE  IInv'
  <1>1. at = "got" /\ at # "idle"
    BY DEF PatchGot
  <1>3. CASE Fail /\ UNCHANGED memory
    <2>1. KeepsOthers /\ memory' \in [Unit -> Content]
      BY <1>1, <1>3, LoadOf DEF KeepsOthers
    <2> QED
      BY <1>1, <1>3, <2>1, FailKeeps
  <1>4. CASE \E found \in (SUBSET Program[load.file].got) \ {{}} :
               /\ memory' = Write(find_got_section(found), AddBase)
               /\ load' = [load EXCEPT !.whole = @ /\ found = Program[load.file].got]
               /\ at' = "rela"
               /\ UNCHANGED <<slot_in_use, task_pool>>
    <2>1. PICK found \in (SUBSET Program[load.file].got) \ {{}} :
               /\ memory' = [u \in Unit |-> IF u \in find_got_section(found) THEN AddBase(u) ELSE memory[u]]
               /\ load' = [load EXCEPT !.whole = load.whole /\ (found = Program[load.file].got)]
               /\ at' = "rela"
               /\ UNCHANGED <<slot_in_use, task_pool>>
      BY <1>4 DEF Write
    <2>2. load.file \in File /\ load \in Loading /\ task_base \in Nat
      BY <1>1, LoadOf
    <2> DEFINE D == Min(found)..Max(found)
               all == found = Program[load.file].got
    <2>3. /\ Min(found) \in Nat /\ Max(found) \in Nat /\ D \subseteq Program[load.file].got
          /\ all => D = Program[load.file].got
      BY <2>2, GotRange
    <2>4. find_got_section(found) = {task_base + o : o \in D}
      BY <2>2, <2>3, GotUnits
    <2>5. Moved = {}
      BY <1>1 DEF Moved
    <2>6. load'.file = load.file /\ load'.pt_load_seen = load.pt_load_seen
      BY <2>1, <2>2 DEF Loading
    <2>7. load.pt_load_seen = 2
      BY <1>1 DEF IInv, Place
    <2>8. all => Moved' = Moved \cup D
      BY <2>1, <2>3, <2>5, <2>6, <2>7 DEF Moved
    <2>9. all \in BOOLEAN
      OBVIOUS
    <2>10. D \subseteq Program[load.file].got \cup Program[load.file].rela /\ D \cap Moved = {}
      BY <2>3, <2>5
    <2>11. memory' = [u \in Unit |-> IF u \in {task_base + o : o \in D} THEN AddBase(u) ELSE memory[u]]
      BY <2>1, <2>4
    <2>12. load' = [load EXCEPT !.whole = load.whole /\ all] /\ at' \in {"program header", "rela"}
      BY <2>1
    <2> HIDE DEF D, all
    <2> QED
      BY <1>1, <2>1, <2>8, <2>9, <2>10, <2>11, <2>12, PatchKeeps
  <1> QED
    BY <1>3, <1>4 DEF PatchGot

LEMMA RelocationsKeep ==
  ASSUME IInv, apply_data_relocations
  PROVE  IInv'
  <1>1. at = "rela" /\ at # "idle" /\ at' = "program header" /\ UNCHANGED <<slot_in_use, task_pool>>
    BY DEF apply_data_relocations
  <1>2. PICK done \in SUBSET Program[load.file].rela :
          /\ memory' = [u \in Unit |-> IF u \in {task_base + o : o \in done} THEN AddBase(u) ELSE memory[u]]
          /\ load' = [load EXCEPT !.whole = load.whole /\ (done = Program[load.file].rela)]
    BY DEF apply_data_relocations, Write
  <1> DEFINE all == done = Program[load.file].rela
  <1>3. load.file \in File /\ load \in Loading
    BY <1>1, LoadOf
  <1>4. load.pt_load_seen = 2
    BY <1>1 DEF IInv, Place
  <1>a. ~(load.pt_load_seen < 2)
    BY <1>4
  <1>5. Moved = Program[load.file].got
    BY <1>1, <1>a DEF Moved
  <1>6. load'.file = load.file /\ load'.pt_load_seen = load.pt_load_seen
    BY <1>2, <1>3 DEF Loading
  <1>7. all => Moved' = Moved \cup done
    BY <1>1, <1>a, <1>5, <1>6 DEF Moved
  <1>8. done \subseteq Program[load.file].got \cup Program[load.file].rela /\ done \cap Moved = {}
    BY <1>3, <1>5, LinkerAssumption
  <1>9. all \in BOOLEAN
    OBVIOUS
  <1>10. load' = [load EXCEPT !.whole = load.whole /\ all] /\ at' \in {"program header", "rela"}
    BY <1>1, <1>2
  <1> HIDE DEF all
  <1> QED
    BY <1>1, <1>2, <1>7, <1>8, <1>9, <1>10, PatchKeeps

(* The frame at the top of the slot, and one task more, whose program is   *)
(* the one that the load leaves.                                           *)
LEMMA CreateTaskKeeps ==
  ASSUME IInv, CreateTask
  PROVE  IInv'
  <1>1. at = "program header" /\ at # "idle" /\ load.progIndex = Len(phdr)
    BY DEF CreateTask
  <1>2. /\ load \in Loading /\ load.file \in File /\ load.slot \in Slot /\ load.whole \in BOOLEAN
        /\ task_base = Slots_BaseAddr(load.slot) /\ task_base \in Nat
        /\ phdr = Program[load.file].phdr /\ memory \in [Unit -> Content]
        /\ load.slot \in slot_in_use
    BY <1>1, LoadOf
  <1>3. CASE Fail /\ UNCHANGED memory
    <2>1. KeepsOthers /\ memory' \in [Unit -> Content]
      BY <1>2, <1>3 DEF KeepsOthers
    <2> QED
      BY <1>1, <1>3, <2>1, FailKeeps
  <1>4. CASE /\ load.pt_load_seen = 2
             /\ Len(task_pool) < OS_MAX_TASKS
             /\ task_pool' = Append(task_pool, [slot |-> load.slot, file |-> load.file,
                                                whole |-> load.whole])
             /\ memory' = Write({task_base + SLOT_SIZE - 1}, LAMBDA u : FRAME)
             /\ Return
             /\ UNCHANGED slot_in_use
    <2> DEFINE n == Len(task_pool) + 1
               new == [slot |-> load.slot, file |-> load.file, whole |-> load.whole]
               top == task_base + SLOT_SIZE - 1
    <2>1. at' = "idle" /\ load' = NoLoad /\ slot_in_use' = slot_in_use
      BY <1>4 DEF Return
    <2>2. memory' = [u \in Unit |-> IF u \in {top} THEN FRAME ELSE memory[u]]
      BY <1>4 DEF Write
    <2>3. task_pool \in Seq(Task) /\ Len(task_pool) \in Nat
      BY DEF IInv, TypeOK
    <2>4. new \in Task
      BY <1>2 DEF Task
    <2>5. /\ task_pool' \in Seq(Task) /\ Len(task_pool') = n /\ task_pool'[n] = new
          /\ \A i \in 1..Len(task_pool) : task_pool'[i] = task_pool[i]
          /\ DOMAIN task_pool' = 1..Len(task_pool) \cup {n} /\ DOMAIN task_pool = 1..Len(task_pool)
          /\ n \notin DOMAIN task_pool
      <3> HIDE DEF new
      <3>1. task_pool' = Append(task_pool, new)
        BY <1>4 DEF new
      <3> QED
        BY <2>3, <2>4, <3>1
    <2>6. Programs' = Programs \cup {n}
      <3>1. new.slot # NONE
        BY <1>2, LoaderAssumption
      <3> HIDE DEF new, n
      <3> QED
        BY <2>5, <3>1 DEF Programs
    <2>7. \A i \in Programs : i # n /\ task_pool'[i] = task_pool[i]
      <3> HIDE DEF n
      <3> QED
        BY <2>5 DEF Programs
    <2>8. top \in SlotUnits(load.slot) /\ top \in Unit
      <3>1. SLOT_SIZE \in Nat \ {0}
        BY LoaderAssumption
      <3>2. top \in SlotUnits(load.slot)
        BY <1>2, <3>1 DEF SlotUnits, Units
      <3> QED
        BY <1>2, <3>2, SlotInMemory
    <2>9. memory'[top] = FRAME /\ \A u \in Unit : u # top => memory'[u] = memory[u]
      <3> HIDE DEF top
      <3> QED
        BY <2>2, <2>8
    <2>10. memory' \in [Unit -> Content]
      <3> HIDE DEF top
      <3> QED
        BY <1>2, <2>2 DEF Content
    <2>11. TypeOK'
      <3>1. Len(task_pool') <= OS_MAX_TASKS
        BY <1>4, <2>3, <2>5, LoaderAssumption
      <3> QED
        BY <2>1, <2>5, <2>10, <3>1 DEF IInv, TypeOK
    <2>12. SlotsAccounted'
      <3>1. /\ slot_in_use = {task_pool[i].slot : i \in Programs} \cup {load.slot}
            /\ \A i, j \in Programs : task_pool[i].slot = task_pool[j].slot => i = j
            /\ \A i \in Programs : task_pool[i].slot # load.slot
        BY <1>1 DEF IInv, SlotsAccounted
      <3>2. task_pool'[n].slot = load.slot
        BY <2>5
      <3> HIDE DEF n, new, top
      <3>3. {task_pool'[i].slot : i \in Programs'} = {task_pool[i].slot : i \in Programs} \cup {load.slot}
        BY <2>6, <2>7, <3>2
      <3>4. \A i, j \in Programs' : task_pool'[i].slot = task_pool'[j].slot => i = j
        BY <2>6, <2>7, <3>1, <3>2
      <3>5. slot_in_use' = {task_pool'[i].slot : i \in Programs'} \cup {} /\ at' = "idle"
        BY <2>1, <3>1, <3>3
      <3> QED
        BY <3>4, <3>5 DEF SlotsAccounted
    <2>13. ASSUME SlotsApart(Heap), NEW i \in Programs'
           PROVE  ImageOf(memory', task_pool'[i])
      <3>1. CASE i = n
        <4>1. task_pool'[i] = new /\ new.slot = load.slot /\ new.file = load.file /\ new.whole = load.whole
          BY <2>5, <3>1
        <4>2. memory'[task_base + SLOT_SIZE - 1] = FRAME
          BY <2>9
        <4>3. ASSUME load.whole, NEW s \in Segments(load.file), NEW o \in Units(s.paddr, s.memsz)
              PROVE  memory'[task_base + o] = Expected(load.file, task_base, o)
          <5>1. PICK k \in LoadHeaders(load.file) : s = Program[load.file].phdr[k]
            BY DEF Segments
          <5>2. k <= load.progIndex
            <6>1. k \in 1..Len(Program[load.file].phdr)
              BY <1>2, HeaderType
            <6>2. load.progIndex = Len(Program[load.file].phdr)
              BY <1>1, <1>2
            <6> QED
              BY <6>1, <6>2
          <5>3. Moved = Program[load.file].got \cup Program[load.file].rela
            <6>1. ~(load.pt_load_seen < 2)
              BY <1>4
            <6> QED
              BY <1>1, <6>1 DEF Moved
          <5>4. memory[task_base + o] = Part(load.file, task_base, Moved, o)
            <6>1. load.pt_load_seen <= 2
              BY <1>4
            <6> QED
              BY <1>1, <1>2, <4>3, <5>1, <5>2, <6>1 DEF IInv, PartLoaded
          <5>5. task_base + o \in Unit /\ task_base + o # top
            BY <1>2, <5>1, Offsets
          <5>6. Part(load.file, task_base, Moved, o) = Expected(load.file, task_base, o)
            BY <5>3 DEF Part, Expected, InFile
          <5> HIDE DEF top
          <5> QED
            BY <2>9, <5>4, <5>5, <5>6
        <4> HIDE DEF new, n, top
        <4> QED
          BY <1>2, <4>1, <4>2, <4>3 DEF ImageOf
      <3>2. CASE i \in Programs
        <4>1. /\ task_pool[i].slot \in Slot /\ task_pool[i].file \in File
              /\ task_pool[i].slot # load.slot
          BY <1>1, <3>2, TaskOf
        <4>2. SlotUnits(task_pool[i].slot) \cap SlotUnits(load.slot) = {}
          BY <1>2, <4>1, SlotsLieApart
        <4>3. \A u \in SlotUnits(task_pool[i].slot) : memory'[u] = memory[u]
          <5> HIDE DEF top
          <5> QED
            BY <2>8, <2>9, <4>1, <4>2, SlotInMemory
        <4>4. ImageOf(memory, task_pool[i])
          BY <2>13, <3>2 DEF IInv, Intact
        <4>5. ImageOf(memory', task_pool[i])
          BY <4>1, <4>3, <4>4, ImageStays
        <4> QED
          BY <2>7, <3>2, <4>5
      <3> QED
        BY <2>6, <3>1, <3>2
    <2>14. Intact'
      <3> HIDE DEF n, new, top
      <3> QED
        BY <2>13 DEF Intact
    <2>15. Place' /\ Counted' /\ PartLoaded' /\ Patchable'
      BY <2>1 DEF Place, Counted, PartLoaded, Patchable
    <2> QED
      BY <2>11, <2>12, <2>14, <2>15 DEF IInv
  <1> QED
    BY <1>3, <1>4 DEF CreateTask

-----------------------------------------------------------------------------
(* What else goes on.                                                      *)

LEMMA TaskCreateKeeps ==
  ASSUME IInv, OS_TaskCreate
  PROVE  IInv'
  <1> DEFINE new == [slot |-> NONE, file |-> NONE, whole |-> TRUE]
             n == Len(task_pool) + 1
  <1>1. /\ at = "idle" /\ Len(task_pool) < OS_MAX_TASKS /\ task_pool' = Append(task_pool, new)
        /\ memory' = memory /\ slot_in_use' = slot_in_use /\ load' = load /\ at' = at
    BY DEF OS_TaskCreate
  <1>2. task_pool \in Seq(Task) /\ Len(task_pool) \in Nat /\ new \in Task
    BY DEF IInv, TypeOK, Task
  <1>3. /\ task_pool' \in Seq(Task) /\ Len(task_pool') = n /\ task_pool'[n] = new
        /\ \A i \in 1..Len(task_pool) : task_pool'[i] = task_pool[i]
        /\ DOMAIN task_pool' = 1..Len(task_pool) \cup {n} /\ DOMAIN task_pool = 1..Len(task_pool)
    <2> HIDE DEF new
    <2> QED
      BY <1>1, <1>2
  <1>4. Programs' = Programs /\ \A i \in Programs : task_pool'[i] = task_pool[i]
    <2>1. new.slot = NONE
      OBVIOUS
    <2> HIDE DEF new, n
    <2> QED
      BY <1>3, <2>1 DEF Programs
  <1>5. TypeOK'
    <2>1. Len(task_pool') <= OS_MAX_TASKS
      BY <1>1, <1>2, <1>3, LoaderAssumption
    <2> QED
      BY <1>1, <1>3, <2>1 DEF IInv, TypeOK
  <1>6. SlotsAccounted'
    <2> HIDE DEF new, n
    <2>1. /\ slot_in_use = {task_pool[i].slot : i \in Programs} \cup {}
          /\ \A i, j \in Programs : task_pool[i].slot = task_pool[j].slot => i = j
      BY <1>1 DEF IInv, SlotsAccounted
    <2>2. {task_pool'[i].slot : i \in Programs'} = {task_pool[i].slot : i \in Programs}
      BY <1>4
    <2>3. slot_in_use' = {task_pool'[i].slot : i \in Programs'} \cup {} /\ at' = "idle"
      BY <1>1, <2>1, <2>2
    <2>4. \A i, j \in Programs' : task_pool'[i].slot = task_pool'[j].slot => i = j
      BY <1>4, <2>1
    <2> QED
      BY <2>3, <2>4 DEF SlotsAccounted
  <1>7. Intact'
    <2> HIDE DEF new, n
    <2> QED
      BY <1>1, <1>4 DEF IInv, Intact
  <1>8. Place' /\ Counted' /\ PartLoaded' /\ Patchable'
    BY <1>1 DEF Place, Counted, PartLoaded, Patchable
  <1> QED
    BY <1>5, <1>6, <1>7, <1>8 DEF IInv

(* The heap is written to. *)
LEMMA HeapUseKeeps ==
  ASSUME IInv, KernelUsesHeap
  PROVE  IInv'
  <1>1. /\ at = "idle" /\ slot_in_use' = slot_in_use /\ task_pool' = task_pool
        /\ load' = load /\ at' = at
    BY DEF KernelUsesHeap
  <1>2. PICK h \in Heap : memory' = [u \in Unit |-> IF u \in {h} THEN KERNEL ELSE memory[u]]
    BY DEF KernelUsesHeap, Write
  <1>3. memory \in [Unit -> Content]
    BY DEF IInv, TypeOK
  <1>4. TypeOK'
    BY <1>1, <1>2, <1>3 DEF IInv, TypeOK, Content
  <1>5. Programs' = Programs
    BY <1>1 DEF Programs
  <1>6. SlotsAccounted'
    BY <1>1, <1>5 DEF IInv, SlotsAccounted
  <1>7. ASSUME SlotsApart(Heap), NEW i \in Programs
        PROVE  ImageOf(memory', task_pool[i])
    <2>1. task_pool[i].slot \in Slot /\ task_pool[i].file \in File
      BY TaskOf
    <2>2. \A u \in SlotUnits(task_pool[i].slot) : memory'[u] = memory[u]
      BY <1>2, <1>7, <2>1, SlotInMemory DEF SlotsApart
    <2>3. ImageOf(memory, task_pool[i])
      BY <1>7 DEF IInv, Intact
    <2> QED
      BY <2>1, <2>2, <2>3, ImageStays
  <1>8. Intact'
    BY <1>1, <1>5, <1>7 DEF Intact
  <1>9. Place' /\ Counted' /\ PartLoaded' /\ Patchable'
    BY <1>1 DEF Place, Counted, PartLoaded, Patchable
  <1> QED
    BY <1>4, <1>6, <1>8, <1>9 DEF IInv

LEMMA StutterKeeps ==
  ASSUME IInv, UNCHANGED vars
  PROVE  IInv'
  <1>1. /\ memory' = memory /\ slot_in_use' = slot_in_use /\ task_pool' = task_pool
        /\ load' = load /\ at' = at
    BY DEF vars
  <1>2. TypeOK' /\ SlotsAccounted' /\ Intact'
    <2>1. Programs' = Programs
      BY <1>1 DEF Programs
    <2> QED
      BY <1>1, <2>1 DEF IInv, TypeOK, SlotsAccounted, Intact
  <1>3. phdr' = phdr /\ header' = header /\ task_base' = task_base /\ Moved' = Moved
    BY <1>1 DEF phdr, header, task_base, Moved
  <1>4. Place' /\ Counted' /\ Patchable' /\ PartLoaded'
    BY <1>1, <1>3 DEF IInv, Place, Counted, Patchable, PartLoaded
  <1> QED
    BY <1>2, <1>4 DEF IInv

-----------------------------------------------------------------------------
LEMMA InitHolds ==
  ASSUME Init
  PROVE  IInv
  <1>1. /\ memory = [u \in Unit |-> IF u \in Kernel \cup Heap THEN KERNEL ELSE ZERO]
        /\ slot_in_use = {} /\ task_pool = << >> /\ load = NoLoad /\ at = "idle"
    BY DEF Init
  <1>2. TypeOK
    <2>1. Len(<< >>) <= OS_MAX_TASKS /\ << >> \in Seq(Task)
      BY LoaderAssumption
    <2> QED
      BY <1>1, <2>1 DEF TypeOK, Content
  <1>3. Programs = {}
    BY <1>1 DEF Programs
  <1> QED
    BY <1>1, <1>2, <1>3 DEF IInv, SlotsAccounted, Place, Counted, PartLoaded, Patchable, Intact

LEMMA StepKeeps ==
  ASSUME IInv, [Next]_vars
  PROVE  IInv'
  <1>1. CASE NoSlot
    BY <1>1, StutterKeeps DEF NoSlot
  <1>2. CASE Slots_Alloc
    BY <1>2, AllocKeeps
  <1>3. CASE Step
    BY <1>3, ReadHeaderKeeps, ReadProgramHeaderKeeps, ReadSegmentKeeps, PatchGotKeeps,
       RelocationsKeep, CreateTaskKeeps DEF Step
  <1>4. CASE OS_TaskCreate
    BY <1>4, TaskCreateKeeps
  <1>5. CASE KernelUsesHeap
    BY <1>5, HeapUseKeeps
  <1>6. CASE UNCHANGED vars
    BY <1>6, StutterKeeps
  <1> QED
    BY <1>1, <1>2, <1>3, <1>4, <1>5, <1>6 DEF Next

(* A load writes to its own slot only. *)
LEMMA WritesOwnSlot ==
  ASSUME IInv, Step
  PROVE  at # "idle" /\ KeepsOthers
  <1>1. at # "idle"
    BY DEF Step, ReadHeader, ReadProgramHeader, ReadSegment, PatchGot, apply_data_relocations, CreateTask
  <1>2. memory' = memory => KeepsOthers
    BY DEF KeepsOthers
  <1>3. CASE ReadHeader \/ ReadProgramHeader
    BY <1>2, <1>3 DEF ReadHeader, ReadProgramHeader
  <1>4. CASE ReadSegment
    <2>1. at = "segment"
      BY <1>4 DEF ReadSegment
    <2>2. \/ \E n \in 0..header.filesz :
               memory' = [u \in Unit |-> IF u \in Units(task_base + header.paddr, n)
                            THEN [file |-> load.file, off |-> u - task_base, base |-> 0]
                            ELSE memory[u]]
          \/ memory' = [u \in Unit |-> IF u \in Units(task_base + header.paddr, header.memsz)
                          THEN IF u < task_base + header.paddr + header.filesz
                               THEN [file |-> load.file, off |-> u - task_base, base |-> 0]
                               ELSE ZERO
                          ELSE memory[u]]
      BY <1>4 DEF ReadSegment, Write
    <2> QED
      BY <1>1, <2>1, <2>2, SegmentCutShort, SegmentRead
  <1>5. CASE PatchGot
    <2>1. at = "got" /\ load.file \in File /\ task_base \in Nat
      BY <1>1, <1>5, LoadOf DEF PatchGot
    <2>2. CASE \E found \in (SUBSET Program[load.file].got) \ {{}} :
                 memory' = Write(find_got_section(found), AddBase)
      <3>1. PICK found \in (SUBSET Program[load.file].got) \ {{}} :
                 memory' = [u \in Unit |-> IF u \in find_got_section(found) THEN AddBase(u) ELSE memory[u]]
        BY <2>2 DEF Write
      <3>2. find_got_section(found) = {task_base + o : o \in Min(found)..Max(found)}
            /\ Min(found)..Max(found) \subseteq Program[load.file].got \cup Program[load.file].rela
        BY <2>1, GotRange, GotUnits
      <3>3. memory' = [u \in Unit |-> IF u \in {task_base + o : o \in Min(found)..Max(found)}
                                      THEN AddBase(u) ELSE memory[u]]
        BY <3>1, <3>2
      <3> QED
        BY <1>1, <2>1, <3>2, <3>3, PatchMoves
    <2>3. CASE memory' = memory
      BY <1>1, <1>2, <2>3
    <2> QED
      BY <1>5, <2>2, <2>3 DEF PatchGot
  <1>6. CASE apply_data_relocations
    <2>1. at = "rela"
      BY <1>6 DEF apply_data_relocations
    <2>2. PICK done \in SUBSET Program[load.file].rela :
            memory' = [u \in Unit |-> IF u \in {task_base + o : o \in done} THEN AddBase(u) ELSE memory[u]]
      BY <1>6 DEF apply_data_relocations, Write
    <2> QED
      BY <1>1, <2>1, <2>2, PatchMoves
  <1>7. CASE CreateTask
    <2>1. \/ memory' = memory
          \/ memory' = [u \in Unit |-> IF u \in {task_base + SLOT_SIZE - 1} THEN FRAME ELSE memory[u]]
      BY <1>7 DEF CreateTask, Write
    <2>2. task_base + SLOT_SIZE - 1 \in SlotUnits(load.slot)
      <3>1. SLOT_SIZE \in Nat \ {0}
        BY LoaderAssumption
      <3>2. task_base \in Nat /\ task_base = Slots_BaseAddr(load.slot)
        BY <1>1, LoadOf
      <3> QED
        BY <3>1, <3>2 DEF SlotUnits, Units
    <2> QED
      BY <1>1, <2>1, <2>2 DEF KeepsOthers
  <1> QED
    BY <1>3, <1>4, <1>5, <1>6, <1>7 DEF Step

LEMMA Invariance == Spec => []IInv
  <1>1. Init => IInv
    BY InitHolds
  <1>2. IInv /\ [Next]_vars => IInv'
    BY StepKeeps
  <1> QED
    BY <1>1, <1>2, PTL DEF Spec

(* The state keeps its types, for any number of slots and any programs, and *)
(* no more tasks are created than task_pool has entries.                   *)
THEOREM TypeCorrect == Spec => []TypeOK
  <1>1. IInv => TypeOK
    BY DEF IInv
  <1> QED
    BY <1>1, Invariance, PTL

(* Every slot given away is the load's in progress or one task's, wherever *)
(* loads fail.                                                             *)
THEOREM SlotsAreAccounted == Spec => []SlotsAccounted
  <1>1. IInv => SlotsAccounted
    BY DEF IInv
  <1> QED
    BY <1>1, Invariance, PTL

(* Each program is in its slot as linked, every pointer moved once, and    *)
(* stays so, unless a read failed in one of the two patches.               *)
THEOREM ImageIsIntact ==
  ASSUME SlotsApart(Heap)
  PROVE  Spec => []ImageIntact
  <1>1. IInv => ImageIntact
    BY DEF IInv, Intact, ImageIntact, ImageOf
  <1> QED
    BY <1>1, Invariance, PTL

(* No load writes to what the kernel keeps, once the slots lie apart from   *)
(* it as slots.h asks: the addresses of the code violate the hypothesis     *)
(* alone.                                                                   *)
THEOREM KernelIsIntact ==
  ASSUME SlotsApart(Kernel \cup Heap)
  PROVE  Spec => []KernelIntact
  <1>1. Init => KernelIntact
    BY LoaderAssumption DEF Init, KernelIntact
  <1>2. ASSUME IInv, KernelIntact, [Next]_vars
        PROVE  KernelIntact'
    <2>1. CASE memory' = memory
      BY <1>2, <2>1 DEF KernelIntact
    <2>2. CASE Step
      <3>1. KeepsOthers /\ load.slot \in Slot
        BY <1>2, <2>2, WritesOwnSlot, LoadOf
      <3>2. \A u \in Kernel \cup Heap : u \in Unit /\ u \notin SlotUnits(load.slot)
        BY <3>1, LoaderAssumption DEF SlotsApart
      <3> QED
        BY <1>2, <3>1, <3>2 DEF KernelIntact, KeepsOthers
    <2>3. CASE KernelUsesHeap
      BY <1>2, <2>3, LoaderAssumption DEF KernelUsesHeap, Write, KernelIntact
    <2> QED
      BY <1>2, <2>1, <2>2, <2>3 DEF Next, NoSlot, Slots_Alloc, OS_TaskCreate, vars
  <1> QED
    BY <1>1, <1>2, Invariance, PTL DEF Spec

=============================================================================
