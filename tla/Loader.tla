------------------------------- MODULE Loader -------------------------------
(***************************************************************************)
(* The loading of programs: mm/slots.c, spawn/loader_pic_final.c, and the  *)
(* memory map they share with the kernel (kernel.ld, kernel.c).            *)
(*                                                                         *)
(* Memory is counted in units of TASK_STACK_SIZE, 8 KB, the largest size   *)
(* that divides every address involved.  A unit holds what was last        *)
(* written to it.  A unit of a program is its file, its offset in the      *)
(* image, and the sum of the bases added to the pointers in it: a program  *)
(* is linked at 0 and runs where it is loaded only if that sum is its      *)
(* load address, neither 0 nor twice that.                                 *)
(*                                                                         *)
(* One load goes on at a time, in steps of one read of the file, each of   *)
(* which may fail or come short.                                           *)
(***************************************************************************)
EXTENDS Integers, Sequences, FiniteSetsExt

CONSTANTS
    KERNEL_ORIGIN, KERNEL_LENGTH,      (* the kernel's memory, stack too    *)
    HEAP_BASE, HEAP_SIZE,              (* the memory of kmalloc             *)
    SLOT_BASE, SLOT_SIZE, SLOT_COUNT,  (* the slots of programs             *)
    OS_MAX_TASKS,                      (* the size of task_pool             *)
    Program,    (* the ELF files on the disk, by name                       *)
    KERNEL,     (* what the kernel keeps in a unit of memory                *)
    ZERO,       (* a unit set to zero                                       *)
    FRAME,      (* the frame a new task starts from                         *)
    NONE        (* no slot                                                  *)

File == DOMAIN Program
Slot == 0..SLOT_COUNT - 1
Kernel == KERNEL_ORIGIN..KERNEL_ORIGIN + KERNEL_LENGTH - 1
Heap   == HEAP_BASE..HEAP_BASE + HEAP_SIZE - 1
Unit   == KERNEL_ORIGIN..SLOT_BASE + SLOT_SIZE * SLOT_COUNT - 1

Units(from, n) == from..from + n - 1

(* A file: whether its header is that of an executable for the 68000, its  *)
(* program headers, the offsets in the image of its .got sections, and     *)
(* those that .rela.data names.                                            *)
SegmentType   == {"LOAD", "DYNAMIC", "SHLIB", "INTERP", "NOTE"}
ProgramHeader == [type : SegmentType, paddr : Nat, filesz : Nat, memsz : Nat]

ProgramFile   == [elf : BOOLEAN, phdr : Seq(ProgramHeader), got : SUBSET Nat, rela : SUBSET Nat]

LoadHeaders(f) == {i \in DOMAIN Program[f].phdr : Program[f].phdr[i].type = "LOAD"}
Segments(f)    == {Program[f].phdr[i] : i \in LoadHeaders(f)}

ASSUME LoaderAssumption ==
    /\ SLOT_COUNT \in Nat \ {0} /\ SLOT_SIZE \in Nat \ {0} /\ OS_MAX_TASKS \in Nat
    /\ {KERNEL_ORIGIN, KERNEL_LENGTH, HEAP_BASE, HEAP_SIZE, SLOT_BASE} \subseteq Nat
    /\ KERNEL_ORIGIN <= SLOT_BASE /\ Kernel \cup Heap \subseteq Unit
    /\ NONE \notin Slot
    /\ \A f \in File : Program[f] \in ProgramFile

(* What linker_pic.ld makes of a program.  Its segments lie apart and      *)
(* leave the last unit of a slot to the stack, which the loader does not   *)
(* check; the .got sections lie together, .rela.data names nothing in      *)
(* them, and all of it is read from the file with the first two segments.  *)
ASSUME LinkerAssumption ==
    \A f \in File :
       /\ \A s \in Segments(f) : s.filesz <= s.memsz /\ s.paddr + s.memsz <= SLOT_SIZE - 1
       /\ \A s, t \in Segments(f) :
             s # t => Units(s.paddr, s.memsz) \cap Units(t.paddr, t.memsz) = {}
       /\ \A o, p \in Program[f].got : o..p \subseteq Program[f].got
       /\ Program[f].got \cap Program[f].rela = {}
       /\ \A o \in Program[f].got \cup Program[f].rela : \E i \in LoadHeaders(f) :
             /\ o \in Units(Program[f].phdr[i].paddr, Program[f].phdr[i].filesz)
             /\ \A j, k \in LoadHeaders(f) : j < k => i <= k

VARIABLES
    memory,         (* the content of each unit                             *)
    slot_in_use,    (* the slots given away                                 *)
    task_pool,      (* the tasks created, in order                          *)
    load,           (* the locals of the load in progress                   *)
    at              (* the step it is at, or "idle"                         *)

vars == <<memory, slot_in_use, task_pool, load, at>>

NoLoad == [file |-> NONE, slot |-> NONE, progIndex |-> 0, pt_load_seen |-> 0, whole |-> TRUE]

Init ==
    /\ memory = [u \in Unit |-> IF u \in Kernel \cup Heap THEN KERNEL ELSE ZERO]
    /\ slot_in_use = {}
    /\ task_pool = << >>
    /\ load = NoLoad
    /\ at = "idle"

(***************************************************************************)
(* slots.c                                                                 *)
(***************************************************************************)
FreeSlots == Slot \ slot_in_use
Slots_BaseAddr(s) == SLOT_BASE + s * SLOT_SIZE
Slots_Free(s) == slot_in_use' = slot_in_use \ {s}

task_base == Slots_BaseAddr(load.slot)
phdr      == Program[load.file].phdr
header    == phdr[load.progIndex + 1]

(* memory after `content(u)' is written to some of the units. *)
Write(units, content(_)) == [u \in Unit |-> IF u \in units THEN content(u) ELSE memory[u]]
AddBase(u) == [memory[u] EXCEPT !.base = @ + task_base]

(***************************************************************************)
(* load_pic_elf_standalone.                                                *)
(***************************************************************************)
Return == at' = "idle" /\ load' = NoLoad

(* No slot is free: -1, and nothing has changed. *)
NoSlot ==
    /\ at = "idle"
    /\ FreeSlots = {}
    /\ UNCHANGED vars

Slots_Alloc ==
    /\ at = "idle"
    /\ FreeSlots # {}
    /\ slot_in_use' = slot_in_use \cup {Min(FreeSlots)}
    /\ \E f \in File : load' = [NoLoad EXCEPT !.file = f, !.slot = Min(FreeSlots)]
    /\ at' = "header"
    /\ UNCHANGED <<memory, task_pool>>

(* Mutant: a `return -1' where the code has `goto fail'. *)
FailKeepsSlot ==
    /\ Return
    /\ UNCHANGED <<slot_in_use, task_pool>>

(* goto fail: the slot goes back. *)
Fail ==
    /\ Slots_Free(load.slot)
    /\ Return
    /\ UNCHANGED task_pool

ReadHeader ==
    /\ at = "header"
    /\ \/ /\ Program[load.file].elf
          /\ at' = "program header"
          /\ UNCHANGED <<slot_in_use, task_pool, load>>
       \/ Fail
    /\ UNCHANGED memory

ReadProgramHeader ==
    /\ at = "program header"
    /\ load.progIndex < Len(phdr)
    /\ \/ /\ header.type = "LOAD"
          /\ at' = "segment"
          /\ UNCHANGED <<slot_in_use, task_pool, load>>
       \/ /\ header.type = "NOTE"
          /\ load' = [load EXCEPT !.progIndex = @ + 1]
          /\ UNCHANGED <<slot_in_use, task_pool, at>>
       \/ Fail
    /\ UNCHANGED memory

(* The part of a segment that is in the file, and the rest set to zero; a  *)
(* read that fails may have written the beginning.                         *)
ReadSegment ==
    LET start == task_base + header.paddr
        FromFile(u) == [file |-> load.file, off |-> u - task_base, base |-> 0]
    IN  /\ at = "segment"
        /\ \/ /\ memory' = Write(Units(start, header.memsz),
                                 LAMBDA u : IF u < start + header.filesz THEN FromFile(u) ELSE ZERO)
              /\ at' = IF load.pt_load_seen = 1 THEN "got" ELSE "program header"
              /\ load' = [load EXCEPT !.progIndex = @ + 1, !.pt_load_seen = @ + 1]
              /\ UNCHANGED <<slot_in_use, task_pool>>
           \/ /\ \E n \in 0..header.filesz : memory' = Write(Units(start, n), FromFile)
              /\ Fail

(* The patch begins at the first .got section found and ends behind the    *)
(* last; a section whose name cannot be read is taken for another one.     *)
find_got_section(found) == Units(task_base + Min(found), Max(found) - Min(found) + 1)

PatchGot ==
    /\ at = "got"
    /\ \/ \E found \in (SUBSET Program[load.file].got) \ {{}} :
            /\ memory' = Write(find_got_section(found), AddBase)
            /\ load' = [load EXCEPT !.whole = @ /\ found = Program[load.file].got]
            /\ at' = "rela"
            /\ UNCHANGED <<slot_in_use, task_pool>>
       \/ Fail /\ UNCHANGED memory

(* Mutant: the relocations of the .got are not told from those of .data. *)
RelocateGotToo ==
    /\ at = "rela"
    /\ \E done \in SUBSET Program[load.file].rela :
          /\ memory' = Write({task_base + o : o \in done \cup Program[load.file].got}, AddBase)
          /\ load' = [load EXCEPT !.whole = @ /\ done = Program[load.file].rela]
    /\ at' = "program header"
    /\ UNCHANGED <<slot_in_use, task_pool>>

(* apply_data_relocations: whatever cannot be read is passed over. *)
apply_data_relocations ==
    /\ at = "rela"
    /\ \E done \in SUBSET Program[load.file].rela :
          /\ memory' = Write({task_base + o : o \in done}, AddBase)
          /\ load' = [load EXCEPT !.whole = @ /\ done = Program[load.file].rela]
    /\ at' = "program header"
    /\ UNCHANGED <<slot_in_use, task_pool>>

(* Mutant: OS_TaskCreatePIC hands out one entry more than task_pool has. *)
CreateTaskOneMore ==
    /\ at = "program header"
    /\ load.progIndex = Len(phdr)
    /\ load.pt_load_seen = 2
    /\ Len(task_pool) <= OS_MAX_TASKS
    /\ task_pool' = Append(task_pool, [slot |-> load.slot, file |-> load.file,
                                       whole |-> load.whole])
    /\ memory' = Write({task_base + SLOT_SIZE - 1}, LAMBDA u : FRAME)
    /\ Return
    /\ UNCHANGED slot_in_use

(* The two segments are there: OS_TaskCreatePIC writes the first frame at  *)
(* the top of the slot, or fails when task_pool is full.                   *)
CreateTask ==
    /\ at = "program header"
    /\ load.progIndex = Len(phdr)
    /\ \/ /\ load.pt_load_seen = 2
          /\ Len(task_pool) < OS_MAX_TASKS
          /\ task_pool' = Append(task_pool, [slot |-> load.slot, file |-> load.file,
                                             whole |-> load.whole])
          /\ memory' = Write({task_base + SLOT_SIZE - 1}, LAMBDA u : FRAME)
          /\ Return
          /\ UNCHANGED slot_in_use
       \/ /\ load.pt_load_seen # 2 \/ Len(task_pool) >= OS_MAX_TASKS
          /\ Fail
          /\ UNCHANGED memory

(***************************************************************************)
(* What else the kernel does: tasks of its own, and the heap in use.       *)
(***************************************************************************)
OS_TaskCreate ==
    /\ at = "idle"
    /\ Len(task_pool) < OS_MAX_TASKS
    /\ task_pool' = Append(task_pool, [slot |-> NONE, file |-> NONE, whole |-> TRUE])
    /\ UNCHANGED <<memory, slot_in_use, load, at>>

KernelUsesHeap ==
    /\ at = "idle"
    /\ \E u \in Heap : memory' = Write({u}, LAMBDA v : KERNEL)
    /\ UNCHANGED <<slot_in_use, task_pool, load, at>>

Step == ReadHeader \/ ReadProgramHeader \/ ReadSegment \/ PatchGot
        \/ apply_data_relocations \/ CreateTask

Next == NoSlot \/ Slots_Alloc \/ Step \/ OS_TaskCreate \/ KernelUsesHeap

Spec == Init /\ [][Next]_vars

(***************************************************************************)
(* Properties.                                                             *)
(***************************************************************************)
Image   == [file : File, off : Nat, base : Nat]
Content == Image \cup {KERNEL, ZERO, FRAME}
Task    == [slot : Slot, file : File, whole : BOOLEAN]
             \cup {[slot |-> NONE, file |-> NONE, whole |-> TRUE]}

(* Types of the variables; a load holds a slot exactly while it goes on. *)
TypeOK ==
    /\ memory \in [Unit -> Content]
    /\ slot_in_use \subseteq Slot
    /\ task_pool \in Seq(Task) /\ Len(task_pool) <= OS_MAX_TASKS
    /\ at = "idle" <=> load = NoLoad
    /\ at # "idle" => load.file \in File /\ load.slot \in slot_in_use

Programs == {i \in DOMAIN task_pool : task_pool[i].slot # NONE}

(* Every slot given away belongs to the load in progress or to one task,   *)
(* and no two of these share one: a load that fails at any step has given  *)
(* its slot back, one that succeeds has not (loader_pic_final.c:364-373).  *)
SlotsAccounted ==
    /\ slot_in_use = {task_pool[i].slot : i \in Programs}
                        \cup (IF at = "idle" THEN {} ELSE {load.slot})
    /\ \A i, j \in Programs : task_pool[i].slot = task_pool[j].slot => i = j
    /\ at # "idle" => \A i \in Programs : task_pool[i].slot # load.slot

(* What a program finds at an offset of its image. *)
Expected(f, base, o) ==
    IF \E s \in Segments(f) : o \in Units(s.paddr, s.filesz)
      THEN [file |-> f, off |-> o,
            base |-> IF o \in Program[f].got \cup Program[f].rela THEN base ELSE 0]
      ELSE ZERO

(* The program of a task is in its slot as linked, with every pointer of   *)
(* its .got and .data moved exactly once, and a frame to start from; no    *)
(* later load and nothing the kernel does disturbs it.  Except when a read *)
(* failed in find_got_section or apply_data_relocations and the loader     *)
(* went on (`whole').                                                      *)
ImageIntact ==
    \A i \in Programs :
       LET t == task_pool[i]
           b == Slots_BaseAddr(t.slot)
       IN  /\ memory[b + SLOT_SIZE - 1] = FRAME
           /\ t.whole => \A s \in Segments(t.file) : \A o \in Units(s.paddr, s.memsz) :
                            memory[b + o] = Expected(t.file, b, o)

(* slots.h:10-13 asks that the slots do not overlap the rest of the memory *)
(* map, and kernel.ld:16-17 that they begin behind the kernel: no load     *)
(* writes to what the kernel keeps, its heap among it.                     *)
KernelIntact == \A u \in Kernel \cup Heap : memory[u] = KERNEL
=============================================================================
