------------------------------- MODULE KHeap --------------------------------
(***************************************************************************)
(* The kernel's heap: kmalloc.c.  Blocks lie one behind the other from the *)
(* base of the heap to its end, each with a one-word header that holds its *)
(* size and whether it is free.  The unit is the 4-byte word that KM_ALIGN *)
(* rounds sizes to, so sizes and addresses here are numbers of words.      *)
(*                                                                         *)
(* A client is a kernel task that keeps at most one block and writes all   *)
(* it asked for; what it leaves behind when it gives the block up is JUNK, *)
(* for nobody reads it again.  A call is several steps, one per write of a *)
(* header and one per turn of the search: LOCK() was meant to mask         *)
(* interrupts (critical.h), but the m68k_disable_all_interrupts() it calls *)
(* is an empty function (interrupt.h).  InterruptInCall says which         *)
(* executions are looked at: FALSE, those in which no tick happens to land *)
(* inside a call; TRUE, all of them.                                       *)
(***************************************************************************)
EXTENDS Naturals

CONSTANTS HEAP,             (* heap_size, in words                          *)
          MIN_SPLIT,        (* the smallest block worth splitting off       *)
          Request,          (* the sizes clients ask for                    *)
          Client,           (* the tasks that use the heap                  *)
          JUNK,             (* a word nobody has written yet                *)
          NULL,             (* the null pointer                             *)
          InterruptInCall   (* may a tick land inside a call?               *)

ASSUME KHeapAssumption ==
    /\ HEAP \in Nat \ {0}
    /\ MIN_SPLIT \in Nat
    /\ Request \subseteq Nat \ {0}
    /\ JUNK \notin Client
    /\ (Client \cup {JUNK}) \cap [size : 0..HEAP, free : BOOLEAN] = {}
    /\ NULL \notin Nat
    /\ InterruptInCall \in BOOLEAN

VARIABLES
    mem,        (* the heap's words: headers, clients' data, junk           *)
    held,       (* the block each client was given, or NULL                 *)
    want,       (* how many words of it the client uses                     *)
    running,    (* the client whose task has the CPU                        *)
    frame       (* where each client is in a call of kmalloc.c              *)

vars == <<mem, held, want, running, frame>>

Address == 0..HEAP - 1
Header  == [size : 0..HEAP, free : BOOLEAN]
Word    == Client \cup {JUNK} \cup Header
Place   == {"user", "search", "take", "copy", "mark_free", "look_behind", "merge"}

(* A frame: the next step, the block it is about, the words asked for, and *)
(* the size that block is to get.                                          *)
Frame(at, p, ask, n) == [at |-> at, p |-> p, ask |-> ask, n |-> n]
UserFrame == Frame("user", 0, 0, 0)

IsHeader(a) == a \in Address /\ mem[a] \notin Client \cup {JUNK}
IsFree(a)   == IsHeader(a) /\ mem[a].free
Behind(a)   == a + 1 + mem[a].size      (* the block that follows *)

Running(place)    == frame[running].at = place
SetHeader(m, a, n, free) == [m EXCEPT ![a] = [size |-> n, free |-> free]]
Fill(m, from, n, w) == [a \in Address |-> IF a \in from..from + n - 1 THEN w ELSE m[a]]
Goto(f)           == frame' = [frame EXCEPT ![running] = f]

(* kmalloc_init: one free block.  RAM holds whatever it held. *)
kmalloc_init ==
    /\ mem = SetHeader([a \in Address |-> JUNK], 0, HEAP - 1, TRUE)
    /\ held = [c \in Client |-> NULL]
    /\ want = [c \in Client |-> 0]
    /\ running \in Client
    /\ frame = [c \in Client |-> UserFrame]

-----------------------------------------------------------------------------
(* kmalloc(n), krealloc(NULL, n), and kcalloc, whose memset is the caller's *)
(* first write of its block.                                                *)
kmalloc(n) ==
    /\ Running("user")
    /\ held[running] = NULL
    /\ Goto(Frame("search", 0, n, n))
    /\ UNCHANGED <<mem, held, want, running>>

(* krealloc(ptr, n) with a ptr and an n that are not 0: the block will do   *)
(* as it is, or a new one has to be found.                                  *)
krealloc(n) ==
    /\ Running("user")
    /\ held[running] # NULL
    /\ IF n <= mem[held[running] - 1].size
       THEN /\ want' = [want EXCEPT ![running] = n]
            /\ mem' = Fill(Fill(mem, held[running], want[running], JUNK), held[running], n, running)
            /\ UNCHANGED frame
       ELSE /\ Goto(Frame("search", 0, n, n))
            /\ UNCHANGED <<want, mem>>
    /\ UNCHANGED <<held, running>>

(* Mutant: the search takes a block of exactly the size for too small. *)
FitsStrictly(a, n) == IsFree(a) /\ mem[a].size > n

(* The search is first fit, from the base of the heap. *)
Fits(a, n) == IsFree(a) /\ mem[a].size >= n

SkipBlock ==
    LET f == frame[running] IN
    /\ Running("search")
    /\ f.p < HEAP
    /\ IsHeader(f.p)
    /\ ~Fits(f.p, f.ask)
    /\ Goto([f EXCEPT !.p = Behind(f.p)])
    /\ UNCHANGED <<mem, held, want, running>>

(* Mutant: what is left over is split off however small it is. *)
SplitsAny(a, n) == mem[a].size >= n

(* What is left over is worth a block of its own. *)
Splits(a, n) == mem[a].size >= n + 1 + MIN_SPLIT

UseWhole ==
    LET f == frame[running] IN
    /\ Running("search")
    /\ Fits(f.p, f.ask)
    /\ ~Splits(f.p, f.ask)
    /\ Goto([f EXCEPT !.at = "take", !.n = mem[f.p].size])
    /\ UNCHANGED <<mem, held, want, running>>

(* Mutant: the header of the block split off is not taken off its size. *)
SplitNoHeader ==
    LET f == frame[running] IN
    /\ Running("search")
    /\ Fits(f.p, f.ask)
    /\ Splits(f.p, f.ask)
    /\ mem' = SetHeader(mem, f.p + 1 + f.ask, mem[f.p].size - f.ask, TRUE)
    /\ Goto([f EXCEPT !.at = "take"])
    /\ UNCHANGED <<held, want, running>>

(* The block split off gets its header first. *)
Split ==
    LET f == frame[running] IN
    /\ Running("search")
    /\ Fits(f.p, f.ask)
    /\ Splits(f.p, f.ask)
    /\ mem' = SetHeader(mem, f.p + 1 + f.ask, mem[f.p].size - f.ask - 1, TRUE)
    /\ Goto([f EXCEPT !.at = "take"])
    /\ UNCHANGED <<held, want, running>>

(* The block found is marked as used; kmalloc's caller gets it. *)
Take ==
    LET f == frame[running]
        m == SetHeader(mem, f.p, f.n, FALSE)
    IN
    /\ Running("take")
    /\ IF held[running] = NULL
       THEN /\ mem' = Fill(m, f.p + 1, f.ask, running)
            /\ held' = [held EXCEPT ![running] = f.p + 1]
            /\ want' = [want EXCEPT ![running] = f.ask]
            /\ Goto(UserFrame)
       ELSE /\ mem' = m
            /\ Goto([f EXCEPT !.at = "copy"])
            /\ UNCHANGED <<held, want>>
    /\ UNCHANGED running

(* No block fits: NULL, and krealloc's caller keeps the block it has. *)
NoBlock ==
    /\ Running("search")
    /\ frame[running].p >= HEAP
    /\ Goto(UserFrame)
    /\ UNCHANGED <<mem, held, want, running>>

(* Mutant: one word too few is copied. *)
CopyShort(from, to, size) ==
    [a \in Address |-> IF a \in to..to + size - 2 THEN mem[from + (a - to)] ELSE mem[a]]

(* memcpy(new_ptr, ptr, old_size) *)
memcpy(from, to, size) ==
    [a \in Address |-> IF a \in to..to + size - 1 THEN mem[from + (a - to)] ELSE mem[a]]

(* krealloc moves the data over and goes on to free the old block; the      *)
(* caller writes the words it has gained.                                   *)
Copy ==
    LET f    == frame[running]
        old  == held[running]
        used == want[running]
        size == mem[old - 1].size
        new  == f.p + 1
    IN
    /\ Running("copy")
    /\ mem' = Fill(Fill(memcpy(old, new, size), old, used, JUNK), new + used, f.ask - used, running)
    /\ held' = [held EXCEPT ![running] = new]
    /\ want' = [want EXCEPT ![running] = f.ask]
    /\ Goto(Frame("mark_free", old - 1, 0, 0))
    /\ UNCHANGED running

-----------------------------------------------------------------------------
(* kfree(ptr), and krealloc(ptr, 0).  The caller has no use for it any more. *)
kfree ==
    /\ Running("user")
    /\ held[running] # NULL
    /\ Goto(Frame("mark_free", held[running] - 1, 0, 0))
    /\ held' = [held EXCEPT ![running] = NULL]
    /\ want' = [want EXCEPT ![running] = 0]
    /\ mem' = Fill(mem, held[running], want[running], JUNK)
    /\ UNCHANGED running

MarkFree ==
    LET f == frame[running] IN
    /\ Running("mark_free")
    /\ IsHeader(f.p)
    /\ mem' = SetHeader(mem, f.p, mem[f.p].size, TRUE)
    /\ Goto([f EXCEPT !.at = "look_behind"])
    /\ UNCHANGED <<held, want, running>>

(* The block behind is merged if it is free; the one in front never is. *)
Merges(a) == Behind(a) < HEAP /\ IsFree(Behind(a))

LookBehind ==
    LET f == frame[running] IN
    /\ Running("look_behind")
    /\ IsHeader(f.p)
    /\ IF Merges(f.p)
       THEN Goto([f EXCEPT !.at = "merge", !.n = mem[f.p].size + 1 + mem[Behind(f.p)].size])
       ELSE Goto(UserFrame)
    /\ UNCHANGED <<mem, held, want, running>>

Merge ==
    LET f == frame[running] IN
    /\ Running("merge")
    /\ mem' = SetHeader(mem, f.p, f.n, TRUE)
    /\ Goto(UserFrame)
    /\ UNCHANGED <<held, want, running>>

-----------------------------------------------------------------------------
(* The tick gives the CPU to any task. *)
Tick == /\ InterruptInCall \/ Running("user")
        /\ running' \in Client
        /\ UNCHANGED <<mem, held, want, frame>>

Next == \/ \E n \in Request : kmalloc(n) \/ krealloc(n)
        \/ SkipBlock \/ UseWhole \/ Split \/ Take \/ NoBlock \/ Copy
        \/ kfree \/ MarkFree \/ LookBehind \/ Merge
        \/ Tick

Spec == kmalloc_init /\ [][Next]_vars

-----------------------------------------------------------------------------
(* The variables have their types; above all, every header in the heap has *)
(* a size that a block in this heap can have.                              *)
TypeOK ==
    /\ mem \in [Address -> Word]
    /\ held \in [Client -> Address \cup {NULL}]
    /\ want \in [Client -> Request \cup {0}]
    /\ running \in Client
    /\ frame \in [Client -> [at : Place, p : 0..HEAP, ask : Request \cup {0},
                            n : 0..HEAP \cup Request]]

Quiet == \A c \in Client : frame[c].at = "user"

(* B is where the search stops, were it to go through all the heap: the     *)
(* first block is at the base, and behind each there is the next one or    *)
(* the end of the heap.                                                    *)
Tiling(B) ==
    /\ 0 \in B
    /\ \A b \in B : /\ IsHeader(b)
                    /\ Behind(b) \in B \cup {HEAP}
                    /\ \A c \in B : c <= b \/ c >= Behind(b)

Headers == {a \in Address : IsHeader(a)}

(* Outside the calls the blocks fill the heap to its last word, so that    *)
(* the search ends where the heap ends, and the used ones are exactly      *)
(* those that clients hold: no block leaks and none is given twice.        *)
HeapTiled ==
    Quiet => /\ \E B \in SUBSET Headers :
                    /\ Tiling(B)
                    /\ {b \in B : ~IsFree(b)}
                           = {held[c] - 1 : c \in {d \in Client : held[d] # NULL}}
             /\ \A c, d \in Client : held[c] = held[d] /\ held[c] # NULL => c = d

(* What a client wrote into its block is there until it frees it, whatever *)
(* the others allocate and free, and after krealloc has moved it.          *)
DataKept ==
    \A c \in Client : held[c] # NULL =>
        \A a \in held[c]..held[c] + want[c] - 1 : mem[a] = c

(* A request is refused only if no free block is large enough for it. *)
RefusedOnlyIfNoneFits ==
    [][NoBlock => \E B \in SUBSET Headers :
                      /\ Tiling(B)
                      /\ \A b \in B : IsFree(b) => mem[b].size < frame[running].ask]_vars
=============================================================================
