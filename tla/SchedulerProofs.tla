-------------------------- MODULE SchedulerProofs ---------------------------
(***************************************************************************)
(* Proofs about SchedulerRing, for every size of the task pool, in the     *)
(* executions in which no interrupt lands inside a call.                   *)
(***************************************************************************)
EXTENDS SchedulerRing, SequenceTheorems, FunctionTheorems, TLAPS

(***************************************************************************)
(* The inductive invariant.  Outside the calls it says what ListIsRing and *)
(* ReadyIffLinked say; inside a call it says how far the pointers and the  *)
(* task states are from that at each place of ready_insert, ready_remove   *)
(* and their callers.                                                      *)
(***************************************************************************)
Here   == IF mode = "halt" THEN "halt" ELSE frame[Cpu].at
Caller == frame[Cpu].call
Arg    == frame[Cpu].t
Where  == frame[Cpu].walk
OnRing(t) == \E i \in 1..Len(ring) : ring[i] = t

(* Only what the CPU runs is inside a call. *)
OneCall == \A c \in Context :
               frame[c].at \notin {"user", "spin"} => c = Cpu /\ mode # "halt"

(* The slots of task_pool not handed out yet are unused. *)
FreshUnused == \A t \in Task : t > task_count => state[t] = "UNUSED"

(* A context that spins is a task that was created, ran and exited. *)
SpinUnused == \A c \in Context :
                  frame[c].at = "spin" => c \in 1..task_count /\ state[c] = "UNUSED"

(* A task that was given the CPU had been created. *)
CurrentCreated == current_task # NULL => current_task \in 1..task_count

(* What the call under way was given. *)
Arguments ==
    /\ Here \in Inserting \cup Removing \cup {"removed"} => Arg \in 1..task_count
    /\ Here \in Removing \cup {"removed"} =>
           /\ mode = "task"
           /\ Caller \in {"block", "exit"}
           /\ IF Caller = "exit" THEN Arg = current_task ELSE Arg \in Ready

(* No task is on the list twice. *)
Injective == \A i, j \in 1..Len(ring) : ring[i] = ring[j] => i = j

HeadInv ==
    IF Here = "advance_head"
    THEN /\ ring # << >>
         /\ IF ready_head = Arg THEN next[Arg] = ring[1] ELSE ready_head = ring[1]
    ELSE IF ring = << >> THEN ready_head = NULL ELSE ready_head = ring[1]

LinkInv ==
    /\ Here = "link_self" => Len(ring) = 1 /\ ring[1] = Arg
    /\ Here = "link_t" => Len(ring) > 1 /\ ring[Len(ring)] = Arg
    /\ Here # "link_self" =>
           \A i \in 1..Len(ring) - 1 : next[ring[i]] = ring[i + 1]
    /\ Here \notin {"link_self", "link_t"} /\ ring # << >> =>
           next[ring[Len(ring)]] = ring[1]

NullInv == \A t \in Task :
               \/ next[t] = NULL
               \/ OnRing(t)
               \/ Here \in {"advance_head", "clear_next"} /\ t = Arg

StateInv ==
    IF Here \in {"insert", "find_tail", "advance_head", "clear_next"}
    THEN ~OnRing(Arg) /\ \A t \in Task : t \in Ready <=> OnRing(t) \/ t = Arg
    ELSE IF Here = "removed"
    THEN ~OnRing(Arg) /\ \A t \in Task : t # Arg => (t \in Ready <=> OnRing(t))
    ELSE \A t \in Task : t \in Ready <=> OnRing(t)

WalkInv ==
    /\ Here \in {"find_tail", "find_prev"} => OnRing(Where)
    /\ Here = "find_prev" =>
           /\ next[Arg] # Arg
           /\ \A k \in 2..Len(ring) : ring[k] = Arg =>
                  \E i \in 1..k - 1 : Where = ring[i]

IInv == /\ HTypeOK /\ OneCall /\ FreshUnused /\ SpinUnused /\ CurrentCreated /\ Arguments
        /\ Injective /\ HeadInv /\ LinkInv /\ NullInv /\ StateInv /\ WalkInv
        /\ OneRunner /\ BoundedWait
-----------------------------------------------------------------------------
(* Sequences: what Append, RemoveAt and a rotation do to the list. *)
LEMMA AppendFacts ==
    ASSUME NEW S, NEW q \in Seq(S), NEW e \in S
    PROVE  /\ Append(q, e) \in Seq(S)
           /\ Len(Append(q, e)) = Len(q) + 1
           /\ \A i \in 1..Len(q) : Append(q, e)[i] = q[i]
           /\ Append(q, e)[Len(q) + 1] = e
BY AppendProperties

(* Length and elements of a part of a sequence. *)
LEMMA SubFacts ==
    ASSUME NEW S, NEW q \in Seq(S), NEW m \in 1..Len(q) + 1, NEW n \in 0..Len(q)
    PROVE  /\ SubSeq(q, m, n) \in Seq(S)
           /\ Len(SubSeq(q, m, n)) = IF m <= n THEN n - m + 1 ELSE 0
           /\ \A i \in 1..n - m + 1 : SubSeq(q, m, n)[i] = q[m + i - 1]
<1>1. m \in Int /\ n \in Int /\ \A i \in m..n : q[i] \in S
  BY LenProperties, ElementOfSeq
<1>. QED
  BY <1>1, SubSeqProperties

(* RemoveAt keeps the elements before the place and moves up those behind it. *)
LEMMA RemoveAtFacts ==
    ASSUME NEW S, NEW q \in Seq(S), NEW k \in 1..Len(q)
    PROVE  /\ RemoveAt(q, k) \in Seq(S)
           /\ Len(RemoveAt(q, k)) = Len(q) - 1
           /\ \A i \in 1..Len(q) - 1 : RemoveAt(q, k)[i] = IF i < k THEN q[i] ELSE q[i + 1]
<1> DEFINE a == SubSeq(q, 1, k - 1)
           b == SubSeq(q, k + 1, Len(q))
<1>0. Len(q) \in Nat
  BY LenProperties
<1>1. /\ a \in Seq(S)
      /\ Len(a) = k - 1
      /\ \A i \in 1..k - 1 : a[i] = q[i]
  <2>1. 1 \in 1..Len(q) + 1 /\ k - 1 \in 0..Len(q)
    BY <1>0
  <2>2. /\ a \in Seq(S)
        /\ Len(a) = IF 1 <= k - 1 THEN (k - 1) - 1 + 1 ELSE 0
        /\ \A i \in 1..(k - 1) - 1 + 1 : a[i] = q[1 + i - 1]
    BY <2>1, SubFacts
  <2>. HIDE DEF a
  <2>. QED BY <2>2, <1>0
<1>2. /\ b \in Seq(S)
      /\ Len(b) = Len(q) - k
      /\ \A i \in 1..Len(q) - k : b[i] = q[k + i]
  <2>1. k + 1 \in 1..Len(q) + 1 /\ Len(q) \in 0..Len(q)
    BY <1>0
  <2>2. /\ b \in Seq(S)
        /\ Len(b) = IF k + 1 <= Len(q) THEN Len(q) - (k + 1) + 1 ELSE 0
        /\ \A i \in 1..Len(q) - (k + 1) + 1 : b[i] = q[(k + 1) + i - 1]
    BY <2>1, SubFacts
  <2>. HIDE DEF b
  <2>. QED BY <2>2, <1>0
<1>3. RemoveAt(q, k) = a \o b
  BY DEF RemoveAt
<1>. HIDE DEF a, b
<1>4. /\ a \o b \in Seq(S)
      /\ Len(a \o b) = Len(a) + Len(b)
      /\ \A i \in 1..Len(a) + Len(b) : (a \o b)[i] = IF i <= Len(a) THEN a[i] ELSE b[i - Len(a)]
  BY <1>1, <1>2, ConcatProperties
<1>5. \A i \in 1..Len(q) - 1 : (a \o b)[i] = IF i < k THEN q[i] ELSE q[i + 1]
  BY <1>0, <1>1, <1>2, <1>4
<1>. QED
  BY <1>0, <1>1, <1>2, <1>3, <1>4, <1>5

(* The head sent to the back: every other element moves up by one. *)
LEMMA RotateFacts ==
    ASSUME NEW S, NEW q \in Seq(S), q # << >>
    PROVE  /\ Append(Tail(q), Head(q)) \in Seq(S)
           /\ Len(Append(Tail(q), Head(q))) = Len(q)
           /\ \A i \in 1..Len(q) : Append(Tail(q), Head(q))[i] = IF i < Len(q) THEN q[i + 1] ELSE q[1]
<1> DEFINE u == Tail(q)
           h == Head(q)
           r == Append(u, h)
<1>1. /\ Len(q) \in Nat \ {0}
      /\ h \in S
      /\ h = q[1]
      /\ u \in Seq(S)
      /\ Len(u) = Len(q) - 1
      /\ \A i \in 1..Len(q) - 1 : u[i] = q[i + 1]
  BY HeadTailProperties, EmptySeq, LenProperties
<1>. HIDE DEF u, h
<1>2. /\ r \in Seq(S)
      /\ Len(r) = Len(u) + 1
      /\ \A i \in 1..Len(u) : r[i] = u[i]
      /\ r[Len(u) + 1] = h
  BY <1>1, AppendFacts
<1>. HIDE DEF r
<1>3. /\ r \in Seq(S)
      /\ Len(r) = Len(q)
      /\ \A i \in 1..Len(q) : r[i] = IF i < Len(q) THEN q[i + 1] ELSE q[1]
  BY <1>1, <1>2
<1>. QED
  BY <1>3 DEF r, u, h

(* A list without repetitions is no longer than the task pool. *)
LEMMA RingFits ==
    ASSUME OS_MAX_TASKS \in Nat, NEW q \in Seq(Task),
           \A i, j \in 1..Len(q) : q[i] = q[j] => i = j
    PROVE  Len(q) <= OS_MAX_TASKS
<1>1. Len(q) \in Nat /\ q \in [1..Len(q) -> 1..OS_MAX_TASKS]
  BY LenProperties DEF Task
<1>2. q \in Injection(1..Len(q), 1..OS_MAX_TASKS)
  BY <1>1 DEF Injection, IsInjective
<1>3. ExistsInjection(1..Len(q), 1..OS_MAX_TASKS)
  BY <1>2 DEF ExistsInjection
<1>. QED
  BY <1>1, <1>3, Fun_NatInjLeq
-----------------------------------------------------------------------------
(* What the CPU runs, and what a step of a call does to its frame. *)
LEMMA CpuIsContext ==
    ASSUME TypeOK, mode # "halt"
    PROVE  Cpu \in Context /\ frame[Cpu] \in Frames
BY DEF TypeOK, Cpu, Context

(* A frame changed at one context is still a frame, and the others' are kept. *)
LEMMA FrameFacts ==
    ASSUME HTypeOK, OneCall, mode # "halt", UNCHANGED cpu,
           NEW f \in Frames, SetFrame(Cpu, f)
    PROVE  /\ frame' \in [Context -> Frames]
           /\ Here' = f.at /\ Caller' = f.call /\ Arg' = f.t /\ Where' = f.walk
           /\ OneCall'
           /\ \A c \in Context : frame'[c].at = "spin" => 
                  frame[c].at = "spin" \/ (c = Cpu /\ f.at = "spin")
           /\ Cpu' = Cpu /\ Cpu \in Context /\ mode' = mode /\ current_task' = current_task
<1>1. Cpu \in Context /\ frame \in [Context -> Frames]
  BY CpuIsContext DEF HTypeOK, TypeOK
<1>2. Cpu' = Cpu /\ mode' = mode /\ current_task' = current_task
  BY DEF cpu, Cpu
<1>3. frame' \in [Context -> Frames] /\ frame'[Cpu] = f /\ \A c \in Context : c # Cpu => frame'[c] = frame[c]
  BY <1>1 DEF SetFrame
<1>. QED
  BY <1>1, <1>2, <1>3 DEF Here, Caller, Arg, Where, OneCall

(* A step guarded by At(p) is the CPU at its place p. *)
LEMMA AtHere ==
    ASSUME NEW p, p # "halt", At(p)
    PROVE  mode # "halt" /\ Here = p
BY DEF At, Here

(* A step inside a call that leaves the tasks' states alone. *)
LEMMA WalkFacts ==
    ASSUME IInv, mode # "halt", UNCHANGED <<cpu, state, task_count>>,
           NEW place \in Place, place # "spin", NEW where \in Task \cup {NULL}, Walk(place, where)
    PROVE  /\ HTypeOK
           /\ frame' \in [Context -> Frames]
           /\ Here' = place /\ Caller' = Caller /\ Arg' = Arg /\ Where' = where
           /\ mode' = mode /\ current_task' = current_task
           /\ OneCall' /\ FreshUnused' /\ SpinUnused' /\ CurrentCreated' /\ OneRunner'
<1>1. HTypeOK /\ OneCall /\ frame[Cpu] \in Frames
  BY CpuIsContext DEF IInv, HTypeOK
<1>2. Frame(place, Caller, Arg, where) \in Frames
  BY <1>1 DEF Frame, Frames, Caller, Arg
<1>3. SetFrame(Cpu, Frame(place, Caller, Arg, where))
  BY DEF Walk, Caller, Arg
<1>4. /\ Frame(place, Caller, Arg, where).at = place
      /\ Frame(place, Caller, Arg, where).call = Caller
      /\ Frame(place, Caller, Arg, where).t = Arg
      /\ Frame(place, Caller, Arg, where).walk = where
  BY DEF Frame
<1>. HIDE DEF Frame
<1>. QED
  BY <1>1, <1>2, <1>3, <1>4, FrameFacts DEF IInv, FreshUnused, SpinUnused, CurrentCreated, OneRunner

(* What a Return that leaves the states alone keeps of IInv. *)
LEMMA ReturnFacts ==
    ASSUME IInv, mode # "halt", UNCHANGED <<cpu, state, task_count>>, Return
    PROVE  /\ HTypeOK
           /\ frame' \in [Context -> Frames]
           /\ Here' = "user" /\ mode' = mode /\ current_task' = current_task
           /\ OneCall' /\ FreshUnused' /\ SpinUnused' /\ CurrentCreated' /\ OneRunner'
<1>1. HTypeOK /\ OneCall
  BY DEF IInv
<1>2. UserFrame \in Frames /\ UserFrame.at = "user"
  BY DEF UserFrame, Frame, Frames, Place, Call
<1>. QED
  BY <1>1, <1>2, FrameFacts DEF IInv, Return, FreshUnused, SpinUnused, CurrentCreated, OneRunner

(* The argument of a call in progress is a task. *)
LEMMA ArgIsTask ==
    ASSUME IInv, Here \in Inserting \cup Removing \cup {"removed"}
    PROVE  Arg \in Task
<1>1. Arg \in 1..task_count /\ task_count \in 0..OS_MAX_TASKS
  BY DEF IInv, Arguments, HTypeOK, TypeOK
<1>. QED
  BY <1>1, SchedulerAssumption DEF Task

-----------------------------------------------------------------------------
(* The invariant survives each step of ready_insert. *)
LEMMA InsertIntoEmptyKeeps ==
    ASSUME IInv, InsertIntoEmpty, ring' = Append(ring, Arg), waited' = [waited EXCEPT ![Arg] = 0]
    PROVE  IInv'
<1>1. mode # "halt" /\ Here = "insert" /\ Arg \in Task
  BY AtHere, ArgIsTask DEF InsertIntoEmpty, Inserting
<1>2. UNCHANGED <<next, state, task_count, cpu>> /\ ready_head' = Arg
  BY DEF InsertIntoEmpty, tcbs, Arg
<1>3. /\ HTypeOK
      /\ frame' \in [Context -> Frames]
      /\ Here' = "link_self" /\ Caller' = Caller /\ Arg' = Arg
      /\ mode' = mode /\ current_task' = current_task
      /\ OneCall' /\ FreshUnused' /\ SpinUnused' /\ CurrentCreated' /\ OneRunner'
  <2>1. frame[Cpu].walk \in Task \cup {NULL}
    BY <1>1, CpuIsContext DEF IInv, HTypeOK, Frames
  <2>. QED
    BY <1>1, <1>2, <2>1, WalkFacts DEF InsertIntoEmpty, GoTo, Place, Inserting
<1>4. ring = << >> /\ Len(ring) = 0
  <2>1. ring # << >> => ring[1] \in Task /\ ready_head = ring[1]
    BY <1>1, <1>3, EmptySeq, LenProperties, ElementOfSeq DEF IInv, HeadInv, HTypeOK
  <2>. QED
    BY <2>1, SchedulerAssumption, EmptySeq DEF InsertIntoEmpty, Context
<1>5. /\ ring' \in Seq(Task) /\ Len(ring') = 1 /\ ring'[1] = Arg /\ ring' # << >>
  BY <1>1, <1>3, <1>4, AppendFacts, EmptySeq DEF HTypeOK
<1>6. HTypeOK'
  BY <1>1, <1>2, <1>3, <1>5, SchedulerAssumption DEF HTypeOK, TypeOK
<1>7. Arguments' /\ Injective' /\ HeadInv' /\ LinkInv' /\ WalkInv'
  BY <1>1, <1>2, <1>3, <1>5 DEF IInv, Arguments, Inserting, Removing, Injective, HeadInv, LinkInv, WalkInv
<1>8. NullInv' /\ StateInv'
  BY <1>1, <1>2, <1>3, <1>4, <1>5 DEF IInv, NullInv, StateInv, OnRing, Ready
<1>9. BoundedWait'
  BY <1>1, <1>3, <1>5, SchedulerAssumption DEF BoundedWait, HTypeOK
<1>. QED
  BY <1>3, <1>6, <1>7, <1>8, <1>9 DEF IInv

(* t->next = t: the list of one (scheduler.c:31). *)
LEMMA LinkSelfKeeps ==
    ASSUME IInv, LinkSelf, UNCHANGED <<ring, waited>>
    PROVE  IInv'
<1>1. mode # "halt" /\ Here = "link_self" /\ Arg \in Task
  BY AtHere, ArgIsTask DEF LinkSelf, Inserting
<1>2. /\ HTypeOK
      /\ frame' \in [Context -> Frames]
      /\ Here' = "user" /\ mode' = mode /\ current_task' = current_task
      /\ OneCall' /\ FreshUnused' /\ SpinUnused' /\ CurrentCreated' /\ OneRunner'
  BY <1>1, ReturnFacts DEF LinkSelf
<1>3. UNCHANGED <<ready_head, state, task_count>> /\ next' = [next EXCEPT ![Arg] = Arg]
  BY DEF LinkSelf, Arg
<1>4. HTypeOK'
  BY <1>1, <1>2, <1>3 DEF HTypeOK, TypeOK
<1>5. Arguments' /\ Injective' /\ HeadInv' /\ StateInv' /\ WalkInv' /\ BoundedWait'
  BY <1>1, <1>2, <1>3 DEF IInv, Arguments, Inserting, Removing, Injective, HeadInv,
       StateInv, OnRing, Ready, WalkInv, BoundedWait
<1>6. Len(ring) = 1 /\ ring[1] = Arg /\ next'[Arg] = Arg /\ \A t \in Task \ {Arg} : next'[t] = next[t]
  BY <1>1, <1>2, <1>3 DEF IInv, HTypeOK, TypeOK, LinkInv
<1>7. LinkInv'
  BY <1>2, <1>3, <1>6 DEF LinkInv
<1>8. NullInv'
  BY <1>1, <1>2, <1>3, <1>6 DEF IInv, NullInv, OnRing
<1>. QED
  BY <1>2, <1>4, <1>5, <1>7, <1>8 DEF IInv

(* The search for the tail begins at the head (scheduler.c:33). *)
LEMMA StartTailKeeps ==
    ASSUME IInv, StartTail, UNCHANGED <<ring, waited>>
    PROVE  IInv'
<1>1. mode # "halt" /\ Here = "insert"
  BY AtHere DEF StartTail
<1>2. UNCHANGED <<ready_head, next, state, task_count>> /\ ready_head # NULL
  BY DEF StartTail, tcbs
<1>3. /\ HTypeOK
      /\ frame' \in [Context -> Frames]
      /\ Here' = "find_tail" /\ Caller' = Caller /\ Arg' = Arg /\ Where' = ready_head
      /\ mode' = mode /\ current_task' = current_task
      /\ OneCall' /\ FreshUnused' /\ SpinUnused' /\ CurrentCreated' /\ OneRunner'
  BY <1>1, <1>2, WalkFacts DEF StartTail, IInv, HTypeOK, TypeOK, Place, Inserting
<1>4. HTypeOK'
  BY <1>2, <1>3 DEF HTypeOK, TypeOK
<1>5. Arguments' /\ Injective' /\ HeadInv' /\ LinkInv' /\ NullInv' 
  BY <1>1, <1>2, <1>3 DEF IInv, Arguments, Injective, HeadInv, LinkInv, NullInv, OnRing, Inserting, Removing
<1>6. StateInv' /\ WalkInv' /\ BoundedWait'
  BY <1>1, <1>2, <1>3 DEF IInv, HTypeOK, StateInv, WalkInv, HeadInv, OnRing, Ready, BoundedWait
<1>. QED
  BY <1>3, <1>4, <1>5, <1>6 DEF IInv

(* The search for the tail moves on (scheduler.c:34-35). *)
LEMMA FindTailKeeps ==
    ASSUME IInv, FindTail, UNCHANGED <<ring, waited>>
    PROVE  IInv'
<1>1. mode # "halt" /\ Here = "find_tail" /\ Where \in Task
  BY AtHere DEF FindTail, Where
<1>2. UNCHANGED <<ready_head, next, state, task_count>>
  BY DEF FindTail, tcbs
<1>3. /\ HTypeOK
      /\ frame' \in [Context -> Frames]
      /\ Here' = "find_tail" /\ Caller' = Caller /\ Arg' = Arg /\ Where' = next[Where]
      /\ mode' = mode /\ current_task' = current_task
      /\ OneCall' /\ FreshUnused' /\ SpinUnused' /\ CurrentCreated' /\ OneRunner'
  BY <1>1, <1>2, WalkFacts DEF FindTail, IInv, HTypeOK, TypeOK, Place, Inserting, Where
<1>4. HTypeOK'
  BY <1>2, <1>3 DEF HTypeOK, TypeOK
<1>5. Arguments' /\ Injective' /\ HeadInv' /\ LinkInv' /\ NullInv' /\ StateInv' /\ BoundedWait'
  BY <1>1, <1>2, <1>3 DEF IInv, Arguments, Injective, HeadInv, LinkInv, NullInv, OnRing, Inserting, Removing,
       StateInv, Ready, BoundedWait
<1>6. WalkInv'
  BY <1>1, <1>2, <1>3 DEF IInv, WalkInv, LinkInv, OnRing
<1>. QED
  BY <1>3, <1>4, <1>5, <1>6 DEF IInv

(* tail->next = t: the task is on the list, the circle still open (scheduler.c:36). *)
LEMMA LinkTailKeeps ==
    ASSUME IInv, LinkTail, ring' = Append(ring, Arg), waited' = [waited EXCEPT ![Arg] = 0]
    PROVE  IInv'
<1>1. mode # "halt" /\ Here = "find_tail" /\ Arg \in Task /\ Where \in Task
  BY AtHere, ArgIsTask DEF LinkTail, Inserting, Where
<1>2. UNCHANGED <<ready_head, state, task_count, cpu>> /\ next' = [next EXCEPT ![Where] = Arg]
  BY DEF LinkTail, Where, Arg
<1>3. /\ HTypeOK
      /\ frame' \in [Context -> Frames]
      /\ Here' = "link_t" /\ Caller' = Caller /\ Arg' = Arg
      /\ mode' = mode /\ current_task' = current_task
      /\ OneCall' /\ FreshUnused' /\ SpinUnused' /\ CurrentCreated' /\ OneRunner'
  BY <1>1, <1>2, WalkFacts DEF LinkTail, GoTo, Place, Inserting, Where
<1> DEFINE n == Len(ring)
<1>4. n \in Nat \ {0} /\ ring # << >> /\ ring[1] = ready_head
  BY <1>1, <1>3, EmptySeq, LenProperties DEF IInv, WalkInv, OnRing, HeadInv, HTypeOK
<1>5. Where = ring[n]
  <2>1. PICK w \in 1..n : Where = ring[w]
    BY <1>1 DEF IInv, WalkInv, OnRing
  <2>2. ASSUME w < n PROVE FALSE
    <3>1. next[Where] = ring[w + 1]
      BY <1>1, <1>4, <2>1, <2>2 DEF IInv, LinkInv
    <3>2. ring[w + 1] = ring[1]
      BY <3>1, <1>4 DEF LinkTail, Where
    <3>. QED
      BY <3>2, <1>4, <2>1, <2>2 DEF IInv, Injective
  <2>. QED
    BY <2>1, <2>2, <1>4
<1>6. /\ ring' \in Seq(Task) /\ Len(ring') = n + 1 /\ ring' # << >>
      /\ \A i \in 1..n : ring'[i] = ring[i]
      /\ ring'[n + 1] = Arg
  BY <1>1, <1>3, <1>4, AppendFacts, EmptySeq DEF HTypeOK
<1>7. \A i \in 1..n : ring[i] \in Task /\ ring[i] # Arg
  BY <1>1, <1>3, ElementOfSeq DEF IInv, HTypeOK, StateInv, OnRing
<1>8. next'[Where] = Arg /\ \A t \in Task \ {Where} : next'[t] = next[t]
  BY <1>1, <1>2, <1>3 DEF HTypeOK, TypeOK
<1>9. HTypeOK'
  BY <1>1, <1>2, <1>3, <1>6, SchedulerAssumption DEF HTypeOK, TypeOK
<1>10. Injective'
  BY <1>4, <1>6, <1>7 DEF IInv, Injective
<1>11. Arguments' /\ HeadInv' /\ WalkInv'
  BY <1>1, <1>2, <1>3, <1>4, <1>6 DEF IInv, Arguments, Inserting, Removing, HeadInv, WalkInv
<1>12. LinkInv'
  BY <1>1, <1>3, <1>4, <1>5, <1>6, <1>7, <1>8 DEF IInv, LinkInv, Injective
<1>13. NullInv'
  BY <1>1, <1>3, <1>4, <1>5, <1>6, <1>8 DEF IInv, NullInv, OnRing
<1>14. StateInv'
  BY <1>1, <1>2, <1>3, <1>4, <1>6 DEF IInv, StateInv, OnRing, Ready
<1>15. BoundedWait'
  <2>1. n + 1 <= OS_MAX_TASKS
    BY <1>6, <1>10, RingFits, SchedulerAssumption DEF Injective
  <2>2. \A i \in 1..n : waited'[ring'[i]] = waited[ring[i]]
    BY <1>3, <1>6, <1>7 DEF HTypeOK
  <2>3. waited'[ring'[n + 1]] = 0
    BY <1>1, <1>3, <1>6 DEF HTypeOK
  <2>. QED
    BY <1>3, <1>4, <1>6, <2>1, <2>2, <2>3 DEF IInv, BoundedWait, HTypeOK
<1>. QED
  BY <1>3, <1>9, <1>10, <1>11, <1>12, <1>13, <1>14, <1>15 DEF IInv

(* t->next = ready_head closes the circle (scheduler.c:37). *)
LEMMA LinkNewKeeps ==
    ASSUME IInv, LinkNew, UNCHANGED <<ring, waited>>
    PROVE  IInv'
<1>1. mode # "halt" /\ Here = "link_t" /\ Arg \in Task
  BY AtHere, ArgIsTask DEF LinkNew, Inserting
<1>2. /\ HTypeOK
      /\ frame' \in [Context -> Frames]
      /\ Here' = "user" /\ mode' = mode /\ current_task' = current_task
      /\ OneCall' /\ FreshUnused' /\ SpinUnused' /\ CurrentCreated' /\ OneRunner'
  BY <1>1, ReturnFacts DEF LinkNew
<1>3. UNCHANGED <<ready_head, state, task_count>> /\ next' = [next EXCEPT ![Arg] = ready_head]
  BY DEF LinkNew, Arg
<1>4. HTypeOK'
  BY <1>1, <1>2, <1>3 DEF HTypeOK, TypeOK
<1>5. Arguments' /\ Injective' /\ HeadInv' /\ StateInv' /\ WalkInv' /\ BoundedWait'
  BY <1>1, <1>2, <1>3 DEF IInv, Arguments, Inserting, Removing, Injective, HeadInv,
       StateInv, OnRing, Ready, WalkInv, BoundedWait
<1>6. LinkInv' /\ NullInv' 
  BY <1>1, <1>2, <1>3 DEF IInv, HTypeOK, TypeOK, LinkInv, NullInv, HeadInv, Injective, OnRing
<1>. QED
  BY <1>2, <1>4, <1>5, <1>6 DEF IInv

-----------------------------------------------------------------------------
(* The invariant survives each step of ready_remove. *)
LEMMA SameIndex ==
    ASSUME IInv, NEW i \in 1..Len(ring), NEW j \in 1..Len(ring), ring[i] = ring[j]
    PROVE  i = j
BY DEF IInv, Injective

(* Position finds the one place of a listed task. *)
LEMMA PositionFacts ==
    ASSUME NEW t, OnRing(t), HTypeOK
    PROVE  Position(t) \in 1..Len(ring) /\ ring[Position(t)] = t
<1>1. DOMAIN ring = 1..Len(ring)
  BY LenProperties DEF HTypeOK
<1>. QED
  BY <1>1 DEF Position, OnRing

(* Nothing to remove from an empty list (scheduler.c:43-44). *)
LEMMA RemoveFromEmptyKeeps ==
    ASSUME IInv, RemoveFromEmpty, UNCHANGED <<ring, waited>>
    PROVE  IInv'
<1>1. mode # "halt" /\ Here = "remove"
  BY AtHere DEF RemoveFromEmpty
<1>2. UNCHANGED <<ready_head, next, state, task_count, cpu>> /\ ready_head = NULL
  BY DEF RemoveFromEmpty, tcbs
<1>3. /\ HTypeOK
      /\ frame' \in [Context -> Frames]
      /\ Here' = "removed" /\ Caller' = Caller /\ Arg' = Arg
      /\ mode' = mode /\ current_task' = current_task
      /\ OneCall' /\ FreshUnused' /\ SpinUnused' /\ CurrentCreated' /\ OneRunner'
  <2>1. frame[Cpu].walk \in Task \cup {NULL}
    BY <1>1, CpuIsContext DEF IInv, HTypeOK, Frames
  <2>. QED
    BY <1>1, <1>2, <2>1, WalkFacts DEF RemoveFromEmpty, GoTo, Place
<1>4. ring = << >> /\ Len(ring) = 0
  <2>1. ring # << >> => ring[1] \in Task /\ ready_head = ring[1]
    BY <1>1, <1>3, EmptySeq, LenProperties, ElementOfSeq DEF IInv, HeadInv, HTypeOK
  <2>. QED
    BY <2>1, <1>2, SchedulerAssumption, EmptySeq DEF Context
<1>5. HTypeOK'
  BY <1>2, <1>3 DEF HTypeOK, TypeOK
<1>6. Arguments' /\ Injective' /\ HeadInv' /\ LinkInv' /\ WalkInv' /\ NullInv' /\ StateInv' /\ BoundedWait'
  BY <1>1, <1>2, <1>3, <1>4 DEF IInv, Arguments, Inserting, Removing, Injective, HeadInv, LinkInv,
       WalkInv, NullInv, OnRing, StateInv, Ready, BoundedWait
<1>. QED
  BY <1>3, <1>5, <1>6 DEF IInv

(* The only task leaves (scheduler.c:46-49). *)
LEMMA RemoveOnlyKeeps ==
    ASSUME IInv, RemoveOnly, ring' = RemoveAt(ring, Position(Arg)), UNCHANGED waited
    PROVE  IInv'
<1>1. mode # "halt" /\ Here = "remove" /\ Arg \in Task
  BY AtHere, ArgIsTask DEF RemoveOnly, Removing
<1>2. /\ UNCHANGED <<next, state, task_count, cpu>>
      /\ next[Arg] = Arg
      /\ ready_head' = IF ready_head = Arg THEN NULL ELSE ready_head
  BY DEF RemoveOnly, tcbs, Arg
<1>3. /\ HTypeOK
      /\ frame' \in [Context -> Frames]
      /\ Here' = "clear_next" /\ Caller' = Caller /\ Arg' = Arg
      /\ mode' = mode /\ current_task' = current_task
      /\ OneCall' /\ FreshUnused' /\ SpinUnused' /\ CurrentCreated' /\ OneRunner'
  <2>1. frame[Cpu].walk \in Task \cup {NULL}
    BY <1>1, CpuIsContext DEF IInv, HTypeOK, Frames
  <2>. QED
    BY <1>1, <1>2, <2>1, WalkFacts DEF RemoveOnly, GoTo, Place, Removing
<1>4. OnRing(Arg)
  BY <1>1, <1>2, SchedulerAssumption DEF IInv, NullInv, Context
<1>5. Len(ring) = 1 /\ ring[1] = Arg /\ ring # << >>
  <2>1. PICK k \in 1..Len(ring) : ring[k] = Arg
    BY <1>4 DEF OnRing
  <2>2. Len(ring) \in Nat /\ ring # << >>
    BY <1>3, <2>1, LenProperties, EmptySeq DEF HTypeOK
  <2>3. ASSUME k < Len(ring) PROVE FALSE
    <3>1. ring[k + 1] = ring[k]
      BY <1>1, <1>2, <2>1, <2>2, <2>3 DEF IInv, LinkInv
    <3>. QED
      BY <3>1, <2>1, <2>2, <2>3 DEF IInv, Injective
  <2>4. ring[Len(ring)] = Arg
    BY <2>1, <2>2, <2>3
  <2>5. ring[1] = ring[Len(ring)]
    BY <1>1, <1>2, <2>2, <2>4 DEF IInv, LinkInv
  <2>6. 1 \in 1..Len(ring) /\ Len(ring) \in 1..Len(ring)
    BY <2>1, <2>2
  <2>7. 1 = Len(ring)
    BY <2>5, <2>6, SameIndex
  <2>. QED
    BY <2>2, <2>4, <2>7
<1>6. ring' \in Seq(Task) /\ Len(ring') = 0 /\ ring' = << >>
  <2>1. Position(Arg) \in 1..Len(ring)
    BY <1>3, <1>4, PositionFacts
  <2>2. RemoveAt(ring, Position(Arg)) \in Seq(Task) /\ Len(RemoveAt(ring, Position(Arg))) = Len(ring) - 1
    BY <1>3, <2>1, RemoveAtFacts DEF HTypeOK
  <2>. QED
    BY <1>5, <2>2, EmptySeq
<1>7. HTypeOK' /\ Arguments' /\ Injective' /\ LinkInv' /\ WalkInv'
  BY <1>1, <1>2, <1>3, <1>6 DEF HTypeOK, TypeOK, IInv, Arguments, Inserting, Removing, Ready, Injective, LinkInv, WalkInv
<1>8. HeadInv'
  BY <1>1, <1>2, <1>3, <1>5, <1>6 DEF IInv, HeadInv
<1>9. NullInv' /\ StateInv' /\ BoundedWait'
  BY <1>1, <1>2, <1>3, <1>5, <1>6 DEF IInv, NullInv, StateInv, OnRing, Ready, BoundedWait
<1>. QED
  BY <1>3, <1>7, <1>8, <1>9 DEF IInv

(* The search for the predecessor begins (scheduler.c:54). *)
LEMMA StartPrevKeeps ==
    ASSUME IInv, StartPrev, UNCHANGED <<ring, waited>>
    PROVE  IInv'
<1>1. mode # "halt" /\ Here = "remove"
  BY AtHere DEF StartPrev
<1>2. UNCHANGED <<ready_head, next, state, task_count>> /\ ready_head # NULL /\ next[Arg] # Arg
  BY DEF StartPrev, tcbs, Arg
<1>3. /\ HTypeOK
      /\ frame' \in [Context -> Frames]
      /\ Here' = "find_prev" /\ Caller' = Caller /\ Arg' = Arg /\ Where' = ready_head
      /\ mode' = mode /\ current_task' = current_task
      /\ OneCall' /\ FreshUnused' /\ SpinUnused' /\ CurrentCreated' /\ OneRunner'
  BY <1>1, <1>2, WalkFacts DEF StartPrev, IInv, HTypeOK, TypeOK, Place, Removing
<1>4. HTypeOK' /\ Arguments' /\ Injective' /\ HeadInv' /\ LinkInv'
  BY <1>1, <1>2, <1>3 DEF HTypeOK, TypeOK, IInv, Arguments, Inserting, Removing, Ready, Injective, HeadInv, LinkInv
<1>5. NullInv' /\ StateInv' /\ BoundedWait'
  BY <1>1, <1>2, <1>3 DEF IInv, NullInv, StateInv, OnRing, Ready, BoundedWait
<1>6. ready_head = ring[1] /\ Len(ring) \in Nat \ {0}
  BY <1>1, <1>2, <1>3, LenProperties, EmptySeq DEF IInv, HeadInv, HTypeOK
<1>7. WalkInv'
  BY <1>2, <1>3, <1>6 DEF WalkInv, OnRing
<1>. QED
  BY <1>3, <1>4, <1>5, <1>7 DEF IInv

(* The search for the predecessor moves on (scheduler.c:55-59). *)
LEMMA FindPrevKeeps ==
    ASSUME IInv, FindPrev, UNCHANGED <<ring, waited>>
    PROVE  IInv'
<1> DEFINE n == Len(ring)
           prev == next[Where]
           place == IF prev = ready_head THEN "removed" ELSE "find_prev"
<1>1. mode # "halt" /\ Here = "find_prev" /\ Where \in Task
  BY AtHere DEF FindPrev, Where
<1>2. UNCHANGED <<ready_head, next, state, task_count>> /\ prev # Arg
  BY DEF FindPrev, tcbs, Arg, Where
<1>3. /\ HTypeOK
      /\ frame' \in [Context -> Frames]
      /\ Here' = place /\ Caller' = Caller /\ Arg' = Arg /\ Where' = prev
      /\ mode' = mode /\ current_task' = current_task
      /\ OneCall' /\ FreshUnused' /\ SpinUnused' /\ CurrentCreated' /\ OneRunner'
  <2>1. prev \in Task \cup {NULL} /\ place \in Place /\ place # "spin"
    BY <1>1 DEF IInv, HTypeOK, TypeOK, Place, Removing
  <2>2. Walk(place, prev)
    BY DEF FindPrev, Where
  <2>. HIDE DEF place, prev
  <2>. QED
    BY <1>1, <1>2, <2>1, <2>2, WalkFacts DEF FindPrev
<1>4. n \in Nat \ {0} /\ ring[1] = ready_head
  BY <1>1, <1>3, LenProperties, EmptySeq DEF IInv, WalkInv, OnRing, HeadInv, HTypeOK
<1>5. PICK w \in 1..n : Where = ring[w]
  BY <1>1 DEF IInv, WalkInv, OnRing
<1>6. (w < n => prev = ring[w + 1]) /\ (w = n => prev = ring[1])
  BY <1>1, <1>4, <1>5, <1>3, EmptySeq DEF IInv, LinkInv, HTypeOK
<1>7. \A k \in 1..n : ring[k] = Arg => (k > 1 => w + 1 < k) /\ (k = 1 => w < n)
  <2>. SUFFICES ASSUME NEW k \in 1..n, ring[k] = Arg PROVE (k > 1 => w + 1 < k) /\ (k = 1 => w < n)
    OBVIOUS
  <2>1. k # w + 1
    BY <1>2, <1>4, <1>5, <1>6
  <2>2. k = 1 => w < n
    BY <1>2, <1>4, <1>5, <1>6
  <2>3. k > 1 => w < k
    <3>. SUFFICES ASSUME k > 1 PROVE w < k
      OBVIOUS
    <3>1. PICK i \in 1..k - 1 : Where = ring[i]
      BY <1>1, <1>4 DEF IInv, WalkInv
    <3>2. i \in 1..n
      BY <3>1, <1>4
    <3>3. i = w
      BY <3>1, <3>2, <1>5, SameIndex
    <3>. QED
      BY <3>1, <3>3
  <2>. QED
    BY <2>1, <2>2, <2>3, <1>4, <1>5
<1>8. HTypeOK' /\ Arguments' /\ Injective' /\ HeadInv' /\ LinkInv' /\ NullInv' /\ BoundedWait'
  BY <1>1, <1>2, <1>3 DEF HTypeOK, TypeOK, IInv, Arguments, Inserting, Removing, Ready, Injective,
       HeadInv, LinkInv, NullInv, OnRing, BoundedWait
<1>9. StateInv' /\ WalkInv'
  <2>1. CASE prev = ready_head
    <3>1. w = n
      <4>. SUFFICES ASSUME w < n PROVE FALSE
        BY <1>4, <1>5
      <4>1. 1 \in 1..n /\ w + 1 \in 1..n /\ ring[w + 1] = ring[1]
        BY <1>4, <1>5, <1>6, <2>1
      <4>2. w + 1 = 1
        BY <4>1, SameIndex
      <4>. QED
        BY <4>2, <1>5
    <3>2. ~OnRing(Arg)
      BY <3>1, <1>4, <1>7 DEF OnRing
    <3>. QED
      BY <1>1, <1>2, <1>3, <2>1, <3>2 DEF IInv, StateInv, WalkInv, OnRing, Ready
  <2>2. CASE prev # ready_head
    BY <1>1, <1>2, <1>3, <1>4, <1>5, <1>6, <1>7, <2>2 DEF IInv, StateInv, WalkInv, OnRing, Ready
  <2>. QED
    BY <2>1, <2>2
<1>. QED
  BY <1>3, <1>8, <1>9 DEF IInv

(* prev->next = t->next takes the task out of the circle (scheduler.c:61). *)
LEMMA UnlinkKeeps ==
    ASSUME IInv, Unlink, ring' = RemoveAt(ring, Position(Arg)), UNCHANGED waited
    PROVE  IInv'
<1> DEFINE n == Len(ring)
           k == Position(Arg)
<1>1. mode # "halt" /\ Here = "find_prev" /\ Where \in Task /\ Arg \in Task
  BY AtHere, ArgIsTask DEF Unlink, Removing, Where
<1>2. /\ UNCHANGED <<ready_head, state, task_count, cpu>>
      /\ next[Where] = Arg
      /\ next' = [next EXCEPT ![Where] = next[Arg]]
  BY DEF Unlink, Arg, Where
<1>3. /\ HTypeOK
      /\ frame' \in [Context -> Frames]
      /\ Here' = "advance_head" /\ Caller' = Caller /\ Arg' = Arg
      /\ mode' = mode /\ current_task' = current_task
      /\ OneCall' /\ FreshUnused' /\ SpinUnused' /\ CurrentCreated' /\ OneRunner'
  BY <1>1, <1>2, WalkFacts DEF Unlink, GoTo, Place, Removing, Where
<1>4. n \in Nat \ {0} /\ ring # << >> /\ ring[1] = ready_head
  BY <1>1, <1>3, LenProperties, EmptySeq DEF IInv, WalkInv, OnRing, HeadInv, HTypeOK
<1>5. PICK w \in 1..n : Where = ring[w]
  BY <1>1 DEF IInv, WalkInv, OnRing
<1>6. /\ \A i \in 1..n - 1 : next[ring[i]] = ring[i + 1]
      /\ next[ring[n]] = ring[1]
  BY <1>1, <1>4 DEF IInv, LinkInv
<1>7. (w < n => Arg = ring[w + 1]) /\ (w = n => Arg = ring[1])
  BY <1>2, <1>4, <1>5, <1>6
<1>8. k \in 1..n /\ ring[k] = Arg
  <2>1. OnRing(Arg)
    BY <1>4, <1>5, <1>7 DEF OnRing
  <2>. QED
    BY <1>3, <2>1, PositionFacts
<1>. HIDE DEF k
<1>9. (w < n => k = w + 1) /\ (w = n => k = 1)
  <2>1. CASE w < n
    <3>1. w + 1 \in 1..n /\ ring[w + 1] = ring[k]
      BY <1>4, <1>5, <1>7, <1>8, <2>1
    <3>2. w + 1 = k
      BY <3>1, <1>8, SameIndex
    <3>. QED
      BY <2>1, <3>2
  <2>2. CASE w = n
    <3>1. 1 \in 1..n /\ ring[1] = ring[k]
      BY <1>4, <1>7, <1>8, <2>2
    <3>2. 1 = k
      BY <3>1, <1>8, SameIndex
    <3>. QED
      BY <2>2, <3>2
  <2>. QED
    BY <2>1, <2>2, <1>4, <1>5
<1>10. w # k
  BY <1>1, <1>2, <1>5, <1>8 DEF IInv, WalkInv
<1>11. /\ n > 1
       /\ next[Arg] = IF k < n THEN ring[k + 1] ELSE ring[1]
  BY <1>4, <1>5, <1>6, <1>8, <1>9, <1>10
<1>12. /\ ring' \in Seq(Task)
       /\ Len(ring') = n - 1
       /\ \A i \in 1..n - 1 : ring'[i] = IF i < k THEN ring[i] ELSE ring[i + 1]
       /\ ring' # << >>
  <2>1. /\ RemoveAt(ring, k) \in Seq(Task)
        /\ Len(RemoveAt(ring, k)) = n - 1
        /\ \A i \in 1..n - 1 : RemoveAt(ring, k)[i] = IF i < k THEN ring[i] ELSE ring[i + 1]
    BY <1>3, <1>8, RemoveAtFacts DEF HTypeOK
  <2>2. ring' = RemoveAt(ring, k)
    BY DEF k
  <2>. QED
    BY <2>1, <2>2, <1>4, <1>11, EmptySeq
<1>13. \A t \in Task : OnRing(t)' <=> OnRing(t) /\ t # Arg
  <2>1. ASSUME NEW t \in Task, OnRing(t)' PROVE OnRing(t) /\ t # Arg
    <3>1. PICK i \in 1..n - 1 : ring'[i] = t
      BY <2>1, <1>12 DEF OnRing
    <3>2. PICK j \in 1..n : ring[j] = t /\ j # k
      BY <3>1, <1>4, <1>8, <1>12
    <3>3. t # Arg
      BY <3>2, <1>8, SameIndex
    <3>. QED
      BY <3>2, <3>3 DEF OnRing
  <2>2. ASSUME NEW t \in Task, OnRing(t), t # Arg PROVE OnRing(t)'
    <3>1. PICK j \in 1..n : ring[j] = t
      BY <2>2 DEF OnRing
    <3>2. j # k
      BY <3>1, <2>2, <1>8
    <3>3. PICK i \in 1..n - 1 : ring'[i] = t
      <4>1. CASE j < k
        BY <4>1, <3>1, <1>4, <1>8, <1>12
      <4>2. CASE j > k
        <5>1. j - 1 \in 1..n - 1 /\ ring'[j - 1] = ring[(j - 1) + 1]
          BY <4>2, <3>1, <1>4, <1>8, <1>12
        <5>. QED
          BY <5>1, <3>1, <1>4
      <4>. QED
        BY <4>1, <4>2, <3>1, <3>2, <1>4, <1>8
    <3>. QED
      BY <3>3, <1>12 DEF OnRing
  <2>. QED
    BY <2>1, <2>2
<1>14. next'[Where] = next[Arg] /\ \A t \in Task \ {Where} : next'[t] = next[t]
  BY <1>1, <1>2, <1>3 DEF HTypeOK, TypeOK
<1>15. \A i \in 1..n : ring[i] \in Task /\ (i # w => ring[i] # Where)
  <2>1. \A i \in 1..n : ring[i] \in Task
    BY <1>3, ElementOfSeq DEF HTypeOK
  <2>. QED
    BY <2>1, <1>5, SameIndex
<1>16. HTypeOK' /\ Arguments'
  BY <1>1, <1>2, <1>3, <1>12 DEF HTypeOK, TypeOK, IInv, Arguments, Inserting, Removing, Ready
<1>17. Injective'
  <2>. SUFFICES ASSUME NEW i \in 1..n - 1, NEW j \in 1..n - 1, ring'[i] = ring'[j] PROVE i = j
    BY <1>12 DEF Injective
  <2> DEFINE f(x) == IF x < k THEN x ELSE x + 1
  <2>1. f(i) \in 1..n /\ f(j) \in 1..n /\ ring[f(i)] = ring[f(j)]
    BY <1>4, <1>8, <1>12
  <2>2. f(i) = f(j)
    <3>. HIDE DEF f
    <3>. QED BY <2>1, SameIndex
  <2>. QED
    BY <2>2, <1>8, <1>4
<1>18. HeadInv'
  <2>1. next'[Arg] = next[Arg]
    BY <1>1, <1>8, <1>10, <1>14, <1>15
  <2>2. CASE k = 1
    <3>1. ready_head = Arg /\ next[Arg] = ring[2] /\ ring'[1] = ring[2]
      BY <2>2, <1>4, <1>8, <1>11, <1>12
    <3>. QED
      BY <2>1, <3>1, <1>2, <1>3, <1>12 DEF HeadInv
  <2>3. CASE k > 1
    <3>1. 1 \in 1..n /\ ring'[1] = ring[1]
      BY <2>3, <1>4, <1>11, <1>12
    <3>2. ready_head # Arg
      BY <2>3, <3>1, <1>4, <1>8, SameIndex
    <3>. QED
      BY <3>1, <3>2, <1>2, <1>3, <1>4, <1>12 DEF HeadInv
  <2>. QED
    BY <2>2, <2>3, <1>8
<1>19. LinkInv'
  <2>1. ASSUME NEW i \in 1..n - 2 PROVE next'[ring'[i]] = ring'[i + 1]
    <3>1. CASE i < k - 1
      <4>1. i \in 1..n - 1 /\ i + 1 \in 1..n - 1 /\ i < k /\ i + 1 < k /\ i # w
        BY <3>1, <2>1, <1>4, <1>5, <1>8, <1>9
      <4>2. ring'[i] = ring[i] /\ ring'[i + 1] = ring[i + 1]
        BY <4>1, <1>12
      <4>. QED
        BY <4>1, <4>2, <1>4, <1>6, <1>14, <1>15
    <3>2. CASE i = k - 1
      <4>1. i \in 1..n - 1 /\ i + 1 \in 1..n - 1 /\ i < k /\ ~(i + 1 < k) /\ i + 1 = k /\ k < n /\ w = i
        BY <3>2, <2>1, <1>4, <1>5, <1>8, <1>9
      <4>2. ring'[i] = Where /\ ring'[i + 1] = ring[k + 1]
        BY <4>1, <1>5, <1>12
      <4>. QED
        BY <4>1, <4>2, <1>11, <1>14
    <3>3. CASE i >= k
      <4>1. i + 1 \in 1..n - 1 /\ ring'[i] = ring[i + 1] /\ ring'[i + 1] = ring[(i + 1) + 1] /\ i + 1 # w
        BY <3>3, <2>1, <1>4, <1>5, <1>8, <1>9, <1>12
      <4>. QED
        BY <4>1, <1>4, <1>6, <1>14, <1>15
    <3>. QED
      BY <3>1, <3>2, <3>3, <2>1, <1>4, <1>8
  <2>2. next'[ring'[n - 1]] = ring'[1]
    <3>1. CASE k = n
      <4>1. w = n - 1 /\ n - 1 < k /\ 1 < k /\ 1 \in 1..n - 1 /\ n - 1 \in 1..n - 1
        BY <3>1, <1>4, <1>5, <1>8, <1>9, <1>11
      <4>2. ring'[n - 1] = Where /\ ring'[1] = ring[1]
        BY <4>1, <1>5, <1>12
      <4>. QED
        BY <3>1, <4>2, <1>11, <1>14
    <3>2. CASE k < n /\ k = 1
      <4>1. w = n /\ ~(n - 1 < k) /\ ~(1 < k) /\ 1 \in 1..n - 1 /\ n - 1 \in 1..n - 1 /\ (n - 1) + 1 = n
        BY <3>2, <1>4, <1>5, <1>8, <1>9, <1>11
      <4>2. ring'[n - 1] = Where /\ ring'[1] = ring[k + 1]
        BY <3>2, <4>1, <1>5, <1>12
      <4>. QED
        BY <3>2, <4>2, <1>11, <1>14
    <3>3. CASE k < n /\ k > 1
      <4>1. n # w /\ n \in 1..n /\ ring'[n - 1] = ring[n] /\ ring'[1] = ring[1]
        BY <3>3, <1>4, <1>5, <1>8, <1>9, <1>11, <1>12
      <4>. QED
        BY <4>1, <1>6, <1>14, <1>15
    <3>. QED
      BY <3>1, <3>2, <3>3, <1>4, <1>8
  <2>. QED
    BY <2>1, <2>2, <1>3, <1>4, <1>12 DEF LinkInv
<1>20. NullInv'
  BY <1>1, <1>3, <1>5, <1>13, <1>14 DEF IInv, NullInv, OnRing
<1>21. StateInv'
  <2>1. OnRing(Arg) /\ \A t \in Task : t \in Ready <=> OnRing(t)
    BY <1>1, <1>8 DEF IInv, StateInv, OnRing
  <2>2. Ready' = Ready
    BY <1>2 DEF Ready
  <2>3. ~OnRing(Arg)' /\ \A t \in Task : t \in Ready' <=> OnRing(t)' \/ t = Arg
    BY <2>1, <2>2, <1>1, <1>3, <1>13
  <2>. QED
    BY <2>3, <1>3 DEF StateInv, OnRing
<1>22. WalkInv'
  BY <1>3 DEF WalkInv
<1>23. BoundedWait'
  <2>. SUFFICES ASSUME NEW i \in 1..n - 1 PROVE waited[ring'[i]] + i <= OS_MAX_TASKS
    BY <1>12, LenProperties DEF BoundedWait
  <2>1. \A j \in 1..n : waited[ring[j]] + j <= OS_MAX_TASKS /\ waited[ring[j]] \in Nat
    BY <1>3, <1>15, LenProperties, SchedulerAssumption DEF IInv, BoundedWait, HTypeOK
  <2>2. CASE i < k
    BY <2>1, <2>2, <1>4, <1>12
  <2>3. CASE i >= k
    <3>1. i + 1 \in 1..n /\ ring'[i] = ring[i + 1]
      BY <2>3, <1>4, <1>8, <1>12
    <3>2. waited[ring[i + 1]] + (i + 1) <= OS_MAX_TASKS /\ waited[ring[i + 1]] \in Nat
      BY <3>1, <2>1
    <3>. QED
      BY <3>1, <3>2, SchedulerAssumption
  <2>. QED
    BY <2>2, <2>3, <1>4, <1>8
<1>. QED
  BY <1>3, <1>16, <1>17, <1>18, <1>19, <1>20, <1>21, <1>22, <1>23 DEF IInv

(* ready_head moves on if the task was the head (scheduler.c:62-63). *)
LEMMA AdvanceHeadKeeps ==
    ASSUME IInv, AdvanceHead, UNCHANGED <<ring, waited>>
    PROVE  IInv'
<1>1. mode # "halt" /\ Here = "advance_head" /\ Arg \in Task
  BY AtHere, ArgIsTask DEF AdvanceHead, Removing
<1>2. /\ UNCHANGED <<next, state, task_count, cpu>>
      /\ ready_head' = IF ready_head = Arg THEN next[Arg] ELSE ready_head
  BY DEF AdvanceHead, tcbs, Arg
<1>3. /\ HTypeOK
      /\ frame' \in [Context -> Frames]
      /\ Here' = "clear_next" /\ Caller' = Caller /\ Arg' = Arg
      /\ mode' = mode /\ current_task' = current_task
      /\ OneCall' /\ FreshUnused' /\ SpinUnused' /\ CurrentCreated' /\ OneRunner'
  <2>1. frame[Cpu].walk \in Task \cup {NULL}
    BY <1>1, CpuIsContext DEF IInv, HTypeOK, Frames
  <2>. QED
    BY <1>1, <1>2, <2>1, WalkFacts DEF AdvanceHead, GoTo, Place, Removing
<1>4. HTypeOK' /\ Arguments' /\ Injective' /\ LinkInv' /\ WalkInv'
  BY <1>1, <1>2, <1>3 DEF HTypeOK, TypeOK, IInv, Arguments, Inserting, Removing, Ready, Injective, LinkInv, WalkInv
<1>5. HeadInv'
  BY <1>1, <1>2, <1>3 DEF IInv, HeadInv
<1>6. NullInv' /\ StateInv' /\ BoundedWait'
  BY <1>1, <1>2, <1>3 DEF IInv, NullInv, StateInv, OnRing, Ready, BoundedWait
<1>. QED
  BY <1>3, <1>4, <1>5, <1>6 DEF IInv

(* t->next = NULL ends ready_remove (scheduler.c:64). *)
LEMMA ClearNextKeeps ==
    ASSUME IInv, ClearNext, UNCHANGED <<ring, waited>>
    PROVE  IInv'
<1>1. mode # "halt" /\ Here = "clear_next" /\ Arg \in Task
  BY AtHere, ArgIsTask DEF ClearNext, Removing
<1>2. UNCHANGED <<ready_head, state, task_count, cpu>> /\ next' = [next EXCEPT ![Arg] = NULL]
  BY DEF ClearNext, Arg
<1>3. /\ HTypeOK
      /\ frame' \in [Context -> Frames]
      /\ Here' = "removed" /\ Caller' = Caller /\ Arg' = Arg
      /\ mode' = mode /\ current_task' = current_task
      /\ OneCall' /\ FreshUnused' /\ SpinUnused' /\ CurrentCreated' /\ OneRunner'
  <2>1. frame[Cpu].walk \in Task \cup {NULL}
    BY <1>1, CpuIsContext DEF IInv, HTypeOK, Frames
  <2>. QED
    BY <1>1, <1>2, <2>1, WalkFacts DEF ClearNext, GoTo, Place
<1>4. /\ \A i \in 1..Len(ring) : ring[i] # Arg /\ ring[i] \in Task
      /\ next'[Arg] = NULL /\ \A t \in Task \ {Arg} : next'[t] = next[t]
  BY <1>1, <1>2, <1>3, ElementOfSeq DEF IInv, HTypeOK, TypeOK, StateInv, OnRing
<1>5. HTypeOK' /\ Arguments' /\ Injective' /\ HeadInv' /\ WalkInv'
  BY <1>1, <1>2, <1>3 DEF HTypeOK, TypeOK, IInv, Arguments, Inserting, Removing, Ready, Injective, HeadInv, WalkInv
<1>6. LinkInv'
  <2>1. Len(ring) \in Nat /\ (ring # << >> => Len(ring) > 0)
    BY <1>3, LenProperties, EmptySeq DEF HTypeOK
  <2>. QED
    BY <1>1, <1>2, <1>3, <1>4, <2>1 DEF IInv, LinkInv
<1>7. NullInv' /\ StateInv' /\ BoundedWait'
  BY <1>1, <1>2, <1>3, <1>4 DEF IInv, NullInv, StateInv, OnRing, Ready, BoundedWait
<1>. QED
  BY <1>3, <1>5, <1>6, <1>7 DEF IInv

(* The caller of ready_remove sets the state of the task it removed. *)
LEMMA AfterRemoveKeeps ==
    ASSUME IInv, AfterRemove, UNCHANGED <<ring, waited>>
    PROVE  IInv'
<1>1. mode # "halt" /\ Here = "removed" /\ Arg \in Task
  BY AtHere, ArgIsTask DEF AfterRemove
<1>2. UNCHANGED <<ready_head, next, task_count, cpu>>
  BY DEF AfterRemove
<1>3. HTypeOK /\ OneCall
  BY DEF IInv
<1>4. /\ mode = "task" /\ Caller \in {"block", "exit"}
      /\ Arg \in 1..task_count
      /\ Caller = "exit" => Arg = current_task
      /\ Caller = "block" => Arg \in Ready
  BY <1>1 DEF IInv, Arguments
<1> DEFINE f == IF Caller = "exit" THEN SpinFrame ELSE UserFrame
           v == IF Caller = "exit" THEN "UNUSED" ELSE "BLOCKED"
<1>5. SetFrame(Cpu, f) /\ state' = [state EXCEPT ![Arg] = v]
  BY <1>4 DEF AfterRemove, Return, Caller, Arg
<1>6. f \in Frames /\ f.at = IF Caller = "exit" THEN "spin" ELSE "user"
  BY DEF SpinFrame, UserFrame, Frame, Frames, Place, Call
<1>. HIDE DEF f
<1>7. /\ frame' \in [Context -> Frames]
      /\ Here' = (IF Caller = "exit" THEN "spin" ELSE "user")
      /\ mode' = mode /\ current_task' = current_task
      /\ OneCall'
      /\ \A c \in Context : frame'[c].at = "spin" =>
             frame[c].at = "spin" \/ (c = Cpu /\ Caller = "exit")
  BY <1>1, <1>2, <1>3, <1>5, <1>6, FrameFacts
<1>8. state' \in [Task -> State] /\ state'[Arg] = v /\ \A t \in Task \ {Arg} : state'[t] = state[t]
  BY <1>1, <1>3, <1>5 DEF HTypeOK, TypeOK, State
<1>9. HTypeOK'
  BY <1>2, <1>3, <1>7, <1>8 DEF HTypeOK, TypeOK
<1>10. FreshUnused'
  <2>1. \A t \in Task : t > task_count => t # Arg
    BY <1>3, <1>4 DEF HTypeOK, TypeOK, Task
  <2>. QED
    BY <1>2, <1>8, <2>1 DEF IInv, FreshUnused
<1>11. SpinUnused'
  <2>. SUFFICES ASSUME NEW c \in Context, frame'[c].at = "spin"
                PROVE  c \in 1..task_count /\ state'[c] = "UNUSED"
    BY <1>2 DEF SpinUnused
  <2>1. CASE frame[c].at = "spin"
    <3>1. c \in 1..task_count /\ state[c] = "UNUSED"
      BY <2>1 DEF IInv, SpinUnused
    <3>2. c \in Task
      BY <3>1, <1>3, SchedulerAssumption DEF HTypeOK, TypeOK, Task
    <3>3. c = Arg => v = "UNUSED"
      BY <3>1, <1>4 DEF Ready
    <3>. QED
      BY <3>1, <3>2, <3>3, <1>8
  <2>2. CASE c = Cpu /\ Caller = "exit"
    BY <2>2, <1>4, <1>8 DEF Cpu
  <2>. QED
    BY <2>1, <2>2, <1>7
<1>12. CurrentCreated' /\ Arguments' /\ Injective' /\ HeadInv' /\ LinkInv' /\ NullInv' /\ WalkInv' /\ BoundedWait'
  BY <1>1, <1>2, <1>7 DEF IInv, CurrentCreated, Arguments, Inserting, Removing, Injective,
       HeadInv, LinkInv, NullInv, OnRing, WalkInv, BoundedWait
<1>13. StateInv'
  <2>1. ~OnRing(Arg) /\ \A t \in Task : t # Arg => (t \in Ready <=> OnRing(t))
    BY <1>1 DEF IInv, StateInv
  <2>2. \A t \in Task : t \in Ready' <=> t \in Ready /\ t # Arg
    BY <1>8 DEF Ready
  <2>3. \A t \in Task : t \in Ready' <=> OnRing(t)
    BY <2>1, <2>2
  <2>. QED
    BY <2>3, <1>7 DEF StateInv, OnRing
<1>14. OneRunner'
  BY <1>7, <1>8 DEF IInv, OneRunner
<1>. QED
  BY <1>7, <1>9, <1>10, <1>11, <1>12, <1>13, <1>14 DEF IInv

-----------------------------------------------------------------------------
(* The invariant survives the calls' entries. *)
LEMMA EnterFacts ==
    ASSUME IInv, mode # "halt", UNCHANGED cpu, NEW place \in Place, place # "spin",
           NEW call \in Call, NEW t \in Task, Enter(Cpu, place, call, t)
    PROVE  /\ HTypeOK
           /\ frame' \in [Context -> Frames]
           /\ Here' = place /\ Caller' = call /\ Arg' = t
           /\ mode' = mode /\ current_task' = current_task
           /\ OneCall'
           /\ \A c \in Context : frame'[c].at = "spin" => frame[c].at = "spin"
<1>1. HTypeOK /\ OneCall
  BY DEF IInv
<1> DEFINE f == Frame(place, call, t, NULL)
<1>2. f \in Frames /\ f.at = place /\ f.call = call /\ f.t = t
  BY DEF Frame, Frames
<1>3. SetFrame(Cpu, f)
  BY DEF Enter
<1>. HIDE DEF f
<1>. QED
  BY <1>1, <1>2, <1>3, FrameFacts

(* A fresh slot is taken and its task inserted (scheduler.c:116-193). *)
LEMMA OS_TaskCreateKeeps ==
    ASSUME IInv, OS_TaskCreate, UNCHANGED <<ring, waited>>
    PROVE  IInv'
<1> DEFINE t == task_count + 1
<1>1. mode # "halt" /\ Here = "user"
  BY AtHere DEF OS_TaskCreate
<1>2. /\ task_count < OS_MAX_TASKS /\ task_count' = t
      /\ next' = [next EXCEPT ![t] = NULL]
      /\ state' = [state EXCEPT ![t] = "READY"]
      /\ UNCHANGED <<ready_head, cpu>>
      /\ Enter(Cpu, "insert", "create", t)
  BY DEF OS_TaskCreate
<1>3. HTypeOK
  BY DEF IInv
<1>4. task_count \in Nat /\ t \in Task
  BY <1>2, <1>3, SchedulerAssumption DEF HTypeOK, TypeOK, Task
<1>. HIDE DEF t
<1>5. /\ frame' \in [Context -> Frames]
      /\ Here' = "insert" /\ Caller' = "create" /\ Arg' = t
      /\ mode' = mode /\ current_task' = current_task
      /\ OneCall'
      /\ \A c \in Context : frame'[c].at = "spin" => frame[c].at = "spin"
  BY <1>1, <1>2, <1>4, EnterFacts DEF Place, Inserting, Call
<1>6. state[t] = "UNUSED" /\ ~OnRing(t) /\ t \notin 1..task_count
  <2>1. t > task_count
    BY <1>4 DEF t
  <2>2. state[t] = "UNUSED"
    BY <1>4, <2>1 DEF IInv, FreshUnused
  <2>. QED
    BY <1>1, <1>4, <2>1, <2>2 DEF IInv, StateInv, Ready
<1>7. /\ next'[t] = NULL /\ \A s \in Task \ {t} : next'[s] = next[s]
      /\ state'[t] = "READY" /\ \A s \in Task \ {t} : state'[s] = state[s]
  BY <1>2, <1>3, <1>4 DEF HTypeOK, TypeOK
<1>8. HTypeOK'
  <2>1. task_count' \in 0..OS_MAX_TASKS
    BY <1>2, <1>4, SchedulerAssumption DEF t
  <2>. QED
    BY <2>1, <1>2, <1>3, <1>5 DEF HTypeOK, TypeOK, State
<1>9. FreshUnused' /\ CurrentCreated'
  <2>1. \A s \in Task : s > t => s # t /\ s > task_count
    BY <1>4 DEF t, Task
  <2>2. FreshUnused'
    BY <2>1, <1>2, <1>7 DEF IInv, FreshUnused
  <2>3. 1..task_count \subseteq 1..t
    BY <1>4 DEF t
  <2>. QED
    BY <2>2, <2>3, <1>2, <1>5 DEF IInv, CurrentCreated
<1>10. SpinUnused'
  <2>. SUFFICES ASSUME NEW c \in Context, frame'[c].at = "spin"
                PROVE  c \in 1..task_count' /\ state'[c] = "UNUSED"
    BY DEF SpinUnused
  <2>1. c \in 1..task_count /\ state[c] = "UNUSED"
    BY <1>5 DEF IInv, SpinUnused
  <2>2. c \in Task /\ c # t
    BY <2>1, <1>6, <1>3, SchedulerAssumption DEF HTypeOK, TypeOK, Task
  <2>. QED
    BY <2>1, <2>2, <1>2, <1>4, <1>7 DEF t
<1>11. Arguments'
  BY <1>2, <1>4, <1>5 DEF Arguments, Inserting, Removing, t
<1>12. \A i \in 1..Len(ring) : ring[i] # t /\ ring[i] \in Task
  BY <1>3, <1>6, ElementOfSeq DEF OnRing, HTypeOK
<1>13. Injective' /\ HeadInv' /\ WalkInv' /\ BoundedWait'
  BY <1>1, <1>2, <1>5 DEF IInv, Injective, HeadInv, WalkInv, BoundedWait
<1>14. LinkInv'
  <2>1. Len(ring) \in Nat /\ (ring # << >> => Len(ring) > 0)
    BY <1>3, LenProperties, EmptySeq DEF HTypeOK
  <2>. QED
    BY <1>1, <1>2, <1>5, <1>7, <1>12, <2>1 DEF IInv, LinkInv
<1>15. NullInv'
  BY <1>1, <1>5, <1>7 DEF IInv, NullInv, OnRing
<1>16. StateInv'
  <2>1. \A s \in Task : s \in Ready' <=> s \in Ready \/ s = t
    BY <1>7, <1>4 DEF Ready
  <2>. QED
    BY <1>1, <1>5, <1>6, <2>1 DEF IInv, StateInv, OnRing
<1>17. OneRunner'
  BY <1>5, <1>7 DEF IInv, OneRunner
<1>. QED
  BY <1>5, <1>8, <1>9, <1>10, <1>11, <1>13, <1>14, <1>15, <1>16, <1>17 DEF IInv

(* OS_TaskExit and OS_TaskBlock begin with ready_remove. *)
LEMMA RemovingKeeps ==
    ASSUME IInv, mode = "task", Here = "user",
           NEW call \in {"block", "exit"}, NEW t \in Task, Enter(Cpu, "remove", call, t),
           IF call = "exit" THEN t = current_task ELSE t \in Ready,
           UNCHANGED <<ready_head, tcbs, cpu, ring, waited>>
    PROVE  IInv'
<1>1. UNCHANGED <<next, state, task_count>>
  BY DEF tcbs
<1>2. /\ HTypeOK
      /\ frame' \in [Context -> Frames]
      /\ Here' = "remove" /\ Caller' = call /\ Arg' = t
      /\ mode' = mode /\ current_task' = current_task
      /\ OneCall'
      /\ \A c \in Context : frame'[c].at = "spin" => frame[c].at = "spin"
  BY EnterFacts DEF Place, Removing, Call
<1>3. t \in 1..task_count
  <2>1. CASE call = "exit"
    BY <2>1, SchedulerAssumption DEF IInv, CurrentCreated, Context
  <2>2. CASE call = "block"
    BY <2>2, <1>2 DEF IInv, FreshUnused, Ready, HTypeOK, TypeOK, Task
  <2>. QED
    BY <2>1, <2>2
<1>4. HTypeOK' /\ FreshUnused' /\ SpinUnused' /\ CurrentCreated'
  BY <1>1, <1>2 DEF HTypeOK, TypeOK, IInv, FreshUnused, SpinUnused, CurrentCreated
<1>5. Arguments'
  BY <1>1, <1>2, <1>3 DEF Arguments, Inserting, Removing, Ready
<1>6. Injective' /\ HeadInv' /\ LinkInv' /\ NullInv' /\ StateInv' /\ WalkInv' /\ OneRunner' /\ BoundedWait'
  BY <1>1, <1>2 DEF IInv, Injective, HeadInv, LinkInv, NullInv, OnRing, StateInv, Ready, WalkInv, OneRunner, BoundedWait
<1>. QED
  BY <1>2, <1>4, <1>5, <1>6 DEF IInv

(* The current task begins to leave for good (scheduler.c:195-198). *)
LEMMA OS_TaskExitKeeps ==
    ASSUME IInv, OS_TaskExit, UNCHANGED <<ring, waited>>
    PROVE  IInv'
<1>1. mode = "task" /\ Here = "user" /\ current_task \in Task
  BY AtHere DEF OS_TaskExit, IInv, HTypeOK, TypeOK
<1>. QED
  BY <1>1, RemovingKeeps DEF OS_TaskExit

(* A task begins to block (scheduler.c:235-242). *)
LEMMA OS_TaskBlockKeeps ==
    ASSUME IInv, NEW t \in Task, OS_TaskBlock(t), UNCHANGED <<ring, waited>>
    PROVE  IInv'
<1>1. mode = "task" /\ Here = "user"
  BY AtHere DEF OS_TaskBlock
<1>. QED
  BY <1>1, RemovingKeeps DEF OS_TaskBlock

(* OS_TaskWake, by a task or by a driver: the task becomes ready before it *)
(* is linked.                                                              *)
LEMMA WakingKeeps ==
    ASSUME IInv, NEW t \in Task, Here \in {"user", "spin"}, state[t] = "BLOCKED",
           state' = [state EXCEPT ![t] = "READY"],
           UNCHANGED <<ready_head, next, task_count, current_task, ring, waited>>,
           mode' \in {"task", "isr"}, current_task # NULL,
           frame' \in [Context -> Frames], OneCall',
           Here' = "insert", Arg' = t,
           \A c \in Context : frame'[c].at = "spin" => frame[c].at = "spin"
    PROVE  IInv'
<1>1. HTypeOK
  BY DEF IInv
<1>2. state'[t] = "READY" /\ \A s \in Task \ {t} : state'[s] = state[s]
  BY <1>1 DEF HTypeOK, TypeOK
<1>3. t \in 1..task_count
  BY <1>1 DEF IInv, FreshUnused, HTypeOK, TypeOK, Task
<1>4. HTypeOK'
  BY <1>1 DEF HTypeOK, TypeOK, State
<1>5. FreshUnused' /\ CurrentCreated' /\ OneRunner'
  BY <1>2 DEF IInv, FreshUnused, CurrentCreated, OneRunner
<1>6. SpinUnused'
  <2>. SUFFICES ASSUME NEW c \in Context, frame'[c].at = "spin"
                PROVE  c \in 1..task_count /\ state'[c] = "UNUSED"
    BY DEF SpinUnused
  <2>1. c \in 1..task_count /\ state[c] = "UNUSED"
    BY DEF IInv, SpinUnused
  <2>2. c \in Task /\ c # t
    BY <2>1, <1>1, SchedulerAssumption DEF HTypeOK, TypeOK, Task
  <2>. QED
    BY <2>1, <2>2, <1>2
<1>7. Arguments' /\ Injective' /\ HeadInv' /\ LinkInv' /\ NullInv' /\ WalkInv' /\ BoundedWait'
  BY <1>3 DEF IInv, Arguments, Inserting, Removing, Injective, HeadInv, LinkInv, NullInv, OnRing, WalkInv, BoundedWait
<1>8. StateInv'
  <2>1. \A s \in Task : s \in Ready' <=> s \in Ready \/ s = t
    BY <1>2 DEF Ready
  <2>2. t \notin Ready
    BY DEF Ready
  <2>. QED
    BY <2>1, <2>2 DEF IInv, StateInv, OnRing
<1>. QED
  BY <1>4, <1>5, <1>6, <1>7, <1>8 DEF IInv

(* A task wakes another (scheduler.c:253-259). *)
LEMMA OS_TaskWakeKeeps ==
    ASSUME IInv, NEW t \in Task, OS_TaskWake(t), UNCHANGED <<ring, waited>>
    PROVE  IInv'
<1>1. mode = "task" /\ Here = "user" /\ current_task # NULL
  BY AtHere DEF OS_TaskWake, IInv, HTypeOK, TypeOK
<1>2. UNCHANGED <<ready_head, next, task_count, cpu>> /\ Enter(Cpu, "insert", "wake", t)
  BY DEF OS_TaskWake
<1>3. /\ frame' \in [Context -> Frames]
      /\ Here' = "insert" /\ Arg' = t
      /\ mode' = mode /\ current_task' = current_task
      /\ OneCall'
      /\ \A c \in Context : frame'[c].at = "spin" => frame[c].at = "spin"
  BY <1>1, <1>2, EnterFacts DEF Place, Inserting, Call
<1>. QED
  BY <1>1, <1>2, <1>3, WakingKeeps DEF OS_TaskWake

-----------------------------------------------------------------------------
(* The invariant survives what the CPU switches on: a driver's interrupt,  *)
(* its return, the tick and the first dispatch.                            *)
LEMMA InterruptFacts ==
    ASSUME IInv, InterruptsOpen, InterruptInCall = FALSE
    PROVE  /\ mode = "task" /\ current_task \in Task /\ Cpu = current_task
           /\ Here \in {"user", "spin"}
           /\ \A c \in Context : frame[c].at \in {"user", "spin"}
<1>1. mode = "task" /\ frame[current_task].at \in {"user", "spin"} /\ current_task \in Task
  BY DEF InterruptsOpen, IInv, HTypeOK, TypeOK
<1>2. Cpu = current_task
  BY <1>1 DEF Cpu
<1>. QED
  BY <1>1, <1>2 DEF Here, IInv, OneCall

(* A driver's handler wakes a task. *)
LEMMA DriverWakesKeeps ==
    ASSUME IInv, InterruptInCall = FALSE, NEW t \in Task, DriverWakes(t), UNCHANGED <<ring, waited>>
    PROVE  IInv'
<1>1. /\ mode = "task" /\ current_task \in Task /\ Here \in {"user", "spin"}
      /\ \A c \in Context : frame[c].at \in {"user", "spin"}
  BY InterruptFacts DEF DriverWakes
<1>2. /\ mode' = "isr" /\ UNCHANGED <<ready_head, next, task_count, current_task>>
      /\ frame' = [frame EXCEPT ![Isr] = Frame("insert", "wake", t, NULL)]
  BY DEF DriverWakes, Enter, SetFrame
<1>3. frame \in [Context -> Frames] /\ Isr \in Context
  BY DEF IInv, HTypeOK, TypeOK, Context
<1>4. Frame("insert", "wake", t, NULL) \in Frames
  BY DEF Frame, Frames, Place, Inserting, Call
<1>5. /\ frame' \in [Context -> Frames] /\ frame'[Isr] = Frame("insert", "wake", t, NULL)
      /\ \A c \in Context \ {Isr} : frame'[c] = frame[c]
  BY <1>2, <1>3, <1>4
<1>6. Cpu' = Isr /\ Here' = "insert" /\ Arg' = t
  BY <1>2, <1>5 DEF Cpu, Here, Arg, Frame
<1>7. OneCall' /\ \A c \in Context : frame'[c].at = "spin" => frame[c].at = "spin"
  BY <1>1, <1>2, <1>5, <1>6 DEF OneCall, Frame
<1>8. current_task # NULL
  BY <1>1, SchedulerAssumption DEF Context
<1>. QED
  BY <1>1, <1>2, <1>5, <1>6, <1>7, <1>8, WakingKeeps DEF DriverWakes

(* A driver's handler ends. *)
LEMMA DriverReturnsKeeps ==
    ASSUME IInv, DriverReturns, UNCHANGED <<ring, waited>>
    PROVE  IInv'
<1>1. mode = "isr" /\ Here = "user" /\ HTypeOK /\ current_task \in Task
  BY AtHere DEF DriverReturns, IInv, HTypeOK, TypeOK
<1>2. mode' = "task" /\ UNCHANGED <<ready_head, next, state, task_count, current_task, frame>>
  BY DEF DriverReturns, tcbs
<1>3. \A c \in Context : frame[c].at \in {"user", "spin"}
  BY <1>1 DEF IInv, OneCall, Here
<1>4. Here' \in {"user", "spin"}
  BY <1>1, <1>2, <1>3 DEF Here, Cpu, Context
<1>5. HTypeOK' /\ OneCall' /\ FreshUnused' /\ SpinUnused' /\ CurrentCreated'
  BY <1>1, <1>2, <1>3 DEF HTypeOK, TypeOK, IInv, OneCall, FreshUnused, SpinUnused, CurrentCreated
<1>6. Arguments' /\ Injective' /\ HeadInv' /\ LinkInv' /\ NullInv' /\ StateInv' /\ WalkInv' /\ OneRunner' /\ BoundedWait'
  BY <1>1, <1>2, <1>4 DEF IInv, Arguments, Inserting, Removing, Injective, HeadInv, LinkInv,
       NullInv, OnRing, StateInv, Ready, WalkInv, OneRunner, BoundedWait
<1>. QED
  BY <1>5, <1>6 DEF IInv

(* A dispatch: the head of the list gets the CPU and goes to the tail. *)
LEMMA TakeHeadKeeps ==
    ASSUME IInv, TakeHead, ready_head # NULL,
           Here \in {"user", "spin"}, \A c \in Context : frame[c].at \in {"user", "spin"},
           mode' = "task", UNCHANGED <<next, task_count, frame>>,
           ring' = Append(Tail(ring), Head(ring)),
           waited' = [t \in Task |-> CASE t = current_task' -> 0
                                       [] t # current_task' /\ t \in Linked -> OneMore(waited[t])
                                       [] OTHER -> waited[t]]
    PROVE  IInv'
<1> DEFINE n == Len(ring)
<1>1. HTypeOK /\ next[ready_head] = next'[ready_head]
  BY DEF IInv
<1>2. n \in Nat \ {0} /\ ring # << >> /\ ring[1] = ready_head /\ ready_head \in Task
  BY <1>1, LenProperties, EmptySeq DEF IInv, HeadInv, HTypeOK, TypeOK
<1>3. /\ ring' \in Seq(Task) /\ Len(ring') = n /\ ring' # << >>
      /\ \A i \in 1..n : ring'[i] = IF i < n THEN ring[i + 1] ELSE ring[1]
  <2>1. /\ Append(Tail(ring), Head(ring)) \in Seq(Task)
        /\ Len(Append(Tail(ring), Head(ring))) = n
        /\ \A i \in 1..n : Append(Tail(ring), Head(ring))[i] = IF i < n THEN ring[i + 1] ELSE ring[1]
    BY <1>1, <1>2, RotateFacts DEF HTypeOK
  <2>. QED
    BY <2>1, <1>2, EmptySeq
<1>4. /\ \A i \in 1..n - 1 : next[ring[i]] = ring[i + 1]
      /\ next[ring[n]] = ring[1]
  BY <1>2 DEF IInv, LinkInv
<1>5. \A i \in 1..n : ring[i] \in Task
  BY <1>1, ElementOfSeq DEF HTypeOK
<1>6. /\ current_task' = ring[1] /\ ready_head' = ring'[1]
      /\ state' \in [Task -> State]
      /\ \A t \in Task : t \in Ready' <=> t \in Ready
      /\ \A t \in Task : state'[t] = "RUNNING" => t = ring[1]
      /\ \A t \in Task : state[t] \notin {"READY", "RUNNING"} /\ t # ring[1] => state'[t] = state[t]
  <2>1. current_task' = ring[1] /\ ready_head' = next[ring[1]]
    BY <1>2 DEF TakeHead
  <2>2. ready_head' = ring'[1]
    BY <2>1, <1>2, <1>3, <1>4
  <2>3. ring[1] \in Ready
    BY <1>2 DEF IInv, StateInv, OnRing
  <2>4. state' = [t \in Task |->
                    CASE t = ring[1] -> "RUNNING"
                      [] t # ring[1] /\ t = current_task /\ state[t] = "RUNNING" -> "READY"
                      [] OTHER -> state[t]]
    BY <1>2 DEF TakeHead
  <2>5. \A t \in Task : /\ t = ring[1] => state'[t] = "RUNNING"
                        /\ t # ring[1] /\ t = current_task /\ state[t] = "RUNNING" => state'[t] = "READY"
                        /\ t # ring[1] /\ ~(t = current_task /\ state[t] = "RUNNING") => state'[t] = state[t]
    BY <2>4
  <2>6. state' \in [Task -> State]
    BY <2>4, <1>1 DEF HTypeOK, TypeOK, State
  <2>. QED
    BY <2>1, <2>2, <2>3, <2>5, <2>6 DEF Ready, IInv, OneRunner
<1>7. \A t : OnRing(t)' <=> OnRing(t)
  <2>1. ASSUME NEW t, NEW i \in 1..n, ring[i] = t PROVE \E j \in 1..n : ring'[j] = t
    <3>1. CASE i = 1
      BY <3>1, <2>1, <1>2, <1>3
    <3>2. CASE i > 1
      <4>1. i - 1 \in 1..n /\ i - 1 < n /\ (i - 1) + 1 = i
        BY <3>2, <1>2
      <4>. QED
        BY <4>1, <2>1, <1>3
    <3>. QED
      BY <3>1, <3>2
  <2>2. ASSUME NEW t, NEW j \in 1..n, ring'[j] = t PROVE \E i \in 1..n : ring[i] = t
    BY <2>2, <1>2, <1>3
  <2>. QED
    BY <2>1, <2>2, <1>3 DEF OnRing
<1>8. Injective'
  <2>. SUFFICES ASSUME NEW i \in 1..n, NEW j \in 1..n, ring'[i] = ring'[j] PROVE i = j
    BY <1>3 DEF Injective
  <2> DEFINE f(x) == IF x < n THEN x + 1 ELSE 1
  <2>1. f(i) \in 1..n /\ f(j) \in 1..n /\ ring[f(i)] = ring[f(j)]
    BY <1>2, <1>3
  <2>2. f(i) = f(j)
    <3>. HIDE DEF f
    <3>. QED BY <2>1, SameIndex
  <2>. QED
    BY <2>2, <1>2
<1>9. Here' \in {"user", "spin"} /\ current_task' \in Task
  BY <1>2, <1>6 DEF Here, Cpu, Context
<1>10. waited' \in [Task -> 0..OS_MAX_TASKS + 1]
  BY <1>1, SchedulerAssumption DEF HTypeOK, OneMore
<1>11. HTypeOK'
  BY <1>1, <1>3, <1>5, <1>6, <1>9, <1>10, <1>2, SchedulerAssumption DEF HTypeOK, TypeOK, Context
<1>12. OneCall' /\ OneRunner'
  BY <1>6 DEF OneCall, OneRunner
<1>13. FreshUnused' /\ SpinUnused' /\ CurrentCreated'
  <2>1. ring[1] \in Ready
    BY <1>2 DEF IInv, StateInv, OnRing
  <2>2. ring[1] \in 1..task_count
    BY <2>1, <1>1, <1>2 DEF IInv, FreshUnused, Ready, HTypeOK, TypeOK, Task
  <2>3. FreshUnused'
    BY <2>1, <1>6 DEF IInv, FreshUnused, Ready
  <2>4. SpinUnused'
    <3>. SUFFICES ASSUME NEW c \in Context, frame[c].at = "spin"
                  PROVE  c \in 1..task_count /\ state'[c] = "UNUSED"
      BY DEF SpinUnused
    <3>1. c \in 1..task_count /\ state[c] = "UNUSED"
      BY DEF IInv, SpinUnused
    <3>2. c \in Task /\ c # ring[1]
      BY <3>1, <2>1, <1>1, SchedulerAssumption DEF HTypeOK, TypeOK, Task, Ready
    <3>. QED
      BY <3>1, <3>2, <1>6
  <2>. QED
    BY <2>2, <2>3, <2>4, <1>6 DEF CurrentCreated
<1>14. Arguments' /\ WalkInv' /\ HeadInv'
  BY <1>3, <1>6, <1>9 DEF Arguments, Inserting, Removing, WalkInv, HeadInv
<1>15. LinkInv'
  <2>1. ASSUME NEW i \in 1..n - 1 PROVE next[ring'[i]] = ring'[i + 1]
    <3>1. CASE i < n - 1
      BY <3>1, <1>2, <1>3, <1>4
    <3>2. CASE i = n - 1
      BY <3>2, <1>2, <1>3, <1>4
    <3>. QED
      BY <3>1, <3>2, <1>2
  <2>2. next[ring'[n]] = ring'[1]
    BY <1>2, <1>3, <1>4
  <2>. QED
    BY <2>1, <2>2, <1>3, <1>9 DEF LinkInv
<1>16. NullInv' /\ StateInv'
  BY <1>6, <1>7, <1>9 DEF IInv, NullInv, StateInv
<1>17. BoundedWait'
  <2>. SUFFICES ASSUME NEW i \in 1..n PROVE waited'[ring'[i]] + i <= OS_MAX_TASKS
    BY <1>3, LenProperties DEF BoundedWait
  <2>1. CASE i < n
    <3>1. i + 1 \in 1..n /\ 1 \in 1..n /\ ring'[i] = ring[i + 1]
      BY <2>1, <1>2, <1>3
    <3>2. ring[i + 1] \in Task /\ ring[i + 1] # current_task'
      BY <3>1, <1>2, <1>5, <1>6, SameIndex
    <3>3. waited[ring[i + 1]] \in Nat /\ waited[ring[i + 1]] + (i + 1) <= OS_MAX_TASKS
      BY <3>1, <3>2, <1>1, LenProperties, SchedulerAssumption DEF IInv, BoundedWait, HTypeOK
    <3>4. ring[i + 1] \in Linked
      BY <3>1, <1>1, LenProperties DEF Linked, HTypeOK
    <3>5. waited'[ring[i + 1]] = OneMore(waited[ring[i + 1]])
      BY <3>2, <3>4
    <3>. QED
      BY <3>1, <3>3, <3>5, SchedulerAssumption DEF OneMore
  <2>2. CASE i = n
    <3>1. ring'[i] = current_task'
      BY <2>2, <1>2, <1>3, <1>6
    <3>2. waited'[ring'[i]] = 0
      BY <3>1, <1>9
    <3>3. n <= OS_MAX_TASKS
      BY <1>1, RingFits, SchedulerAssumption DEF IInv, Injective, HTypeOK
    <3>. QED
      BY <2>2, <3>2, <3>3, <1>2
  <2>. QED
    BY <2>1, <2>2, <1>2
<1>. QED
  BY <1>8, <1>11, <1>12, <1>13, <1>14, <1>15, <1>16, <1>17 DEF IInv

(* Nothing is ready: the tick goes back to the task it interrupted, and     *)
(* OS_Start goes back to kernel_main.                                       *)
LEMMA NothingReadyKeeps ==
    ASSUME IInv, ready_head = NULL, Here \in {"user", "spin"},
           \A c \in Context : frame[c].at \in {"user", "spin"},
           UNCHANGED <<ready_head, next, state, task_count, current_task, frame>>,
           mode' = mode \/ (mode = "boot" /\ mode' = "halt"),
           ring' = IF ring = << >> THEN ring ELSE Append(Tail(ring), Head(ring)),
           waited' = [t \in Task |-> CASE t = current_task' -> 0
                                       [] t # current_task' /\ t \in Linked -> OneMore(waited[t])
                                       [] OTHER -> waited[t]]
    PROVE  IInv'
<1>1. HTypeOK
  BY DEF IInv
<1>2. ring = << >> /\ Len(ring) = 0 /\ ring' = ring
  <2>1. ring # << >> => ring[1] \in Task /\ ready_head = ring[1]
    BY <1>1, EmptySeq, LenProperties, ElementOfSeq DEF IInv, HeadInv, HTypeOK
  <2>. QED
    BY <2>1, SchedulerAssumption, EmptySeq DEF Context
<1>3. waited' \in [Task -> 0..OS_MAX_TASKS + 1]
  BY <1>1, SchedulerAssumption DEF HTypeOK, OneMore
<1>4. Here' \in {"user", "spin", "halt"} /\ (mode' = "halt" => mode = "boot")
  BY <1>1 DEF Here, Cpu, HTypeOK, TypeOK
<1>5. HTypeOK'
  BY <1>1, <1>2, <1>3 DEF HTypeOK, TypeOK
<1>6. OneCall' /\ OneRunner' /\ FreshUnused' /\ SpinUnused' /\ CurrentCreated'
  BY DEF IInv, OneCall, OneRunner, FreshUnused, SpinUnused, CurrentCreated
<1>7. Arguments' /\ Injective' /\ HeadInv' /\ WalkInv' /\ LinkInv' /\ NullInv' /\ StateInv' /\ BoundedWait'
  BY <1>2, <1>4, EmptySeq DEF IInv, Arguments, Inserting, Removing, Injective, HeadInv, WalkInv, LinkInv, NullInv,
       OnRing, StateInv, Ready, BoundedWait
<1>. QED
  BY <1>5, <1>6, <1>7 DEF IInv

(* The tick and OS_Start, whether a task is ready or not. *)
LEMMA HDispatchKeeps ==
    ASSUME IInv, InterruptInCall = FALSE, HDispatch
    PROVE  IInv'
<1>1. ready_head # NULL => ring # << >>
  <2>1. ASSUME Here \in {"user", "spin"}, ready_head # NULL PROVE ring # << >>
    BY <2>1 DEF IInv, HeadInv
  <2>2. CASE OS_TickISR
    BY <2>1, <2>2, InterruptFacts DEF OS_TickISR
  <2>3. CASE OS_Start
    BY <2>1, <2>3, AtHere DEF OS_Start
  <2>. QED
    BY <2>2, <2>3 DEF HDispatch, Dispatching
<1>2. ready_head # NULL => ring' = Append(Tail(ring), Head(ring))
  BY <1>1 DEF HDispatch
<1>3. CASE OS_TickISR
  <2>1. /\ mode = "task" /\ Here \in {"user", "spin"}
        /\ \A c \in Context : frame[c].at \in {"user", "spin"}
    BY <1>3, InterruptFacts DEF OS_TickISR
  <2>2. UNCHANGED <<next, task_count, mode, frame>>
    BY <1>3 DEF OS_TickISR
  <2>3. CASE ready_head = NULL
    BY <1>3, <2>1, <2>2, <2>3, NothingReadyKeeps DEF OS_TickISR, OS_Schedule, HDispatch
  <2>4. CASE ready_head # NULL
    BY <1>2, <1>3, <2>1, <2>2, <2>4, TakeHeadKeeps DEF OS_TickISR, OS_Schedule, HDispatch
  <2>. QED
    BY <2>3, <2>4
<1>4. CASE OS_Start
  <2>1. mode = "boot" /\ mode # "halt" /\ Here = "user"
    BY <1>4, AtHere DEF OS_Start
  <2>2. \A c \in Context : frame[c].at \in {"user", "spin"}
    BY <2>1 DEF IInv, OneCall, Here
  <2>3. UNCHANGED <<next, task_count, frame>>
    BY <1>4 DEF OS_Start
  <2>4. CASE ready_head = NULL
    BY <1>4, <2>1, <2>2, <2>3, <2>4, NothingReadyKeeps DEF OS_Start, HDispatch
  <2>5. CASE ready_head # NULL
    BY <1>2, <1>4, <2>1, <2>2, <2>3, <2>5, TakeHeadKeeps DEF OS_Start, HDispatch
  <2>. QED
    BY <2>4, <2>5
<1>. QED
  BY <1>3, <1>4 DEF HDispatch, Dispatching

-----------------------------------------------------------------------------
(* IInv is inductive. *)
LEMMA InitialState == HInit => IInv
<1>. SUFFICES ASSUME HInit PROVE IInv
  OBVIOUS
<1>1. /\ ready_head = NULL /\ next = [t \in Task |-> NULL] /\ state = [t \in Task |-> "UNUSED"]
      /\ task_count = 0 /\ current_task = NULL /\ mode = "boot" /\ frame = [c \in Context |-> UserFrame]
      /\ ring = << >> /\ waited = [t \in Task |-> 0]
  BY DEF HInit, OS_Init
<1>2. ring \in Seq(Task) /\ Len(ring) = 0
  BY <1>1, EmptySeq
<1>3. UserFrame \in Frames /\ UserFrame.at = "user"
  BY DEF UserFrame, Frame, Frames, Place, Call
<1>4. Boot \in Context /\ Cpu = Boot /\ Here = "user"
  BY <1>1, <1>3 DEF Context, Cpu, Here
<1>5. HTypeOK
  BY <1>1, <1>2, <1>3, SchedulerAssumption DEF HTypeOK, TypeOK, State
<1>6. OneCall /\ FreshUnused /\ SpinUnused /\ CurrentCreated /\ OneRunner
  BY <1>1, <1>3 DEF OneCall, FreshUnused, SpinUnused, CurrentCreated, OneRunner
<1>7. Arguments /\ Injective /\ HeadInv /\ LinkInv /\ NullInv /\ StateInv /\ WalkInv /\ BoundedWait
  BY <1>1, <1>2, <1>4 DEF Arguments, Inserting, Removing, Injective, HeadInv, LinkInv, NullInv,
       OnRing, StateInv, Ready, WalkInv, BoundedWait
<1>. QED
  BY <1>5, <1>6, <1>7 DEF IInv

(* A stuttering step. *)
LEMMA UnchangedKeeps ==
    ASSUME IInv, UNCHANGED hvars
    PROVE  IInv'
<1>1. UNCHANGED <<ready_head, next, state, task_count, current_task, mode, frame, ring, waited>>
  BY DEF hvars, vars
<1>2. Here' = Here /\ Caller' = Caller /\ Arg' = Arg /\ Where' = Where /\ Cpu' = Cpu
  BY <1>1 DEF Here, Caller, Arg, Where, Cpu
<1>3. HTypeOK' /\ OneCall' /\ FreshUnused' /\ SpinUnused' /\ CurrentCreated' /\ Arguments' /\ OneRunner' /\ BoundedWait'
  BY <1>1, <1>2 DEF IInv, HTypeOK, TypeOK, OneCall, FreshUnused, SpinUnused, CurrentCreated, Arguments, Ready,
       OneRunner, BoundedWait
<1>4. Injective' /\ HeadInv' /\ LinkInv' /\ NullInv' /\ StateInv' /\ WalkInv'
  BY <1>1, <1>2 DEF IInv, Injective, HeadInv, LinkInv, NullInv, OnRing, StateInv, Ready, WalkInv
<1>. QED
  BY <1>3, <1>4 DEF IInv

(* IInv is inductive. *)
LEMMA Inductive ==
    ASSUME IInv, InterruptInCall = FALSE, [HNext]_hvars
    PROVE  IInv'
<1>1. CASE HLink
  <2>1. CASE InsertIntoEmpty
    BY <1>1, <2>1, InsertIntoEmptyKeeps DEF HLink, Arg
  <2>2. CASE LinkTail
    BY <1>1, <2>2, LinkTailKeeps DEF HLink, Arg
  <2>. QED
    BY <1>1, <2>1, <2>2 DEF HLink, Linking
<1>2. CASE HUnlink
  <2>1. CASE RemoveOnly
    BY <1>2, <2>1, RemoveOnlyKeeps DEF HUnlink, Arg
  <2>2. CASE Unlink
    BY <1>2, <2>2, UnlinkKeeps DEF HUnlink, Arg
  <2>. QED
    BY <1>2, <2>1, <2>2 DEF HUnlink, Unlinking
<1>3. CASE HDispatch
  BY <1>3, HDispatchKeeps
<1>4. CASE HOther
  <2>1. UNCHANGED <<ring, waited>>
    BY <1>4 DEF HOther
  <2>2. CASE OS_TaskCreate \/ OS_TaskExit \/ DriverReturns
    BY <2>1, <2>2, OS_TaskCreateKeeps, OS_TaskExitKeeps, DriverReturnsKeeps
  <2>3. ASSUME NEW t \in Task, OS_TaskBlock(t) \/ OS_TaskWake(t) \/ DriverWakes(t) PROVE IInv'
    BY <2>1, <2>3, OS_TaskBlockKeeps, OS_TaskWakeKeeps, DriverWakesKeeps
  <2>4. CASE LinkSelf \/ StartTail \/ FindTail \/ LinkNew
    BY <2>1, <2>4, LinkSelfKeeps, StartTailKeeps, FindTailKeeps, LinkNewKeeps
  <2>5. CASE RemoveFromEmpty \/ StartPrev \/ FindPrev \/ AdvanceHead \/ ClearNext \/ AfterRemove
    BY <2>1, <2>5, RemoveFromEmptyKeeps, StartPrevKeeps, FindPrevKeeps, AdvanceHeadKeeps, ClearNextKeeps, AfterRemoveKeeps
  <2>6. CASE Halt
    BY <2>1, <2>6, UnchangedKeeps DEF Halt, hvars
  <2>. QED
    BY <1>4, <2>2, <2>3, <2>4, <2>5, <2>6 DEF HOther
<1>5. CASE UNCHANGED hvars
  BY <1>5, UnchangedKeeps
<1>. QED
  BY <1>1, <1>2, <1>3, <1>4, <1>5 DEF HNext

(* IInv holds in every reachable state. *)
LEMMA Invariance ==
    ASSUME InterruptInCall = FALSE
    PROVE  HSpec => []IInv
<1>1. IInv /\ [HNext]_hvars => IInv'
  BY Inductive
<1>. QED
  BY InitialState, <1>1, PTL DEF HSpec

-----------------------------------------------------------------------------
(* What follows from it.  Outside the calls the list is whole. *)
LEMMA QuietHere ==
    ASSUME IInv, Quiet
    PROVE  Here \in {"user", "spin", "halt"}
<1>1. \A c \in Context : frame[c].at \in {"user", "spin"}
  BY DEF Quiet, InCall
<1>. QED
  BY <1>1, CpuIsContext DEF Here, IInv, HTypeOK

(* The types of the kernel's variables, and task_count within the pool. *)
THEOREM TypeCorrect ==
    ASSUME InterruptInCall = FALSE
    PROVE  HSpec => []HTypeOK
<1>1. IInv => HTypeOK
  BY DEF IInv
<1>. QED
  BY <1>1, Invariance, PTL

(* Whatever the order of create, block, wake, exit and ticks, the pointers *)
(* make one circle of the list's tasks, and the others' next is null.      *)
THEOREM ListCorrect ==
    ASSUME InterruptInCall = FALSE
    PROVE  HSpec => []ListIsRing
<1>1. IInv => ListIsRing
  <2>. SUFFICES ASSUME IInv, Quiet PROVE ListIsRing
    BY DEF ListIsRing
  <2>1. Here \in {"user", "spin", "halt"} /\ HTypeOK
    BY QuietHere DEF IInv
  <2>2. DOMAIN ring = 1..Len(ring) /\ Len(ring) \in Nat /\ (Len(ring) > 0 => ring # << >>)
    BY <2>1, LenProperties, EmptySeq DEF HTypeOK
  <2>3. ready_head = IF ring = << >> THEN NULL ELSE ring[1]
    BY <2>1 DEF IInv, HeadInv
  <2>4. \A i \in 1..Len(ring) : next[ring[i]] = ring[IF i = Len(ring) THEN 1 ELSE i + 1]
    <3>1. /\ \A i \in 1..Len(ring) - 1 : next[ring[i]] = ring[i + 1]
          /\ Len(ring) > 0 => next[ring[Len(ring)]] = ring[1]
      BY <2>1, <2>2 DEF IInv, LinkInv
    <3>2. Len(ring) \in Nat
      BY <2>2
    <3>. SUFFICES ASSUME NEW i \in 1..Len(ring)
                  PROVE  next[ring[i]] = ring[IF i = Len(ring) THEN 1 ELSE i + 1]
      OBVIOUS
    <3>3. CASE i = Len(ring)
      BY <3>1, <3>2, <3>3
    <3>4. CASE i # Len(ring)
      <4>1. i \in 1..Len(ring) - 1
        BY <3>2, <3>4
      <4>2. next[ring[i]] = ring[i + 1]
        BY <3>1, <4>1
      <4>. QED
        BY <3>4, <4>2
    <3>. QED
      BY <3>3, <3>4
  <2>5. \A t \in Task \ Linked : next[t] = NULL
    BY <2>1, <2>2 DEF IInv, NullInv, OnRing, Linked
  <2>. QED
    BY <2>2, <2>3, <2>4, <2>5 DEF ListIsRing
<1>. QED
  BY <1>1, Invariance, PTL

(* No ready task is lost and none that is not ready stays on the list. *)
THEOREM NoTaskLost ==
    ASSUME InterruptInCall = FALSE
    PROVE  HSpec => []ReadyIffLinked
<1>1. IInv => ReadyIffLinked
  <2>. SUFFICES ASSUME IInv PROVE ReadyIffLinked
    OBVIOUS
  <2>1. DOMAIN ring = 1..Len(ring) /\ \A i \in 1..Len(ring) : ring[i] \in Task
    BY LenProperties, ElementOfSeq DEF IInv, HTypeOK
  <2>2. ASSUME Quiet PROVE Linked = Ready
    <3>1. \A t \in Task : t \in Ready <=> OnRing(t)
      BY <2>2, QuietHere DEF IInv, StateInv
    <3>. QED
      BY <3>1, <2>1 DEF OnRing, Linked, Ready
  <2>. QED
    BY <2>1, <2>2 DEF ReadyIffLinked, IInv, Injective
<1>. QED
  BY <1>1, Invariance, PTL

(* The running task is the one the next tick will save. *)
THEOREM RunnerIsCurrent ==
    ASSUME InterruptInCall = FALSE
    PROVE  HSpec => []OneRunner
<1>1. IInv => OneRunner
  BY DEF IInv
<1>. QED
  BY <1>1, Invariance, PTL

(* A ready task waits fewer than OS_MAX_TASKS ticks for its dispatch. *)
THEOREM WaitIsBounded ==
    ASSUME InterruptInCall = FALSE
    PROVE  HSpec => []BoundedWait
<1>1. IInv => BoundedWait
  BY DEF IInv
<1>. QED
  BY <1>1, Invariance, PTL

-----------------------------------------------------------------------------
(* What each step does to the tasks that have exited. *)
LEMMA ExitedSame ==
    ASSUME IInv, NEW c \in Context, NEW f, SetFrame(c, f), f.at # "spin", frame[c].at # "spin"
    PROVE  Exited' = Exited
<1>1. frame \in [Context -> Frames] /\ Task \subseteq Context
  BY DEF IInv, HTypeOK, TypeOK, Context
<1>2. frame'[c] = f /\ \A d \in Context \ {c} : frame'[d] = frame[d]
  BY <1>1 DEF SetFrame
<1>. QED
  BY <1>1, <1>2 DEF Exited

(* A step, a return or the start of a call that does not end in "spin" makes no task exit. *)
LEMMA CallKeepsExited ==
    ASSUME IInv, mode # "halt", Here # "spin",
           \/ \E place \in Place \ {"spin"} : \E where : Walk(place, where)
           \/ Return
           \/ \E place \in Place \ {"spin"} : \E call, t : Enter(Cpu, place, call, t)
    PROVE  Exited' = Exited
<1>1. Cpu \in Context /\ frame[Cpu].at # "spin"
  BY CpuIsContext DEF IInv, HTypeOK, Here
<1>2. PICK f : SetFrame(Cpu, f) /\ f.at # "spin"
  <2>1. \A at, call, t, walk : Frame(at, call, t, walk).at = at
    BY DEF Frame
  <2>2. UserFrame.at = "user"
    BY DEF UserFrame, Frame
  <2>. HIDE DEF Frame, UserFrame
  <2>. QED
    BY <2>1, <2>2 DEF Walk, Return, Enter
<1>. QED
  BY <1>1, <1>2, ExitedSame

(* Only OS_TaskExit makes a task exit. *)
LEMMA AfterRemoveExits ==
    ASSUME IInv, AfterRemove
    PROVE  \/ Exited' = Exited
           \/ /\ current_task \in Task \ Exited
              /\ ~OnRing(current_task)
              /\ Exited' = Exited \cup {current_task}
<1>1. mode # "halt" /\ Here = "removed" /\ HTypeOK
  BY AtHere DEF AfterRemove, IInv
<1>2. mode = "task" /\ (Caller = "exit" => Arg = current_task) /\ ~OnRing(Arg)
  BY <1>1 DEF IInv, Arguments, StateInv
<1>3. Cpu = current_task /\ current_task \in Task /\ current_task \notin Exited
  BY <1>1, <1>2 DEF Cpu, HTypeOK, TypeOK, Here, Exited
<1>4. CASE Caller # "exit"
  BY <1>1, <1>4, CallKeepsExited DEF AfterRemove, Caller
<1>5. CASE Caller = "exit"
  <2>1. SetFrame(Cpu, SpinFrame)
    BY <1>5 DEF AfterRemove, Caller
  <2>2. frame'[current_task] = SpinFrame /\ \A d \in Task \ {current_task} : frame'[d] = frame[d]
    BY <1>1, <1>3, <2>1 DEF SetFrame, HTypeOK, TypeOK, Context
  <2>3. SpinFrame.at = "spin"
    BY DEF SpinFrame, Frame
  <2>4. Exited' = Exited \cup {current_task}
    BY <1>3, <2>2, <2>3 DEF Exited
  <2>. QED
    BY <1>2, <1>3, <1>5, <2>4
<1>. QED
  BY <1>4, <1>5

(* Every other step keeps it. *)
LEMMA OthersKeepExited ==
    ASSUME IInv, InterruptInCall = FALSE, [HNext]_hvars, ~AfterRemove
    PROVE  Exited' = Exited
<1>1. CASE HLink
  <2>1. CASE InsertIntoEmpty
    BY <2>1, AtHere, CallKeepsExited DEF InsertIntoEmpty, GoTo, Place, Inserting
  <2>2. CASE LinkTail
    BY <2>2, AtHere, CallKeepsExited DEF LinkTail, GoTo, Place, Inserting
  <2>. QED
    BY <1>1, <2>1, <2>2 DEF HLink, Linking
<1>2. CASE HUnlink
  <2>1. CASE RemoveOnly
    BY <2>1, AtHere, CallKeepsExited DEF RemoveOnly, GoTo, Place, Removing
  <2>2. CASE Unlink
    BY <2>2, AtHere, CallKeepsExited DEF Unlink, GoTo, Place, Removing
  <2>. QED
    BY <1>2, <2>1, <2>2 DEF HUnlink, Unlinking
<1>3. CASE HDispatch
  BY <1>3 DEF HDispatch, Dispatching, OS_TickISR, OS_Start, Exited
<1>4. CASE HOther
  <2>1. CASE OS_TaskCreate
    BY <2>1, AtHere, CallKeepsExited DEF OS_TaskCreate, Place, Inserting
  <2>2. CASE OS_TaskExit
    BY <2>2, AtHere, CallKeepsExited DEF OS_TaskExit, Place, Removing
  <2>3. ASSUME NEW t \in Task, OS_TaskBlock(t) PROVE Exited' = Exited
    BY <2>3, AtHere, CallKeepsExited DEF OS_TaskBlock, Place, Removing
  <2>4. ASSUME NEW t \in Task, OS_TaskWake(t) PROVE Exited' = Exited
    BY <2>4, AtHere, CallKeepsExited DEF OS_TaskWake, Place, Inserting
  <2>5. ASSUME NEW t \in Task, DriverWakes(t) PROVE Exited' = Exited
    <3>1. SetFrame(Isr, Frame("insert", "wake", t, NULL))
      BY <2>5 DEF DriverWakes, Enter
    <3>2. Isr \in Context /\ frame[Isr].at # "spin"
      <4>1. 1..task_count \subseteq Task /\ Isr \notin Task /\ Isr \in Context
        BY SchedulerAssumption DEF IInv, HTypeOK, TypeOK, Context, Task
      <4>. QED
        BY <4>1 DEF IInv, SpinUnused
    <3>3. Frame("insert", "wake", t, NULL).at # "spin"
      BY DEF Frame
    <3>. HIDE DEF Frame
    <3>. QED
      BY <3>1, <3>2, <3>3, ExitedSame
  <2>6. CASE DriverReturns
    BY <2>6 DEF DriverReturns, Exited
  <2>7. CASE LinkSelf \/ LinkNew
    BY <2>7, AtHere, CallKeepsExited DEF LinkSelf, LinkNew
  <2>8. CASE StartTail \/ FindTail
    BY <2>8, AtHere, CallKeepsExited DEF StartTail, FindTail, Place, Inserting
  <2>9. CASE RemoveFromEmpty \/ AdvanceHead \/ ClearNext
    BY <2>9, AtHere, CallKeepsExited DEF RemoveFromEmpty, AdvanceHead, ClearNext, GoTo, Place, Removing
  <2>10. CASE StartPrev \/ FindPrev
    BY <2>10, AtHere, CallKeepsExited DEF StartPrev, FindPrev, Place, Removing
  <2>11. CASE Halt
    BY <2>11 DEF Halt, vars, Exited
  <2>. QED
    BY <1>4, <2>1, <2>2, <2>3, <2>4, <2>5, <2>6, <2>7, <2>8, <2>9, <2>10, <2>11 DEF HOther
<1>5. CASE UNCHANGED hvars
  BY <1>5 DEF hvars, vars, Exited
<1>. QED
  BY <1>1, <1>2, <1>3, <1>4, <1>5 DEF HNext

(* A task that has exited stays so, in every step. *)
LEMMA ExitedGrows ==
    ASSUME IInv, InterruptInCall = FALSE, [HNext]_hvars
    PROVE  Exited \subseteq Exited'
BY AfterRemoveExits, OthersKeepExited

(* The CPU changes hands in a dispatch only, and goes to a ready task. *)
LEMMA DispatchedIsReady ==
    ASSUME IInv, InterruptInCall = FALSE, [HNext]_hvars, current_task' # current_task
    PROVE  HDispatch /\ ready_head # NULL /\ current_task' = ready_head /\ ready_head \in Ready
<1>1. HDispatch
  BY DEF HNext, hvars, vars, HLink, Linking, InsertIntoEmpty, LinkTail, HUnlink, Unlinking, RemoveOnly, Unlink,
       HOther, OS_TaskCreate, OS_TaskExit, OS_TaskBlock, OS_TaskWake, DriverWakes, DriverReturns, LinkSelf,
       StartTail, FindTail, LinkNew, RemoveFromEmpty, StartPrev, FindPrev, AdvanceHead, ClearNext, AfterRemove,
       Halt, cpu
<1>2. ready_head # NULL /\ current_task' = ready_head
  BY <1>1 DEF HDispatch, Dispatching, OS_TickISR, OS_Start, OS_Schedule, TakeHead
<1>3. Here \in {"user", "spin"}
  BY <1>1, InterruptFacts, AtHere DEF HDispatch, Dispatching, OS_TickISR, OS_Start
<1>4. ring # << >> /\ ring[1] = ready_head
  BY <1>2, <1>3 DEF IInv, HeadInv
<1>5. OnRing(ready_head) /\ ready_head \in Task
  BY <1>2, <1>4, LenProperties, EmptySeq DEF IInv, HTypeOK, TypeOK, OnRing
<1>. QED
  BY <1>1, <1>2, <1>3, <1>5 DEF IInv, StateInv

(* A task that has exited is never dispatched again. *)
THEOREM ExitedStaysOut ==
    ASSUME InterruptInCall = FALSE
    PROVE  HSpec => ExitIsFinal
<1>1. ASSUME IInv, [HNext]_hvars
      PROVE  \A t \in Task : frame[t].at = "spin" => /\ frame'[t].at = "spin"
                                                     /\ current_task' = t => current_task = t
  <2>. SUFFICES ASSUME NEW t \in Task, frame[t].at = "spin"
                PROVE  frame'[t].at = "spin" /\ (current_task' = t => current_task = t)
    OBVIOUS
  <2>1. frame'[t].at = "spin"
    BY <1>1, ExitedGrows DEF Exited
  <2>2. t \notin Ready
    BY <1>1 DEF IInv, SpinUnused, Ready, Context
  <2>. QED
    BY <1>1, <2>1, <2>2, DispatchedIsReady
<1>. QED
  BY <1>1, Invariance, PTL DEF HSpec, ExitIsFinal

-----------------------------------------------------------------------------
(* The linked list implements the round-robin queue. *)
LEMMA LinkedIsOnRing ==
    ASSUME HTypeOK, NEW t
    PROVE  /\ t \in Linked <=> OnRing(t)
           /\ RR!Queued = Linked
           /\ DOMAIN ring = 1..Len(ring)
BY LenProperties DEF HTypeOK, Linked, OnRing, RR!Queued

(* Every step of the linked list is a step of the queue or changes nothing of it. *)
LEMMA StepRefines ==
    ASSUME IInv, InterruptInCall = FALSE, [HNext]_hvars
    PROVE  [RR!Next]_RR!vars
<1>0. HTypeOK
  BY DEF IInv
<1>1. CASE HLink
  <2>1. Here \in {"insert", "find_tail"} /\ UNCHANGED current_task
    BY <1>1, AtHere DEF HLink, Linking, InsertIntoEmpty, LinkTail, cpu
  <2>2. ~OnRing(Arg) /\ Arg \in Task /\ Arg \in Ready
    BY <2>1, ArgIsTask DEF IInv, StateInv, Inserting
  <2>3. Arg \notin Exited
    BY <2>2 DEF IInv, SpinUnused, Ready, Exited, Context
  <2>4. Arg \notin RR!Queued
    BY <2>2, <1>0, LinkedIsOnRing
  <2>5. Exited' = Exited
    <3>1. ~AfterRemove
      BY <2>1, AtHere DEF AfterRemove
    <3>. QED
      BY <3>1, OthersKeepExited
  <2>6. ring' = Append(ring, Arg)
    BY <1>1 DEF HLink, Arg
  <2>7. RR!Join(Arg)
    BY <2>1, <2>3, <2>4, <2>5, <2>6 DEF RR!Join
  <2>. QED
    BY <2>2, <2>7 DEF RR!Next
<1>2. CASE HUnlink
  <2>1. Here \in {"remove", "find_prev"} /\ UNCHANGED current_task
    BY <1>2, AtHere DEF HUnlink, Unlinking, RemoveOnly, Unlink, cpu
  <2>2. Arg \in Task
    BY <2>1, ArgIsTask DEF Removing
  <2>3. OnRing(Arg)
    <3>1. CASE RemoveOnly
      BY <3>1, <2>1, <2>2, AtHere, SchedulerAssumption DEF RemoveOnly, IInv, NullInv, Arg, Context
    <3>2. CASE Unlink
      <4>1. Here = "find_prev" /\ Where \in Task /\ next[Where] = Arg
        BY <3>2, AtHere DEF Unlink, Where, Arg
      <4>2. PICK w \in 1..Len(ring) : Where = ring[w]
        BY <4>1 DEF IInv, WalkInv, OnRing
      <4>3. Len(ring) \in Nat /\ Len(ring) > 0 /\ ring # << >>
        BY <1>0, <4>2, LenProperties, EmptySeq DEF HTypeOK
      <4>4. /\ \A i \in 1..Len(ring) - 1 : next[ring[i]] = ring[i + 1]
            /\ next[ring[Len(ring)]] = ring[1]
        BY <4>1, <4>3 DEF IInv, LinkInv
      <4>5. CASE w = Len(ring)
        BY <4>1, <4>2, <4>3, <4>4, <4>5 DEF OnRing
      <4>6. CASE w # Len(ring)
        <5>1. w \in 1..Len(ring) - 1 /\ w + 1 \in 1..Len(ring)
          BY <4>2, <4>3, <4>6
        <5>2. Arg = ring[w + 1]
          BY <4>1, <4>2, <4>4, <5>1
        <5>. QED
          BY <5>1, <5>2 DEF OnRing
      <4>. QED
        BY <4>5, <4>6
    <3>. QED
      BY <1>2, <3>1, <3>2 DEF HUnlink, Unlinking
  <2>4. Exited' = Exited
    <3>1. ~AfterRemove
      BY <2>1, AtHere DEF AfterRemove
    <3>. QED
      BY <3>1, OthersKeepExited
  <2>5. ring' = RemoveAt(ring, Position(Arg))
    BY <1>2 DEF HUnlink, Arg
  <2>6. Position(Arg) \in DOMAIN ring /\ ring[Position(Arg)] = Arg
    BY <1>0, <2>3, PositionFacts, LinkedIsOnRing
  <2>7. RR!Leave(Arg)
    BY <2>1, <2>4, <2>5, <2>6 DEF RR!Leave, RR!RemoveAt, RemoveAt
  <2>. QED
    BY <2>2, <2>7 DEF RR!Next
<1>3. CASE HDispatch
  <2>1. Exited' = Exited
    BY <1>3 DEF HDispatch, Dispatching, OS_TickISR, OS_Start, Exited
  <2>2. Here \in {"user", "spin"}
    BY <1>3, InterruptFacts, AtHere DEF HDispatch, Dispatching, OS_TickISR, OS_Start
  <2>3. CASE ring = << >>
    <3>1. ready_head = NULL /\ ring' = ring
      BY <1>3, <2>2, <2>3 DEF IInv, HeadInv, HDispatch
    <3>2. current_task' = current_task
      BY <3>1, DispatchedIsReady
    <3>. QED
      BY <2>1, <3>1, <3>2 DEF RR!vars
  <2>4. CASE ring # << >>
    <3>1. ring[1] \in Task /\ ready_head = ring[1] /\ Head(ring) = ring[1]
      BY <1>0, <2>2, <2>4, EmptySeq, LenProperties, ElementOfSeq, HeadTailProperties DEF IInv, HeadInv, HTypeOK
    <3>2. ready_head # NULL
      BY <3>1, SchedulerAssumption DEF Context
    <3>3. current_task' = ready_head
      BY <1>3, <3>2 DEF HDispatch, Dispatching, OS_TickISR, OS_Start, OS_Schedule, TakeHead
    <3>4. RR!Dispatch
      BY <1>3, <2>1, <2>4, <3>1, <3>3 DEF HDispatch, RR!Dispatch
    <3>. QED
      BY <3>4 DEF RR!Next
  <2>. QED
    BY <2>3, <2>4
<1>4. CASE HOther
  <2>1. UNCHANGED ring
    BY <1>4 DEF HOther
  <2>2. CASE AfterRemove
    <3>1. UNCHANGED current_task
      BY <2>2 DEF AfterRemove, cpu
    <3>2. CASE Exited' = Exited
      BY <2>1, <3>1, <3>2 DEF RR!vars
    <3>3. CASE /\ current_task \in Task \ Exited
               /\ ~OnRing(current_task)
               /\ Exited' = Exited \cup {current_task}
      <4>1. RR!Retire(current_task)
        BY <1>0, <2>1, <3>1, <3>3, LinkedIsOnRing DEF RR!Retire
      <4>. QED
        BY <3>3, <4>1 DEF RR!Next
    <3>. QED
      BY <2>2, <3>2, <3>3, AfterRemoveExits
  <2>3. CASE ~AfterRemove
    <3>1. Exited' = Exited
      BY <2>3, OthersKeepExited
    <3>2. CASE HDispatch
      BY <3>2, <1>3
    <3>3. CASE ~HDispatch
      <4>1. UNCHANGED current_task
        BY <3>3, DispatchedIsReady
      <4>. QED
        BY <2>1, <3>1, <4>1 DEF RR!vars
    <3>. QED
      BY <3>2, <3>3
  <2>. QED
    BY <2>2, <2>3
<1>5. CASE UNCHANGED hvars
  BY <1>5 DEF hvars, vars, RR!vars, Exited
<1>. QED
  BY <1>1, <1>2, <1>3, <1>4, <1>5 DEF HNext

(* Every behaviour of the linked list, without its fairness, is one of the *)
(* queue: ImplementsRoundRobin but for the weak fairness of Dispatch.      *)
THEOREM RefinesRoundRobin ==
    ASSUME InterruptInCall = FALSE
    PROVE  HSpec => RR!Init /\ [][RR!Next]_RR!vars
<1>1. HInit => RR!Init
  <2>. SUFFICES ASSUME HInit PROVE RR!Init
    OBVIOUS
  <2>1. ring = << >> /\ current_task = NULL /\ frame = [c \in Context |-> UserFrame]
    BY DEF HInit, OS_Init
  <2>2. Exited = {}
    BY <2>1 DEF Exited, UserFrame, Frame, Context
  <2>. QED
    BY <2>1, <2>2 DEF RR!Init
<1>2. IInv /\ [HNext]_hvars => [RR!Next]_RR!vars
  BY StepRefines
<1>. QED
  BY <1>1, <1>2, Invariance, PTL DEF HSpec
=============================================================================
