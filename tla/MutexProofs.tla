---------------------------- MODULE MutexProofs ----------------------------
(***************************************************************************)
(* Proofs about Mutex, for any number of tasks, provided the holder of the *)
(* mutex does not wait for a device.                                       *)
(***************************************************************************)
EXTENDS Mutex, SequenceTheorems, FiniteSetTheorems, TLAPS

InLock(t)  == pc[t] \in {"yield", "yielded"}
Waits(t)   == InLock(t) /\ owner # t
IsReady(t) == \E i \in 1..Len(ready) : ready[i] = t

(* w is the wait list: what the pointers lead through, without repetition. *)
IsWaitList(w) ==
    /\ w \in Seq(Task)
    /\ \A i, j \in 1..Len(w) : w[i] = w[j] => i = j
    /\ \A t \in Task : (\E i \in 1..Len(w) : w[i] = t) <=> Waits(t)
    /\ wait_head = IF Len(w) = 0 THEN NULL ELSE w[1]
    /\ wait_tail = IF Len(w) = 0 THEN NULL ELSE w[Len(w)]
    /\ \A i \in 1..Len(w) : next[w[i]] = IF i = Len(w) THEN NULL ELSE w[i + 1]

Types ==
    /\ locked \in BOOLEAN /\ owner \in Task \cup {NULL}
    /\ next \in [Task -> Task \cup {NULL}]
    /\ state \in [Task -> {"READY", "RUNNING", "BLOCKED"}]
    /\ current_task \in Task /\ ready \in Seq(Task)
    /\ pc \in [Task -> Place]

(* A waiter sleeps and has left the CPU when its yield is over. *)
WaitersSleep ==
    \A t \in Task : Waits(t) => /\ locked /\ state[t] = "BLOCKED"
                                /\ pc[t] = "yielded" => current_task # t

(* Nobody is ready twice, or ready and asleep. *)
ReadyOnce ==
    /\ \A i, j \in 1..Len(ready) : ready[i] = ready[j] => i = j
    /\ \A i \in 1..Len(ready) : state[ready[i]] = "READY"

(* The owner never sleeps: it has the CPU or is ready to. *)
OwnerAwake ==
    /\ locked <=> owner # NULL
    /\ owner # NULL => /\ pc[owner] # "outside"
                       /\ IF owner = current_task THEN state[owner] = "RUNNING" ELSE IsReady(owner)

IInv == Types /\ OwnerOnly /\ WaitersSleep /\ ReadyOnce /\ OwnerAwake
          /\ \E w \in Seq(Task) : IsWaitList(w)

USE MutexAssumption

LEMMA InitIInv == Mutex_Init => IInv
  <1> SUFFICES ASSUME Mutex_Init PROVE IInv
    OBVIOUS
  <1>1. ready \in Seq(Task)
    <2>1. Cardinality(Task) - 1 \in Nat
      BY FS_CardinalityType, FS_EmptySet DEF MutexAssumption
    <2>2. ready \in [1..Cardinality(Task) - 1 -> Task]
      BY DEF Mutex_Init
    <2> QED
      BY <2>1, <2>2
  <1>2. Types
    BY <1>1 DEF Mutex_Init, Types, Place
  <1>3. IsWaitList(<< >>)
    BY DEF Mutex_Init, IsWaitList, Waits, InLock
  <1>6. ReadyOnce
    BY <1>1, LenProperties DEF Mutex_Init, ReadyOnce
  <1>4. OwnerOnly /\ WaitersSleep /\ OwnerAwake
    BY DEF Mutex_Init, OwnerOnly, WaitersSleep, OwnerAwake, Waits, InLock
  <1>5. << >> \in Seq(Task)
    BY EmptySeq
  <1> QED
    BY <1>2, <1>3, <1>4, <1>5, <1>6 DEF IInv

-----------------------------------------------------------------------------
(* A step that neither starts nor ends a wait leaves the list as it is. *)
LEMMA SameWaitList ==
  ASSUME NEW w, IsWaitList(w),
         UNCHANGED <<wait_head, wait_tail>>,
         \A t \in Task : Waits(t)' <=> Waits(t),
         \A t \in Task : Waits(t) => next'[t] = next[t]
  PROVE  IsWaitList(w)'
  <1>1. \A i \in 1..Len(w) : w[i] \in Task /\ next'[w[i]] = next[w[i]]
    BY DEF IsWaitList
  <1> QED
    BY <1>1 DEF IsWaitList

(* The front of the wait list is somebody who waits. *)
LEMMA Front ==
  ASSUME NEW w, IsWaitList(w), NULL \notin Task
  PROVE  /\ (wait_head = NULL) <=> (Len(w) = 0)
         /\ wait_head # NULL => wait_head \in Task /\ wait_head = w[1] /\ Waits(wait_head)
  BY DEF IsWaitList

(* OS_Schedule, as far as the ready queue and the CPU are concerned. *)
LEMMA Dispatch ==
  ASSUME Types, ReadyOnce, OS_Schedule
  PROVE  /\ ready' \in Seq(Task) /\ current_task' \in Task
         /\ state' \in [Task -> {"READY", "RUNNING", "BLOCKED"}]
         /\ ReadyOnce'
         /\ Len(ready) = 0 => UNCHANGED <<ready, current_task, state>>
         /\ Len(ready) # 0 =>
              /\ current_task' = ready[1] /\ state'[current_task'] = "RUNNING"
              /\ \A t \in Task : t # ready[1] /\ state[t] = "BLOCKED" => state'[t] = "BLOCKED"
              /\ \A t \in Task : IsReady(t) /\ t # ready[1] => IsReady(t)'
              /\ \A t \in Task : t = current_task /\ state[t] = "RUNNING" => IsReady(t)'
  <1> USE DEF Types
  <1>1. CASE Len(ready) = 0
    <2>1. ready = << >>
      BY <1>1, EmptySeq
    <2> QED
      BY <1>1, <2>1 DEF OS_Schedule, scheduler, ReadyOnce
  <1>2. CASE Len(ready) # 0
    <2>1. /\ ready # << >> /\ Head(ready) = ready[1] /\ ready[1] \in Task
          /\ Tail(ready) \in Seq(Task) /\ Len(Tail(ready)) = Len(ready) - 1
          /\ \A i \in 1..Len(ready) - 1 : Tail(ready)[i] = ready[i + 1]
      BY <1>2, HeadTailProperties
    <2>2. /\ current_task' = ready[1]
          /\ state' = [t \in Task |->
                CASE t = ready[1] -> "RUNNING"
                  [] t # ready[1] /\ t = current_task /\ state[current_task] = "RUNNING" -> "READY"
                  [] OTHER -> state[t]]
          /\ ready' = IF state[current_task] = "RUNNING"
                        THEN Append(Tail(ready), current_task) ELSE Tail(ready)
      BY <2>1 DEF OS_Schedule
    <2>3. /\ ready' \in Seq(Task)
          /\ Len(ready') = IF state[current_task] = "RUNNING" THEN Len(ready) ELSE Len(ready) - 1
          /\ \A i \in 1..Len(ready) - 1 : ready'[i] = ready[i + 1]
          /\ state[current_task] = "RUNNING" => ready'[Len(ready)] = current_task
      BY <2>1, <2>2
    <2>4. ReadyOnce'
      BY <2>1, <2>2, <2>3 DEF ReadyOnce
    <2>5. \A t \in Task : IsReady(t) /\ t # ready[1] => IsReady(t)'
      <3> SUFFICES ASSUME NEW t \in Task, IsReady(t), t # ready[1] PROVE IsReady(t)'
        OBVIOUS
      <3>1. PICK i \in 1..Len(ready) : ready[i] = t
        BY DEF IsReady
      <3>2. i - 1 \in 1..Len(ready) - 1 /\ (i - 1) + 1 = i
        BY <3>1
      <3>3. ready'[i - 1] = t /\ i - 1 \in 1..Len(ready')
        BY <2>3, <3>1, <3>2
      <3> QED
        BY <3>3 DEF IsReady
    <2>6. \A t \in Task : t = current_task /\ state[t] = "RUNNING" => IsReady(t)'
      BY <1>2, <2>3 DEF IsReady
    <2>7. \A t \in Task : t # ready[1] /\ state[t] = "BLOCKED" => state'[t] = "BLOCKED"
      BY <2>2
    <2>8. state' \in [Task -> {"READY", "RUNNING", "BLOCKED"}] /\ state'[ready[1]] = "RUNNING"
      BY <2>1, <2>2
    <2> QED
      BY <1>2, <2>1, <2>2, <2>3, <2>4, <2>5, <2>6, <2>7, <2>8
  <1> QED
    BY <1>1, <1>2
-----------------------------------------------------------------------------
(* The tick, and the yield of a task that is or is not a waiter.           *)
LEMMA ScheduleStep ==
  ASSUME IInv, OS_Schedule,
         UNCHANGED pc \/ \E t \in Task : At(t, "yield") /\ GoTo(t, "yielded")
  PROVE  IInv'
  <1> USE DEF IInv
  <1>1. UNCHANGED <<mutex, next>> /\ UNCHANGED <<locked, owner, wait_head, wait_tail>>
    BY DEF OS_Schedule, mutex
  <1>2. /\ pc' \in [Task -> Place]
        /\ \A t \in Task : InLock(t)' <=> InLock(t)
        /\ \A t \in Task : pc'[t] = "holding" <=> pc[t] = "holding"
        /\ \A t \in Task : pc'[t] = "outside" <=> pc[t] = "outside"
        /\ \A t \in Task : pc'[t] = "yielded" => pc[t] = "yielded" \/ (pc[t] = "yield" /\ current_task = t)
    BY DEF Types, Place, InLock, At, GoTo
  <1>3. \A t \in Task : Waits(t)' <=> Waits(t)
    BY <1>1, <1>2 DEF Waits
  <1>4. Types'
    BY <1>1, <1>2, Dispatch DEF Types
  <1>5. OwnerOnly'
    BY <1>1, <1>2 DEF OwnerOnly
  <1>6. OwnerAwake'
    <2>1. CASE Len(ready) = 0
      BY <1>1, <1>2, <2>1, Dispatch DEF OwnerAwake, IsReady
    <2>2. CASE Len(ready) # 0
      <3>1. CASE owner = NULL
        BY <1>1, <3>1 DEF OwnerAwake
      <3>2. CASE owner # NULL
        <4>1. owner \in Task /\ pc'[owner] # "outside"
          BY <1>2, <3>2 DEF OwnerAwake, Types
        <4>2. CASE owner = ready[1]
          BY <1>1, <2>2, <4>1, <4>2, Dispatch DEF OwnerAwake
        <4>3. CASE owner # ready[1]
          <5>1. \E i \in 1..Len(ready') : ready'[i] = owner
            <6>1. CASE owner = current_task
              BY <2>2, <3>2, <4>1, <6>1, Dispatch DEF OwnerAwake, IsReady
            <6>2. CASE owner # current_task
              BY <2>2, <3>2, <4>1, <4>3, <6>2, Dispatch DEF OwnerAwake, IsReady
            <6> QED
              BY <6>1, <6>2
          <5> QED
            BY <1>1, <2>2, <4>1, <4>3, <5>1, Dispatch DEF OwnerAwake, IsReady
        <4> QED
          BY <4>2, <4>3
      <3> QED
        BY <3>1, <3>2
    <2> QED
      BY <2>1, <2>2
  <1>7. WaitersSleep'
    <2> SUFFICES ASSUME NEW t \in Task, Waits(t)
                 PROVE  /\ locked' /\ state'[t] = "BLOCKED"
                        /\ pc'[t] = "yielded" => current_task' # t
      BY <1>3 DEF WaitersSleep
    <2>1. locked /\ state[t] = "BLOCKED" /\ (pc[t] = "yielded" => current_task # t)
      BY DEF WaitersSleep
    <2>2. CASE Len(ready) = 0
      <3>1. current_task # t
        <4>1. owner # NULL /\ owner # t
          BY <2>1 DEF OwnerAwake, Waits
        <4>2. ~IsReady(owner)
          BY <2>2 DEF IsReady
        <4> QED
          BY <4>1, <4>2 DEF OwnerAwake
      <3> QED
        BY <1>1, <2>1, <2>2, <3>1, Dispatch
    <2>3. CASE Len(ready) # 0
      <3>1. t # ready[1]
        BY <2>1, <2>3, LenProperties DEF ReadyOnce, Types
      <3> QED
        BY <1>1, <2>1, <2>3, <3>1, Dispatch
    <2> QED
      BY <2>2, <2>3
  <1>8. \E w \in Seq(Task) : IsWaitList(w)'
    BY <1>1, <1>3, SameWaitList DEF IsWaitList
  <1>9. ReadyOnce'
    BY Dispatch
  <1> QED
    BY <1>4, <1>5, <1>6, <1>7, <1>8, <1>9
-----------------------------------------------------------------------------
LEMMA LockFreeStep ==
  ASSUME IInv, NEW t \in Task, LockFree(t)
  PROVE  IInv'
  <1> USE DEF IInv
  <1>1. /\ current_task = t /\ pc[t] = "outside" /\ state[t] = "RUNNING"
        /\ locked = FALSE /\ owner = NULL /\ locked' = TRUE /\ owner' = t
        /\ pc' = [pc EXCEPT ![t] = "holding"]
        /\ UNCHANGED <<wait_head, wait_tail, next, state, current_task, ready>>
    BY DEF LockFree, At, GoTo, scheduler, OwnerAwake, Types
  <1>2. \A u \in Task : ~Waits(u)
    BY <1>1 DEF WaitersSleep
  <1>3. \A u \in Task : ~Waits(u)'
    BY <1>1, <1>2 DEF Waits, InLock, Types, MutexAssumption
  <1>4. Types'
    BY <1>1 DEF Types, Place
  <1>5. OwnerOnly' /\ OwnerAwake'
    BY <1>1 DEF OwnerOnly, OwnerAwake, Types, MutexAssumption
  <1>6. WaitersSleep'
    BY <1>3 DEF WaitersSleep
  <1>7. \E w \in Seq(Task) : IsWaitList(w)'
    BY <1>1, <1>2, <1>3, SameWaitList DEF IsWaitList
  <1>8. ReadyOnce'
    BY <1>1 DEF ReadyOnce
  <1> QED
    BY <1>4, <1>5, <1>6, <1>7, <1>8

(* The task that has to wait goes to the end of the wait list. *)
LEMMA LockBusyList ==
  ASSUME IInv, NEW t \in Task, LockBusy(t), NEW w \in Seq(Task), IsWaitList(w)
  PROVE  IsWaitList(Append(w, t))'
  <1> USE DEF IInv
  <1>1. /\ current_task = t /\ pc[t] = "outside" /\ state[t] = "RUNNING" /\ locked = TRUE
        /\ wait_head' = IF wait_tail = NULL THEN t ELSE wait_head
        /\ wait_tail' = t
        /\ next' = [u \in Task |-> CASE u = t -> NULL
                                     [] u # t /\ u = wait_tail -> t
                                     [] OTHER -> next[u]]
        /\ state' = [state EXCEPT ![t] = "BLOCKED"]
        /\ pc' = [pc EXCEPT ![t] = "yield"]
        /\ UNCHANGED <<locked, owner, current_task, ready>>
    BY DEF LockBusy, At, GoTo, Types
  <1>2. owner # NULL /\ owner \in Task /\ owner # t /\ ~Waits(t)
    BY <1>1 DEF OwnerAwake, Types, Waits, InLock
  <1>3. \A u \in Task : Waits(u)' <=> Waits(u) \/ u = t
    BY <1>1, <1>2 DEF Waits, InLock, Types
  <1> DEFINE v == Append(w, t)
  <1>4. /\ v \in Seq(Task) /\ Len(v) = Len(w) + 1 /\ Len(w) \in Nat
        /\ \A i \in 1..Len(w) : v[i] = w[i] /\ w[i] \in Task /\ w[i] # t
        /\ v[Len(w) + 1] = t
    BY <1>2 DEF IsWaitList
  <1> HIDE DEF v
  <1>5. \A i, j \in 1..Len(v) : v[i] = v[j] => i = j
    <2>1. \A i, j \in 1..Len(w) : w[i] = w[j] => i = j
      BY DEF IsWaitList
    <2>2. \A i \in 1..Len(v) : i \in 1..Len(w) \/ i = Len(w) + 1
      BY <1>4
    <2> QED
      BY <1>4, <2>1, <2>2
  <1>6. \A u \in Task : (\E i \in 1..Len(v) : v[i] = u) <=> Waits(u)'
    <2>1. \A u \in Task : (\E i \in 1..Len(v) : v[i] = u) <=> (\E i \in 1..Len(w) : w[i] = u) \/ u = t
      BY <1>4
    <2> QED
      BY <1>3, <2>1 DEF IsWaitList
  <1>7. wait_head' = v[1] /\ wait_tail' = v[Len(v)] /\ Len(v) # 0
    BY <1>1, <1>4 DEF IsWaitList, MutexAssumption
  <1>8. \A i \in 1..Len(v) : next'[v[i]] = IF i = Len(v) THEN NULL ELSE v[i + 1]
    <2> SUFFICES ASSUME NEW i \in 1..Len(v)
                 PROVE  next'[v[i]] = IF i = Len(v) THEN NULL ELSE v[i + 1]
      OBVIOUS
    <2>1. CASE i = Len(v)
      BY <1>1, <1>4, <2>1
    <2>2. CASE i = Len(w)
      BY <1>1, <1>4, <2>2 DEF IsWaitList
    <2>3. CASE i \in 1..Len(w) - 1
      <3>1. w[i] # wait_tail /\ next[w[i]] = w[i + 1] /\ v[i] = w[i] /\ v[i + 1] = w[i + 1]
        BY <1>4, <2>3 DEF IsWaitList
      <3> QED
        BY <1>1, <1>4, <2>3, <3>1
    <2> QED
      BY <1>4, <2>1, <2>2, <2>3
  <1>9. IsWaitList(v)'
    BY <1>4, <1>5, <1>6, <1>7, <1>8 DEF IsWaitList
  <1> QED
    BY <1>9 DEF v

LEMMA LockBusyStep ==
  ASSUME IInv, NEW t \in Task, LockBusy(t)
  PROVE  IInv'
  <1> USE DEF IInv
  <1>1. /\ current_task = t /\ pc[t] = "outside" /\ state[t] = "RUNNING" /\ locked = TRUE
        /\ wait_head' = IF wait_tail = NULL THEN t ELSE wait_head
        /\ wait_tail' = t
        /\ next' = [u \in Task |-> CASE u = t -> NULL
                                     [] u # t /\ u = wait_tail -> t
                                     [] OTHER -> next[u]]
        /\ state' = [state EXCEPT ![t] = "BLOCKED"]
        /\ pc' = [pc EXCEPT ![t] = "yield"]
        /\ UNCHANGED <<locked, owner, current_task, ready>>
    BY DEF LockBusy, At, GoTo, Types
  <1>2. owner # NULL /\ owner \in Task /\ owner # t /\ ~Waits(t)
    BY <1>1 DEF OwnerAwake, Types, Waits, InLock
  <1>3. \A u \in Task : Waits(u)' <=> Waits(u) \/ u = t
    BY <1>1, <1>2 DEF Waits, InLock, Types
  <1>4. Types'
    BY <1>1 DEF Types, Place
  <1>5. OwnerOnly' /\ OwnerAwake'
    BY <1>1, <1>2 DEF OwnerOnly, OwnerAwake, IsReady, Types
  <1>6. ReadyOnce'
    BY <1>1 DEF ReadyOnce, Types
  <1>7. WaitersSleep'
    BY <1>1, <1>3 DEF WaitersSleep, Types
  <1>8. \E w \in Seq(Task) : IsWaitList(w)'
    BY LockBusyList, AppendProperties
  <1> QED
    BY <1>4, <1>5, <1>6, <1>7, <1>8

LEMMA LockReturnsStep ==
  ASSUME IInv, NEW t \in Task, LockReturns(t)
  PROVE  IInv'
  <1> USE DEF IInv
  <1>1. /\ current_task = t /\ pc[t] = "yielded" /\ pc' = [pc EXCEPT ![t] = "holding"]
        /\ UNCHANGED <<locked, owner, wait_head, wait_tail, next, state, current_task, ready>>
    BY DEF LockReturns, At, GoTo, mutex, scheduler
  <1>2. owner = t /\ locked
    BY <1>1, MutexAssumption DEF WaitersSleep, Waits, InLock, OwnerAwake, MutexAssumption
  <1>3. \A u \in Task : Waits(u)' <=> Waits(u)
    BY <1>1, <1>2 DEF Waits, InLock, Types
  <1>4. Types' /\ ReadyOnce'
    BY <1>1 DEF Types, Place, ReadyOnce
  <1>5. OwnerOnly' /\ OwnerAwake'
    BY <1>1, <1>2 DEF OwnerOnly, OwnerAwake, IsReady, Types
  <1>6. WaitersSleep'
    BY <1>1, <1>2, <1>3 DEF WaitersSleep, Types, Waits
  <1>7. \E w \in Seq(Task) : IsWaitList(w)'
    BY <1>1, <1>3, SameWaitList DEF IsWaitList
  <1> QED
    BY <1>4, <1>5, <1>6, <1>7

-----------------------------------------------------------------------------
(* A sleeping task joins the ready queue. *)
LEMMA AddReady ==
  ASSUME Types, ReadyOnce, NEW t \in Task, state[t] = "BLOCKED", Scheduler_AddReady(t)
  PROVE  /\ ready' \in Seq(Task) /\ ReadyOnce' /\ current_task' = current_task
         /\ state' = [state EXCEPT ![t] = "READY"]
         /\ next' \in [Task -> Task \cup {NULL}] /\ \A u \in Task : u # t => next'[u] = next[u]
         /\ \A u \in Task : IsReady(u)' <=> IsReady(u) \/ u = t
  <1> USE DEF Types
  <1>1. /\ ready' = Append(ready, t) /\ ready' \in Seq(Task) /\ Len(ready') = Len(ready) + 1
        /\ Len(ready) \in Nat /\ \A i \in 1..Len(ready) : ready'[i] = ready[i] /\ ready[i] \in Task
        /\ ready'[Len(ready) + 1] = t
    BY DEF Scheduler_AddReady
  <1>2. state' = [state EXCEPT ![t] = "READY"] /\ current_task' = current_task
    BY DEF Scheduler_AddReady
  <1>3. \A i \in 1..Len(ready) : ready[i] # t
    BY DEF ReadyOnce
  <1>4. ReadyOnce'
    BY <1>1, <1>2, <1>3 DEF ReadyOnce
  <1>5. (ready \o <<t>>)[1] \in Task
    <2>1. ready \o <<t>> \in Seq(Task) /\ Len(ready \o <<t>>) = Len(ready) + 1
      BY <1>1, ConcatProperties
    <2> QED
      BY <1>1, <2>1, LenProperties
  <1>6. next' \in [Task -> Task \cup {NULL}] /\ \A u \in Task : u # t => next'[u] = next[u]
    BY <1>5 DEF Scheduler_AddReady
  <1>7. \A u \in Task : IsReady(u)' <=> IsReady(u) \/ u = t
    BY <1>1 DEF IsReady
  <1> QED
    BY <1>1, <1>2, <1>4, <1>6, <1>7

(* The mutex goes to the front of the wait list, which loses it. *)
LEMMA HandOverList ==
  ASSUME IInv, NEW t \in Task, HandOver(t), NEW w \in Seq(Task), IsWaitList(w)
  PROVE  w # << >> /\ wait_head = Head(w) /\ Tail(w) \in Seq(Task) /\ IsWaitList(Tail(w))'
  <1> USE DEF IInv
  <1> DEFINE h == wait_head
  <1>1. /\ current_task = t /\ pc[t] = "holding" /\ state[t] = "RUNNING" /\ wait_head # NULL
        /\ wait_head' = next[h] /\ wait_tail' = IF next[h] = NULL THEN NULL ELSE wait_tail
        /\ owner' = h /\ pc' = [pc EXCEPT ![t] = "outside"] /\ UNCHANGED locked
        /\ Scheduler_AddReady(h)
    BY DEF HandOver, At, GoTo
  <1>3. /\ h \in Task /\ h = w[1] /\ Len(w) # 0 /\ Waits(h) /\ h # t
        /\ locked = TRUE /\ owner = t /\ state[h] = "BLOCKED"
    BY <1>1, Front DEF OwnerOnly, WaitersSleep, Waits, MutexAssumption, Types
  <1>4. /\ ready' \in Seq(Task) /\ ReadyOnce' /\ current_task' = current_task
        /\ state' = [state EXCEPT ![h] = "READY"]
        /\ next' \in [Task -> Task \cup {NULL}] /\ \A u \in Task : u # h => next'[u] = next[u]
        /\ \A u \in Task : IsReady(u)' <=> IsReady(u) \/ u = h
    BY <1>1, <1>3, AddReady
  <1> HIDE DEF h
  <1>5. \A u \in Task : Waits(u)' <=> Waits(u) /\ u # h
    BY <1>1, <1>3 DEF Waits, InLock, Types
  <1> DEFINE v == Tail(w)
  <1>6. /\ v \in Seq(Task) /\ Len(v) = Len(w) - 1 /\ Len(w) \in Nat \ {0}
        /\ \A i \in 1..Len(v) : v[i] = w[i + 1]
    BY <1>3, HeadTailProperties, EmptySeq
  <1> HIDE DEF v
  <1>7. \A i, j \in 1..Len(v) : v[i] = v[j] => i = j
    <2> SUFFICES ASSUME NEW i \in 1..Len(v), NEW j \in 1..Len(v), v[i] = v[j] PROVE i = j
      OBVIOUS
    <2>1. i + 1 \in 1..Len(w) /\ j + 1 \in 1..Len(w) /\ w[i + 1] = w[j + 1]
      BY <1>6
    <2>2. \A k, l \in 1..Len(w) : w[k] = w[l] => k = l
      BY DEF IsWaitList
    <2>3. i + 1 = j + 1
      BY <2>1, <2>2
    <2> QED
      BY <2>3
  <1>8. \A i \in 1..Len(v) : v[i] # h /\ v[i] \in Task
    BY <1>3, <1>6 DEF IsWaitList
  <1>9. \A u \in Task : (\E i \in 1..Len(v) : v[i] = u) <=> (\E i \in 1..Len(w) : w[i] = u) /\ u # h
    <2> SUFFICES ASSUME NEW u \in Task, u # h, NEW i \in 1..Len(w), w[i] = u
                 PROVE  \E j \in 1..Len(v) : v[j] = u
      BY <1>6, <1>8
    <2>1. i # 1 /\ i - 1 \in 1..Len(v) /\ (i - 1) + 1 = i
      BY <1>3, <1>6
    <2> QED
      BY <1>6, <2>1
  <1>10. \A u \in Task : (\E i \in 1..Len(v) : v[i] = u) <=> Waits(u)'
    BY <1>5, <1>9 DEF IsWaitList
  <1>11. next[h] = IF Len(v) = 0 THEN NULL ELSE v[1]
    BY <1>3, <1>6 DEF IsWaitList
  <1>12. wait_head' = IF Len(v) = 0 THEN NULL ELSE v[1]
    BY <1>1, <1>11
  <1>13. wait_tail' = IF Len(v) = 0 THEN NULL ELSE v[Len(v)]
    <2>1. CASE Len(v) = 0
      BY <1>1, <1>11, <2>1
    <2>2. CASE Len(v) # 0
      <3>1. v[1] \in Task /\ v[Len(v)] = w[Len(w)] /\ wait_tail = w[Len(w)]
        BY <1>6, <1>8, <2>2 DEF IsWaitList
      <3> QED
        BY <1>1, <1>11, <2>2, <3>1 DEF MutexAssumption
    <2> QED
      BY <2>1, <2>2
  <1>14. \A i \in 1..Len(v) : next'[v[i]] = IF i = Len(v) THEN NULL ELSE v[i + 1]
    <2> SUFFICES ASSUME NEW i \in 1..Len(v)
                 PROVE  next'[v[i]] = IF i = Len(v) THEN NULL ELSE v[i + 1]
      OBVIOUS
    <2>1. i + 1 \in 1..Len(w) /\ v[i] = w[i + 1] /\ (i = Len(v) <=> i + 1 = Len(w))
      BY <1>6
    <2>2. next'[v[i]] = next[w[i + 1]]
      BY <1>4, <1>8, <2>1
    <2>3. next[w[i + 1]] = IF i + 1 = Len(w) THEN NULL ELSE w[(i + 1) + 1]
      BY <2>1 DEF IsWaitList
    <2>4. i # Len(v) => v[i + 1] = w[(i + 1) + 1]
      BY <1>6
    <2> QED
      BY <2>1, <2>2, <2>3, <2>4
  <1>15. IsWaitList(v)'
    BY <1>6, <1>7, <1>10, <1>12, <1>13, <1>14 DEF IsWaitList
  <1>16. w # << >> /\ h = Head(w) /\ v \in Seq(Task)
    BY <1>3, <1>6, HeadTailProperties, EmptySeq
  <1> QED
    BY <1>15, <1>16 DEF v, h

LEMMA HandOverStep ==
  ASSUME IInv, NEW t \in Task, HandOver(t)
  PROVE  IInv'
  <1> USE DEF IInv
  <1> DEFINE h == wait_head
  <1>1. /\ current_task = t /\ pc[t] = "holding" /\ state[t] = "RUNNING" /\ wait_head # NULL
        /\ wait_head' = next[h] /\ wait_tail' = IF next[h] = NULL THEN NULL ELSE wait_tail
        /\ owner' = h /\ pc' = [pc EXCEPT ![t] = "outside"] /\ UNCHANGED locked
        /\ Scheduler_AddReady(h)
    BY DEF HandOver, At, GoTo
  <1>2. PICK w \in Seq(Task) : IsWaitList(w)
    OBVIOUS
  <1>3. /\ h \in Task /\ h = w[1] /\ Len(w) # 0 /\ Waits(h) /\ h # t
        /\ locked = TRUE /\ owner = t /\ state[h] = "BLOCKED"
    BY <1>1, <1>2, Front DEF OwnerOnly, WaitersSleep, Waits, MutexAssumption, Types
  <1>4. /\ ready' \in Seq(Task) /\ ReadyOnce' /\ current_task' = current_task
        /\ state' = [state EXCEPT ![h] = "READY"]
        /\ next' \in [Task -> Task \cup {NULL}] /\ \A u \in Task : u # h => next'[u] = next[u]
        /\ \A u \in Task : IsReady(u)' <=> IsReady(u) \/ u = h
    BY <1>1, <1>3, AddReady
  <1> HIDE DEF h
  <1>5. \A u \in Task : Waits(u)' <=> Waits(u) /\ u # h
    BY <1>1, <1>3 DEF Waits, InLock, Types
  <1>6. Types'
    BY <1>1, <1>3, <1>4 DEF Types, Place
  <1>7. OwnerOnly'
    BY <1>1, <1>3 DEF OwnerOnly, Types, Waits, InLock
  <1>8. OwnerAwake'
    <2>1. h # current_task' /\ \E i \in 1..Len(ready') : ready'[i] = h
      BY <1>1, <1>3, <1>4 DEF IsReady
    <2>2. pc'[h] # "outside" /\ h # NULL /\ locked'
      BY <1>1, <1>3 DEF Types, Waits, InLock, MutexAssumption
    <2> QED
      BY <1>1, <2>1, <2>2 DEF OwnerAwake, IsReady
  <1>9. WaitersSleep'
    BY <1>1, <1>3, <1>4, <1>5 DEF WaitersSleep, Types, Waits, InLock
  <1>10. \E v \in Seq(Task) : IsWaitList(v)'
    BY <1>2, HandOverList
  <1> QED
    BY <1>4, <1>6, <1>7, <1>8, <1>9, <1>10

LEMMA ReleaseStep ==
  ASSUME IInv, NEW t \in Task, Release(t)
  PROVE  IInv'
  <1> USE DEF IInv
  <1>1. /\ current_task = t /\ pc[t] = "holding" /\ wait_head = NULL
        /\ locked' = FALSE /\ owner' = NULL /\ pc' = [pc EXCEPT ![t] = "outside"]
        /\ UNCHANGED <<wait_head, wait_tail, next, state, current_task, ready>>
    BY DEF Release, At, GoTo, scheduler
  <1>2. PICK w \in Seq(Task) : IsWaitList(w)
    OBVIOUS
  <1>3. \A u \in Task : ~Waits(u)
    BY <1>1, <1>2, Front DEF IsWaitList, MutexAssumption
  <1>4. owner = t
    BY <1>1 DEF OwnerOnly
  <1>5. \A u \in Task : ~Waits(u)'
    BY <1>1, <1>3, <1>4 DEF Waits, InLock, Types
  <1>6. Types' /\ ReadyOnce'
    BY <1>1 DEF Types, Place, ReadyOnce
  <1>7. OwnerOnly' /\ OwnerAwake'
    BY <1>1, <1>4 DEF OwnerOnly, OwnerAwake, Types
  <1>8. WaitersSleep'
    BY <1>5 DEF WaitersSleep
  <1>9. IsWaitList(w)'
    BY <1>1, <1>2, <1>3, <1>5, SameWaitList
  <1> QED
    BY <1>2, <1>6, <1>7, <1>8, <1>9

-----------------------------------------------------------------------------
(* Who waits for a device is not the owner.  Here the assumption counts.   *)
LEMMA DeviceStep ==
  ASSUME IInv, ~HolderMayBlock, NEW t \in Task, Block(t) \/ DriverWakes(t)
  PROVE  IInv'
  <1> USE DEF IInv
  <1>1. CASE Block(t)
    <2>1. /\ current_task = t /\ pc[t] = "outside" /\ state' = [state EXCEPT ![t] = "BLOCKED"]
          /\ state[t] = "RUNNING"
          /\ UNCHANGED <<locked, owner, wait_head, wait_tail, next, current_task, ready, pc>>
      BY <1>1 DEF Block, At, mutex
    <2>2. owner # t
      BY <2>1 DEF OwnerAwake, Types, MutexAssumption
    <2>3. \A u \in Task : Waits(u)' <=> Waits(u)
      BY <2>1 DEF Waits, InLock
    <2>4. Types' /\ ReadyOnce' /\ OwnerOnly'
      BY <2>1 DEF Types, ReadyOnce, OwnerOnly
    <2>5. OwnerAwake'
      BY <2>1, <2>2 DEF OwnerAwake, IsReady, Types
    <2>6. WaitersSleep'
      BY <2>1, <2>3 DEF WaitersSleep, Types
    <2>7. \E w \in Seq(Task) : IsWaitList(w)'
      BY <2>1, <2>3, SameWaitList DEF IsWaitList
    <2> QED
      BY <2>4, <2>5, <2>6, <2>7
  <1>2. CASE DriverWakes(t)
    <2>1. /\ state[t] = "BLOCKED" /\ pc[t] \in {"outside", "holding"} /\ Scheduler_AddReady(t)
          /\ UNCHANGED <<locked, owner, wait_head, wait_tail, pc>>
      BY <1>2 DEF DriverWakes, mutex
    <2>2. /\ ready' \in Seq(Task) /\ ReadyOnce' /\ current_task' = current_task
          /\ state' = [state EXCEPT ![t] = "READY"]
          /\ next' \in [Task -> Task \cup {NULL}] /\ \A u \in Task : u # t => next'[u] = next[u]
          /\ \A u \in Task : IsReady(u)' <=> IsReady(u) \/ u = t
      BY <2>1, AddReady
    <2>3. ~Waits(t) /\ \A u \in Task : Waits(u)' <=> Waits(u)
      BY <2>1 DEF Waits, InLock
    <2>4. Types' /\ OwnerOnly'
      BY <2>1, <2>2 DEF Types, OwnerOnly
    <2>5. OwnerAwake'
      <3>1. owner # NULL /\ owner = current_task => owner # t
        BY <2>1 DEF OwnerAwake
      <3>2. CASE owner = NULL
        BY <2>1, <3>2 DEF OwnerAwake
      <3>3. CASE owner # NULL
        <4>1. owner \in Task
          BY <3>3 DEF Types
        <4>2. owner # current_task => \E i \in 1..Len(ready') : ready'[i] = owner
          BY <2>2, <3>3, <4>1 DEF OwnerAwake, IsReady
        <4> QED
          BY <2>1, <2>2, <3>1, <3>3, <4>1, <4>2 DEF OwnerAwake, IsReady, Types
      <3> QED
        BY <3>2, <3>3
    <2>6. WaitersSleep'
      BY <2>1, <2>2, <2>3 DEF WaitersSleep, Types
    <2>7. \E w \in Seq(Task) : IsWaitList(w)'
      <3>1. PICK w \in Seq(Task) : IsWaitList(w)
        OBVIOUS
      <3>2. \A u \in Task : Waits(u) => next'[u] = next[u]
        BY <2>2, <2>3
      <3>3. IsWaitList(w)'
        BY <2>1, <2>3, <3>1, <3>2, SameWaitList
      <3> QED
        BY <3>1, <3>3
    <2> QED
      BY <2>2, <2>4, <2>5, <2>6, <2>7
  <1> QED
    BY <1>1, <1>2

LEMMA StepIInv == IInv /\ [Next]_vars /\ ~HolderMayBlock => IInv'
  <1> SUFFICES ASSUME IInv, [Next]_vars, ~HolderMayBlock PROVE IInv'
    OBVIOUS
  <1>1. CASE Tick
    BY <1>1, ScheduleStep DEF Tick
  <1>2. ASSUME NEW t \in Task, OS_Yield(t) PROVE IInv'
    BY <1>2, ScheduleStep DEF OS_Yield
  <1>3. CASE UNCHANGED vars
    <2>1. PICK w \in Seq(Task) : IsWaitList(w)
      BY DEF IInv
    <2>2. IsWaitList(w)'
      BY <1>3, <2>1 DEF vars, mutex, scheduler, IsWaitList, Waits, InLock
    <2>3. (Types /\ OwnerOnly /\ WaitersSleep /\ ReadyOnce /\ OwnerAwake)'
      BY <1>3 DEF vars, mutex, scheduler, IInv, Types, OwnerOnly, WaitersSleep, Waits, InLock,
                  ReadyOnce, OwnerAwake, IsReady
    <2> QED
      BY <2>1, <2>2, <2>3 DEF IInv
  <1> QED
    BY <1>1, <1>2, <1>3, LockFreeStep, LockBusyStep, LockReturnsStep, HandOverStep, ReleaseStep,
       DeviceStep DEF Next, Mutex_Lock, Mutex_Unlock

-----------------------------------------------------------------------------
LEMMA Invariance ==
  ASSUME HolderMayBlock = FALSE
  PROVE  Spec => []IInv
  <1>1. IInv /\ [Next]_vars => IInv'
    BY StepIInv
  <1> QED
    BY InitIInv, <1>1, PTL DEF Spec

(* Whoever goes on as the holder is the owner, for any number of tasks and *)
(* wherever the tick comes, provided no holder waits for a device: without *)
(* that, OS_Yield can come back to a waiter because nobody else is ready.  *)
THEOREM OwnerHolds ==
  ASSUME HolderMayBlock = FALSE
  PROVE  Spec => []OwnerOnly
  <1>1. IInv => OwnerOnly
    BY DEF IInv
  <1> QED
    BY Invariance, <1>1, PTL

-----------------------------------------------------------------------------
(* Induction, in the form in which the provers can use it: a set of natural *)
(* numbers that is not empty has a least element.                           *)
LEMMA LeastElement ==
  ASSUME NEW S, S \subseteq Nat, S # {}
  PROVE  \E x \in S : \A y \in S : x <= y
  <1> DEFINE R == {ss \in Nat \X Nat : ss[1] < ss[2]}
  <1>1. IsWellFoundedOn(R, Nat)
    BY NatLessThanWellFounded DEF OpToRel
  <1>2. \A x, y \in Nat : y < x => <<y, x>> \in R
    OBVIOUS
  <1> HIDE DEF R
  <1>3. PICK x \in S : \A y \in S : ~ (<<y, x>> \in R)
    BY <1>1, WFMin
  <1>4. \A y \in S : ~(y < x)
    BY <1>2, <1>3
  <1>5. \A y \in S : x <= y
    BY <1>4
  <1> QED
    BY <1>5

(* The pointers lead through one list only. *)
LEMMA OneList ==
  \A w, v \in Seq(Task) : Linked(w) /\ Linked(v) => w = v
  <1> SUFFICES ASSUME NEW w \in Seq(Task), NEW v \in Seq(Task), Linked(w), Linked(v), w # v
               PROVE  FALSE
    OBVIOUS
  <1>1. /\ Len(w) \in Nat /\ DOMAIN w = 1..Len(w) /\ \A i \in 1..Len(w) : w[i] \in Task
        /\ Len(v) \in Nat /\ DOMAIN v = 1..Len(v) /\ \A i \in 1..Len(v) : v[i] \in Task
    OBVIOUS
  <1>2. (Len(w) = 0 => wait_head = NULL) /\ (Len(w) # 0 => wait_head = w[1])
    <2>1. w = << >> <=> Len(w) = 0
      BY EmptySeq
    <2> QED
      BY <2>1 DEF Linked
  <1>3. (Len(v) = 0 => wait_head = NULL) /\ (Len(v) # 0 => wait_head = v[1])
    <2>1. v = << >> <=> Len(v) = 0
      BY EmptySeq
    <2> QED
      BY <2>1 DEF Linked
  <1>4. /\ \A i \in 1..Len(w) : next[w[i]] = IF i = Len(w) THEN NULL ELSE w[i + 1]
        /\ \A i \in 1..Len(v) : next[v[i]] = IF i = Len(v) THEN NULL ELSE v[i + 1]
    BY <1>1 DEF Linked
  <1>5. PICK m, n : m = Len(w) /\ n = Len(v)
    OBVIOUS
  <1>6. m \in Nat /\ n \in Nat
    BY <1>1, <1>5
  <1> DEFINE Same(i) == (i <= m <=> i <= n) /\ (i <= m /\ i <= n => w[i] = v[i])
             Differ  == {i \in Nat \ {0} : ~Same(i)}
  <1>7. Differ # {}
    <2>1. CASE m = n
      <3>1. PICK i \in 1..Len(w) : w[i] # v[i]
        BY <1>5, <2>1, SeqEqual
      <3>2. i \in Nat \ {0} /\ i <= m /\ i <= n
        BY <1>5, <1>6, <2>1
      <3> QED
        BY <3>1, <3>2
    <2>2. CASE m < n
      <3>1. n \in Nat \ {0} /\ ~(n <= m) /\ n <= n
        BY <1>6, <2>2
      <3> QED
        BY <3>1
    <2>3. CASE n < m
      <3>1. m \in Nat \ {0} /\ ~(m <= n) /\ m <= m
        BY <1>6, <2>3
      <3> QED
        BY <3>1
    <2>4. m = n \/ m < n \/ n < m
      BY <1>6
    <2> QED
      BY <2>1, <2>2, <2>3, <2>4
  <1>8. PICK i \in Differ : \A j \in Differ : i <= j
    <2>1. Differ \subseteq Nat
      OBVIOUS
    <2> HIDE DEF Differ
    <2> QED
      BY <1>7, <2>1, LeastElement
  <1>9. i \in Nat \ {0} /\ ~Same(i)
    OBVIOUS
  <1>10. CASE i = 1
    <2>1. (1 <= m <=> m # 0) /\ (1 <= n <=> n # 0)
      BY <1>6
    <2>2. (m # 0 => w[1] \in Task) /\ (n # 0 => v[1] \in Task)
      BY <1>1, <1>5
    <2> QED
      BY <1>2, <1>3, <1>5, <1>9, <1>10, <2>1, <2>2, MutexAssumption
  <1>11. CASE i # 1
    <2>1. i - 1 \in Nat \ {0} /\ ~(i <= i - 1) /\ (i - 1) + 1 = i
      BY <1>9, <1>11
    <2>2. Same(i - 1)
      BY <1>8, <2>1
    <2>3. i <= m => i - 1 <= m /\ i - 1 # m
      BY <1>6, <1>9
    <2>4. i <= n => i - 1 <= n /\ i - 1 # n
      BY <1>6, <1>9
    <2>5. i - 1 <= m => i - 1 \in 1..Len(w) /\ (i - 1 # m => i <= m)
      BY <1>5, <1>6, <1>9, <2>1
    <2>6. i - 1 <= n => i - 1 \in 1..Len(v) /\ (i - 1 # n => i <= n)
      BY <1>5, <1>6, <1>9, <2>1
    <2>7. i - 1 <= m => next[w[i - 1]] = IF i - 1 = m THEN NULL ELSE w[i]
      BY <1>4, <1>5, <2>1, <2>5
    <2>8. i - 1 <= n => next[v[i - 1]] = IF i - 1 = n THEN NULL ELSE v[i]
      BY <1>4, <1>5, <2>1, <2>6
    <2>9. (i <= m => w[i] \in Task) /\ (i <= n => v[i] \in Task)
      BY <1>1, <1>5, <1>6, <1>9
    <2> QED
      BY <1>9, <2>2, <2>3, <2>4, <2>5, <2>6, <2>7, <2>8, <2>9, MutexAssumption
  <1> QED
    BY <1>10, <1>11

(* A wait list is no longer than there are tasks, so Waiting finds it. *)
LEMMA WaitingIs ==
  \A w \in Seq(Task) : IsWaitList(w) => Waiting = w
  <1> SUFFICES ASSUME NEW w \in Seq(Task), IsWaitList(w) PROVE Waiting = w
    OBVIOUS
  <1>1. Len(w) \in Nat /\ w \in [1..Len(w) -> Task] /\ DOMAIN w = 1..Len(w)
    OBVIOUS
  <1>2. Linked(w)
    <2>1. w = << >> <=> Len(w) = 0
      BY EmptySeq
    <2> QED
      BY <1>1, <2>1 DEF Linked, IsWaitList
  <1>3. Len(w) <= Cardinality(Task)
    <2>1. w \in Injection(1..Len(w), Task)
      BY <1>1 DEF IsWaitList, Injection, IsInjective
    <2>2. IsFiniteSet(1..Len(w)) /\ Cardinality(1..Len(w)) = Len(w)
      BY <1>1, FS_Interval
    <2> QED
      BY <2>1, <2>2, FS_Injection, MutexAssumption
  <1>4. w \in UNION {[1..n -> Task] : n \in 0..Cardinality(Task)}
    <2>1. Cardinality(Task) \in Nat
      BY FS_CardinalityType, MutexAssumption
    <2> QED
      BY <1>1, <1>3, <2>1
  <1>5. Linked(Waiting) /\ Waiting \in UNION {[1..n -> Task] : n \in 0..Cardinality(Task)}
    BY <1>2, <1>4 DEF Waiting
  <1>6. Waiting \in Seq(Task)
    BY <1>5
  <1> QED
    BY <1>2, <1>5, <1>6, OneList

LEMMA WaitingIsPrimed ==
  (\A w \in Seq(Task) : IsWaitList(w) => Waiting = w)'
  BY WaitingIs, PTL

LEMMA WaitingIsList ==
  ASSUME IInv
  PROVE  Waiting \in Seq(Task) /\ IsWaitList(Waiting)
  BY WaitingIs DEF IInv

(* Types; nobody is ready twice; wait_tail is the end of the wait list. *)
THEOREM TypeCorrect ==
  ASSUME HolderMayBlock = FALSE
  PROVE  Spec => []TypeOK
  <1>1. IInv => TypeOK
    <2> SUFFICES ASSUME IInv PROVE TypeOK
      OBVIOUS
    <2>1. Types /\ ReadyOnce
      BY DEF IInv
    <2>2. \A i, j \in DOMAIN ready : ready[i] = ready[j] => i = j
      BY <2>1 DEF Types, ReadyOnce
    <2>3. wait_tail = IF Waiting = << >> THEN NULL ELSE Waiting[Len(Waiting)]
      <3>1. Waiting = << >> <=> Len(Waiting) = 0
        BY WaitingIsList, EmptySeq
      <3> QED
        BY <3>1, WaitingIsList DEF IsWaitList
    <2> QED
      BY <2>1, <2>2, <2>3 DEF Types, TypeOK
  <1> QED
    BY Invariance, <1>1, PTL

(* The pointers of the mutex lead through exactly the tasks that are in    *)
(* Mutex_Lock without the mutex, and all of these sleep off the ready      *)
(* queue: nobody is forgotten and nobody gets in unasked.                  *)
THEOREM WaitersAreBlocked ==
  ASSUME HolderMayBlock = FALSE
  PROVE  Spec => []WaitersBlocked
  <1>1. IInv => WaitersBlocked
    <2> SUFFICES ASSUME IInv PROVE WaitersBlocked
      OBVIOUS
    <2>1. \A t \in Task : t \in WaitingTasks <=> Waits(t)
      BY WaitingIsList DEF WaitingTasks, IsWaitList
    <2>2. WaitingTasks \subseteq Task
      BY WaitingIsList DEF WaitingTasks
    <2>3. WaitingTasks = {t \in Task : pc[t] \in {"yield", "yielded"} /\ owner # t}
      BY <2>1, <2>2 DEF Waits, InLock
    <2>4. \A t \in WaitingTasks : state[t] = "BLOCKED"
      BY <2>1, <2>2 DEF IInv, WaitersSleep
    <2>5. \A t \in WaitingTasks : t \notin ReadyTasks
      <3>1. \A i \in DOMAIN ready : state[ready[i]] = "READY"
        BY DEF IInv, Types, ReadyOnce
      <3> QED
        BY <2>4, <3>1 DEF ReadyTasks
    <2> QED
      BY <2>3, <2>4, <2>5 DEF WaitersBlocked
  <1> QED
    BY Invariance, <1>1, PTL

-----------------------------------------------------------------------------
(* The refinement: what each step does to the wait list. *)
LEMMA ListKept ==
  ASSUME IInv, UNCHANGED <<wait_head, wait_tail>>,
         \A t \in Task : Waits(t)' <=> Waits(t),
         \A t \in Task : Waits(t) => next'[t] = next[t]
  PROVE  Waiting' = Waiting
  <1>1. PICK w \in Seq(Task) : w = Waiting /\ IsWaitList(w)
    BY WaitingIsList
  <1>2. IsWaitList(w)'
    BY <1>1, SameWaitList
  <1> QED
    BY <1>1, <1>2, WaitingIsPrimed

LEMMA InitRefines == Mutex_Init => FL!Init
  <1> SUFFICES ASSUME Mutex_Init PROVE FL!Init
    OBVIOUS
  <1>1. PICK w \in Seq(Task) : w = Waiting /\ IsWaitList(w)
    BY InitIInv, WaitingIsList
  <1>2. Len(w) = 0
    BY <1>1, Front, MutexAssumption DEF Mutex_Init
  <1> QED
    BY <1>1, <1>2, EmptySeq DEF Mutex_Init, FL!Init

LEMMA StepRefines ==
  ASSUME IInv, Next, ~HolderMayBlock
  PROVE  FL!Next \/ UNCHANGED <<owner, Waiting>>
  <1>1. Types
    BY DEF IInv
  <1>2. PICK w \in Seq(Task) : w = Waiting /\ IsWaitList(w)
    BY WaitingIsList
  <1>3. ASSUME OS_Schedule, UNCHANGED pc \/ \E t \in Task : At(t, "yield") /\ GoTo(t, "yielded")
        PROVE  UNCHANGED <<owner, Waiting>>
    <2>1. UNCHANGED <<locked, owner, wait_head, wait_tail, next>>
      BY <1>3 DEF OS_Schedule, mutex
    <2>2. \A t \in Task : InLock(t)' <=> InLock(t)
      BY <1>1, <1>3 DEF Types, InLock, At, GoTo
    <2> QED
      BY <2>1, <2>2, ListKept DEF Waits
  <1>4. ASSUME NEW t \in Task, LockFree(t) PROVE FL!Acquire(t)
    <2>1. owner = NULL /\ owner' = t /\ UNCHANGED <<wait_head, wait_tail, next>>
      BY <1>4 DEF LockFree, IInv, OwnerAwake, Types
    <2>2. Waiting' = Waiting
      BY <2>1 DEF Waiting, Linked
    <2> QED
      BY <2>1, <2>2 DEF FL!Acquire
  <1>5. ASSUME NEW t \in Task, LockBusy(t) PROVE FL!Wait(t)
    <2>1. owner # NULL /\ owner' = owner /\ ~Waits(t)
      BY <1>1, <1>5 DEF LockBusy, At, IInv, OwnerAwake, Waits, InLock, Types
    <2>2. Append(w, t) \in Seq(Task) /\ IsWaitList(Append(w, t))'
      BY <1>2, <1>5, LockBusyList
    <2>3. Waiting' = Append(w, t)
      BY <2>2, WaitingIsPrimed
    <2>4. t \notin {w[i] : i \in DOMAIN w}
      BY <1>2, <2>1 DEF IsWaitList
    <2> QED
      BY <1>2, <2>1, <2>3, <2>4 DEF FL!Wait
  <1>6. ASSUME NEW t \in Task, LockReturns(t) PROVE UNCHANGED <<owner, Waiting>>
    BY <1>6 DEF LockReturns, mutex, Waiting, Linked
  <1>7. ASSUME NEW t \in Task, HandOver(t) PROVE FL!Release
    <2>1. w # << >> /\ wait_head = Head(w) /\ Tail(w) \in Seq(Task) /\ IsWaitList(Tail(w))'
      BY <1>2, <1>7, HandOverList
    <2>2. Waiting' = Tail(w)
      BY <2>1, WaitingIsPrimed
    <2>3. owner' = Head(w) /\ owner # NULL
      BY <1>7, <2>1, MutexAssumption DEF HandOver, At, IInv, OwnerOnly
    <2> QED
      BY <1>2, <2>1, <2>2, <2>3 DEF FL!Release
  <1>8. ASSUME NEW t \in Task, Release(t) PROVE FL!Release
    <2>1. owner # NULL /\ owner' = NULL /\ wait_head = NULL /\ UNCHANGED <<wait_head, wait_tail, next>>
      BY <1>8, MutexAssumption DEF Release, At, IInv, OwnerOnly
    <2>2. w = << >>
      BY <1>2, <2>1, Front, EmptySeq, MutexAssumption
    <2>3. Waiting' = Waiting
      BY <2>1 DEF Waiting, Linked
    <2> QED
      BY <1>2, <2>1, <2>2, <2>3 DEF FL!Release
  <1>9. ASSUME NEW t \in Task, Block(t) PROVE UNCHANGED <<owner, Waiting>>
    BY <1>9 DEF Block, mutex, Waiting, Linked
  <1>10. ASSUME NEW t \in Task, DriverWakes(t) PROVE UNCHANGED <<owner, Waiting>>
    <2>1. /\ state[t] = "BLOCKED" /\ pc[t] \in {"outside", "holding"} /\ Scheduler_AddReady(t)
          /\ UNCHANGED <<owner, wait_head, wait_tail, pc>>
      BY <1>10 DEF DriverWakes, mutex
    <2>2. \A u \in Task : u # t => next'[u] = next[u]
      BY <1>1, <2>1, AddReady DEF IInv
    <2>3. ~Waits(t) /\ \A u \in Task : Waits(u)' <=> Waits(u)
      BY <2>1 DEF Waits, InLock
    <2> QED
      BY <2>1, <2>2, <2>3, ListKept
  <1> QED
    BY <1>3, <1>4, <1>5, <1>6, <1>7, <1>8, <1>9, <1>10
    DEF Next, Tick, Mutex_Lock, OS_Yield, Mutex_Unlock, FL!Next

(* mutex.c implements the first-come first-served lock: every step on its  *)
(* linked list is a step of the queue or leaves it alone, wherever the     *)
(* tick comes.                                                             *)
THEOREM RefinesFifoLock ==
  ASSUME HolderMayBlock = FALSE
  PROVE  Spec => ImplementsFifoLock
  <1>1. IInv /\ [Next]_vars => [FL!Next]_FL!vars
    <2>1. CASE UNCHANGED vars
      BY <2>1 DEF vars, mutex, Waiting, Linked, FL!vars
    <2>2. ASSUME IInv, Next PROVE [FL!Next]_FL!vars
      BY <2>2, StepRefines DEF FL!vars
    <2> QED
      BY <2>1, <2>2
  <1> QED
    BY Invariance, InitRefines, <1>1, PTL DEF Spec, ImplementsFifoLock, FL!Spec
============================================================================
