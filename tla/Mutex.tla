------------------------------- MODULE Mutex --------------------------------
(***************************************************************************)
(* The kernel's mutex, mutex.c, and OS_Yield, os_yield.s.                  *)
(*                                                                         *)
(* Mutex_Lock and Mutex_Unlock really mask interrupts, so each is one step *)
(* but for the OS_Yield that ends Mutex_Lock: it comes after the critical  *)
(* region, and a tick may come in between.                                 *)
(*                                                                         *)
(* mutex.c is written against a scheduler it declares extern, with a ready *)
(* queue that the running task is not on (Mutex_Lock overwrites its next)  *)
(* and a Scheduler_AddReady that no file defines.  That queue is `ready`   *)
(* here; OS_Schedule is scheduler.c's where the two can agree: it changes  *)
(* nothing when nobody is ready.  A task may also wait for a device, the   *)
(* way OS_TaskBlock does it: it stops being ready, and a driver wakes it.  *)
(* HolderMayBlock says whether it may while it holds the mutex.            *)
(***************************************************************************)
EXTENDS Naturals, Sequences, FiniteSets

CONSTANTS Task, NULL, HolderMayBlock

ASSUME MutexAssumption ==
    /\ IsFiniteSet(Task) /\ Task # {}
    /\ NULL \notin Task
    /\ HolderMayBlock \in BOOLEAN

VARIABLES
    locked, owner, wait_head, wait_tail,    (* the Mutex                    *)
    next, state,                            (* the tasks' control blocks    *)
    current_task, ready,                    (* the scheduler's              *)
    pc                                      (* where each task is           *)

mutex     == <<locked, owner, wait_head, wait_tail>>
scheduler == <<state, current_task, ready>>
vars      == <<mutex, next, scheduler, pc>>

(* Outside the calls without the mutex; in Mutex_Lock, about to call       *)
(* OS_Yield; in OS_Yield, its trap taken; and with the mutex, or so the    *)
(* task believes.                                                          *)
Place == {"outside", "yield", "yielded", "holding"}

ReadyTasks == {ready[i] : i \in DOMAIN ready}

(* Mutex_Init, and a scheduler that has dispatched a first task. *)
Mutex_Init ==
    /\ locked = FALSE
    /\ owner = NULL
    /\ wait_head = NULL
    /\ wait_tail = NULL
    /\ next = [t \in Task |-> NULL]
    /\ current_task \in Task
    /\ state = [t \in Task |-> IF t = current_task THEN "RUNNING" ELSE "READY"]
    /\ ready \in {q \in [1..Cardinality(Task) - 1 -> Task \ {current_task}] :
                     \A i, j \in DOMAIN q : q[i] = q[j] => i = j}
    /\ pc = [t \in Task |-> "outside"]

(* A task that waits for a device does nothing, even if it has the CPU. *)
At(t, place)   == /\ current_task = t
                  /\ pc[t] = place
                  /\ place \in {"outside", "holding"} => state[t] = "RUNNING"
GoTo(t, place) == pc' = [pc EXCEPT ![t] = place]

-----------------------------------------------------------------------------
(* OS_Schedule: a task that was running becomes ready again.  The tick and *)
(* OS_YieldTrap save the context of current_task, call it, and resume      *)
(* whatever current_task is then.                                          *)
OS_Schedule ==
    /\ UNCHANGED <<mutex, next>>
    /\ IF ready = << >>
       THEN UNCHANGED scheduler
       ELSE LET still == state[current_task] = "RUNNING" IN
            /\ current_task' = Head(ready)
            /\ ready' = IF still THEN Append(Tail(ready), current_task) ELSE Tail(ready)
            /\ state' = [t \in Task |->
                            CASE t = Head(ready)                          -> "RUNNING"
                              [] t # Head(ready) /\ t = current_task /\ still -> "READY"
                              [] OTHER                                    -> state[t]]

Tick == OS_Schedule /\ UNCHANGED pc

-----------------------------------------------------------------------------
(* Mutex_Lock, the mutex being free. *)
LockFree(t) ==
    /\ At(t, "outside")
    /\ ~locked
    /\ locked' = TRUE
    /\ owner' = t
    /\ GoTo(t, "holding")
    /\ UNCHANGED <<wait_head, wait_tail, next, scheduler>>

(* Mutant: the task that has to wait goes to the front of the queue. *)
LockBusyFront(t) ==
    /\ At(t, "outside")
    /\ locked
    /\ wait_head' = t
    /\ wait_tail' = IF wait_tail = NULL THEN t ELSE wait_tail
    /\ next' = [next EXCEPT ![t] = wait_head]
    /\ state' = [state EXCEPT ![t] = "BLOCKED"]
    /\ GoTo(t, "yield")
    /\ UNCHANGED <<locked, owner, current_task, ready>>

(* Mutant: the task that has to wait is not marked as blocked. *)
LockBusyReady(t) ==
    /\ At(t, "outside")
    /\ locked
    /\ wait_head' = IF wait_tail = NULL THEN t ELSE wait_head
    /\ wait_tail' = t
    /\ next' = [u \in Task |-> CASE u = t -> NULL
                                 [] u # t /\ u = wait_tail -> t
                                 [] OTHER -> next[u]]
    /\ GoTo(t, "yield")
    /\ UNCHANGED <<locked, owner, scheduler>>

(* Mutex_Lock, the mutex being taken: to the end of the queue. *)
LockBusy(t) ==
    /\ At(t, "outside")
    /\ locked
    /\ wait_head' = IF wait_tail = NULL THEN t ELSE wait_head
    /\ wait_tail' = t
    /\ next' = [u \in Task |-> CASE u = t -> NULL
                                 [] u # t /\ u = wait_tail -> t
                                 [] OTHER -> next[u]]
    /\ state' = [state EXCEPT ![t] = "BLOCKED"]
    /\ GoTo(t, "yield")
    /\ UNCHANGED <<locked, owner, current_task, ready>>

OS_Yield(t) ==
    /\ At(t, "yield")
    /\ OS_Schedule
    /\ GoTo(t, "yielded")

(* The task was chosen again: Mutex_Lock returns without looking. *)
LockReturns(t) ==
    /\ At(t, "yielded")
    /\ GoTo(t, "holding")
    /\ UNCHANGED <<mutex, next, scheduler>>

-----------------------------------------------------------------------------
(* Scheduler_AddReady(t): its queue is linked through next as well (premise *)
(* 1 of mutex.c), and may end in NULL or, as scheduler.c's, at its head.    *)
Scheduler_AddReady(t) ==
    /\ ready' = Append(ready, t)
    /\ state' = [state EXCEPT ![t] = "READY"]
    /\ next' \in {[next EXCEPT ![t] = u] : u \in {NULL, (ready \o <<t>>)[1]}}
    /\ UNCHANGED current_task

(* Mutant: the mutex is marked as free although it has a new owner. *)
HandOverUnlocked(t) ==
    /\ At(t, "holding")
    /\ wait_head # NULL
    /\ wait_head' = next[wait_head]
    /\ wait_tail' = IF next[wait_head] = NULL THEN NULL ELSE wait_tail
    /\ owner' = wait_head
    /\ locked' = FALSE
    /\ Scheduler_AddReady(wait_head)
    /\ GoTo(t, "outside")

(* Mutant: the tail of the queue is not cleared with its head. *)
HandOverKeepsTail(t) ==
    /\ At(t, "holding")
    /\ wait_head # NULL
    /\ wait_head' = next[wait_head]
    /\ owner' = wait_head
    /\ Scheduler_AddReady(wait_head)
    /\ GoTo(t, "outside")
    /\ UNCHANGED <<locked, wait_tail>>

(* Mutant: the new owner is not given back to the scheduler. *)
HandOverAsleep(t) ==
    /\ At(t, "holding")
    /\ wait_head # NULL
    /\ wait_head' = next[wait_head]
    /\ wait_tail' = IF next[wait_head] = NULL THEN NULL ELSE wait_tail
    /\ owner' = wait_head
    /\ GoTo(t, "outside")
    /\ UNCHANGED <<locked, next, scheduler>>

(* Mutex_Unlock with somebody waiting: the mutex stays locked and goes to  *)
(* the first of the queue.                                                 *)
HandOver(t) ==
    /\ At(t, "holding")
    /\ wait_head # NULL
    /\ wait_head' = next[wait_head]
    /\ wait_tail' = IF next[wait_head] = NULL THEN NULL ELSE wait_tail
    /\ owner' = wait_head
    /\ Scheduler_AddReady(wait_head)
    /\ GoTo(t, "outside")
    /\ UNCHANGED locked

(* Mutex_Unlock with nobody waiting. *)
Release(t) ==
    /\ At(t, "holding")
    /\ wait_head = NULL
    /\ locked' = FALSE
    /\ owner' = NULL
    /\ GoTo(t, "outside")
    /\ UNCHANGED <<wait_head, wait_tail, next, scheduler>>

-----------------------------------------------------------------------------
(* A task waits for a device; it has the CPU until the next dispatch. *)
Block(t) ==
    /\ At(t, "outside") \/ (At(t, "holding") /\ HolderMayBlock)
    /\ state' = [state EXCEPT ![t] = "BLOCKED"]
    /\ UNCHANGED <<mutex, next, current_task, ready, pc>>

(* The device's interrupt handler gives the task back to the scheduler. *)
DriverWakes(t) ==
    /\ state[t] = "BLOCKED"
    /\ pc[t] \in {"outside", "holding"}
    /\ Scheduler_AddReady(t)
    /\ UNCHANGED <<mutex, pc>>

-----------------------------------------------------------------------------
Mutex_Lock(t)   == LockFree(t) \/ LockBusy(t)
Mutex_Unlock(t) == HandOver(t) \/ Release(t)

Next == \/ Tick
        \/ \E t \in Task : \/ Mutex_Lock(t) \/ OS_Yield(t) \/ LockReturns(t)
                          \/ Mutex_Unlock(t)
                          \/ Block(t) \/ DriverWakes(t)

(* The timer ticks for ever; a task that gets the CPU again and again      *)
(* comes out of OS_Yield; and a task that holds the mutex unlocks it.      *)
Fairness ==
    /\ WF_vars(Tick)
    /\ \A t \in Task : SF_vars(OS_Yield(t) \/ LockReturns(t) \/ Mutex_Unlock(t))

Spec == Mutex_Init /\ [][Next]_vars /\ Fairness

-----------------------------------------------------------------------------
(* The wait list: what the pointers lead through from wait_head on. *)
Linked(w) ==
    /\ wait_head = IF w = << >> THEN NULL ELSE w[1]
    /\ \A i \in DOMAIN w : next[w[i]] = IF i = Len(w) THEN NULL ELSE w[i + 1]

Waiting      == CHOOSE w \in UNION {[1..n -> Task] : n \in 0..Cardinality(Task)} : Linked(w)
WaitingTasks == {Waiting[i] : i \in DOMAIN Waiting}

(* The variables have their types, the ready queue holds every task once   *)
(* at most, and wait_tail is the end of the list that wait_head begins.    *)
TypeOK ==
    /\ locked \in BOOLEAN
    /\ owner \in Task \cup {NULL}
    /\ next \in [Task -> Task \cup {NULL}]
    /\ state \in [Task -> {"READY", "RUNNING", "BLOCKED"}]
    /\ current_task \in Task
    /\ ready \in Seq(Task) /\ \A i, j \in DOMAIN ready : ready[i] = ready[j] => i = j
    /\ pc \in [Task -> Place]
    /\ wait_tail = IF Waiting = << >> THEN NULL ELSE Waiting[Len(Waiting)]

(* Whoever goes on as the holder of the mutex is its owner, and so there   *)
(* are never two: Mutex_Lock returns without looking whether it may.       *)
OwnerOnly ==
    \A t \in Task : pc[t] = "holding" => locked /\ owner = t

(* The wait list holds exactly the tasks that are in Mutex_Lock and have   *)
(* not been given the mutex, and no dispatch can reach one of them: a      *)
(* waiter runs again only after Mutex_Unlock has handed it the mutex.      *)
WaitersBlocked ==
    /\ WaitingTasks = {t \in Task : pc[t] \in {"yield", "yielded"} /\ owner # t}
    /\ \A t \in WaitingTasks : state[t] = "BLOCKED" /\ t \notin ReadyTasks

(* The mutex goes from one owner to the one that has waited longest, and   *)
(* nobody can take it in between.                                          *)
FL == INSTANCE FifoLock WITH holder <- owner, queue <- Waiting

ImplementsFifoLock == FL!Spec

(* Whoever has to wait for the mutex gets it: no hand-over is lost, also   *)
(* when the tick takes the CPU from a waiter before its OS_Yield.          *)
LockGranted == \A t \in Task : pc[t] = "yield" ~> pc[t] = "holding"
=============================================================================
