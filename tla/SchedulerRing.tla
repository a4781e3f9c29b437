--------------------------- MODULE SchedulerRing ----------------------------
(***************************************************************************)
(* Scheduler with two history variables, and what the kernel's scheduler   *)
(* gets right stated with them.  `ring` is the sequence of tasks that the  *)
(* linked list stands for, the next one to be dispatched first; `waited`   *)
(* counts the ticks since a task was last dispatched or joined the list,   *)
(* and stays at OS_MAX_TASKS + 1 once it is there.                         *)
(* They record and never constrain: each conjunct that sets them belongs   *)
(* to the step of Scheduler that takes effect on the list.                 *)
(***************************************************************************)
EXTENDS Scheduler, SequencesExt

VARIABLES ring, waited

hvars == <<vars, ring, waited>>

Position(t) == CHOOSE i \in DOMAIN ring : ring[i] = t
Linked == {ring[i] : i \in DOMAIN ring}

HInit == /\ OS_Init
         /\ ring = << >>
         /\ waited = [t \in Task |-> 0]

(* The write that makes a task part of the list, and the one that takes it out. *)
Linking   == InsertIntoEmpty \/ LinkTail
Unlinking == RemoveOnly \/ Unlink
Dispatching == OS_TickISR \/ OS_Start

HLink ==
    /\ Linking
    /\ ring' = Append(ring, frame[Cpu].t)
    /\ waited' = [waited EXCEPT ![frame[Cpu].t] = 0]

HUnlink ==
    /\ Unlinking
    /\ ring' = RemoveAt(ring, Position(frame[Cpu].t))
    /\ UNCHANGED waited

OneMore(n) == IF n > OS_MAX_TASKS THEN n ELSE n + 1

HDispatch ==
    /\ Dispatching
    /\ ring' = IF ring = << >> THEN ring ELSE Append(Tail(ring), Head(ring))
    /\ waited' = [t \in Task |-> CASE t = current_task' -> 0
                                   [] t # current_task' /\ t \in Linked -> OneMore(waited[t])
                                   [] OTHER -> waited[t]]

HOther ==
    /\ \/ OS_TaskCreate
       \/ OS_TaskExit
       \/ \E t \in Task : OS_TaskBlock(t)
       \/ \E t \in Task : OS_TaskWake(t)
       \/ \E t \in Task : DriverWakes(t)
       \/ DriverReturns
       \/ LinkSelf \/ StartTail \/ FindTail \/ LinkNew
       \/ RemoveFromEmpty \/ StartPrev \/ FindPrev \/ AdvanceHead \/ ClearNext
       \/ AfterRemove
       \/ Halt
    /\ UNCHANGED <<ring, waited>>

HNext == HLink \/ HUnlink \/ HDispatch \/ HOther

HFairness == /\ WF_hvars(OS_Start /\ HNext)
             /\ WF_hvars(CallStep /\ HNext)
             /\ SF_hvars(OS_TickISR /\ HNext)

HSpec == HInit /\ [][HNext]_hvars /\ HFairness

-----------------------------------------------------------------------------
(* The types of the kernel's variables and of the two history variables;   *)
(* task_count never leaves the task pool (scheduler.c:121).                *)
HTypeOK ==
    /\ TypeOK
    /\ ring \in Seq(Task)
    /\ waited \in [Task -> 0..OS_MAX_TASKS + 1]

Quiet == InCall = {}

(* Outside the calls the pointers are exactly the circle that `ring`       *)
(* describes, and the tasks that are not on it have a null next, as the    *)
(* comment on the next field says (scheduler.h:24).                        *)
ListIsRing ==
    Quiet => /\ ready_head = IF ring = << >> THEN NULL ELSE ring[1]
             /\ \A i \in DOMAIN ring :
                    next[ring[i]] = ring[IF i = Len(ring) THEN 1 ELSE i + 1]
             /\ \A t \in Task \ Linked : next[t] = NULL

(* No task stands on the list twice, and outside the calls the tasks on it *)
(* are those whose state says they are ready: none is lost by a block, a   *)
(* wake or an exit, in whatever order they come, and none that blocked or  *)
(* exited is left behind (scheduler.c:16-20).                              *)
ReadyIffLinked ==
    /\ \A i, j \in DOMAIN ring : ring[i] = ring[j] => i = j
    /\ Quiet => Linked = Ready

(* A single task is marked as running, and it is the one whose context the *)
(* next tick will save, even if it blocked and was woken in between.       *)
OneRunner == \A t \in Task : state[t] = "RUNNING" => t = current_task

(* Round robin: a task that is ready is dispatched before OS_MAX_TASKS     *)
(* ticks have gone by, whoever joins and leaves the list meanwhile.        *)
BoundedWait ==
    \A i \in DOMAIN ring : waited[ring[i]] + i <= OS_MAX_TASKS

(* A task that has exited is never given the CPU again: it can only go on  *)
(* burning the ticks it already had, with nothing else ready to run.       *)
ExitIsFinal ==
    [][\A t \in Task : frame[t].at = "spin" =>
            /\ frame'[t].at = "spin"
            /\ current_task' = t => current_task = t]_hvars

(* The abstract scheduler, seen in this one. *)
Exited == {t \in Task : frame[t].at = "spin"}

RR == INSTANCE RoundRobin WITH queue <- ring, running <- current_task, gone <- Exited

(* The linked list implements the round-robin queue, fairness included. *)
ImplementsRoundRobin == RR!Spec

(* Every task that stays ready runs again and again, whatever the others   *)
(* do with their calls.                                                    *)
NoStarvation ==
    \A t \in Task : []<>(current_task = t \/ t \notin Linked)
=============================================================================
