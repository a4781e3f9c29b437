----------------------------- MODULE RoundRobin -----------------------------
(***************************************************************************)
(* What the Orion68 kernel's scheduler promises, without its linked list:  *)
(* the ready tasks stand in one queue, a dispatch gives the CPU to the     *)
(* task at the front and sends it to the back, a task that becomes ready   *)
(* joins at the back, and a task that blocks or exits leaves from wherever *)
(* it stands.  Scheduler.tla is shown to implement this (SchedulerRing).   *)
(***************************************************************************)
EXTENDS Naturals, SequencesExt

CONSTANTS Task,   (* the task control blocks                      *)
          NULL    (* "no task": nothing has been dispatched yet   *)

VARIABLES queue,     (* the ready tasks, next to be dispatched first *)
          running,   (* the task that was dispatched last, or NULL   *)
          gone       (* the tasks that have exited                   *)

vars == <<queue, running, gone>>

Queued == {queue[i] : i \in DOMAIN queue}

Init == /\ queue = << >>
        /\ running = NULL
        /\ gone = {}

(* A new task, or a blocked one that is woken, joins at the back. *)
Join(t) == /\ t \notin Queued \cup gone
           /\ queue' = Append(queue, t)
           /\ UNCHANGED <<running, gone>>

(* A task stops being ready; a running task keeps the CPU until the next   *)
(* dispatch.                                                               *)
Leave(t) == /\ \E i \in DOMAIN queue : /\ queue[i] = t
                                       /\ queue' = RemoveAt(queue, i)
            /\ UNCHANGED <<running, gone>>

(* A task that is not ready exits: it never joins again. *)
Retire(t) == /\ t = running
             /\ t \notin Queued \cup gone
             /\ gone' = gone \cup {t}
             /\ UNCHANGED <<queue, running>>

Dispatch == /\ queue # << >>
            /\ running' = Head(queue)
            /\ queue' = Append(Tail(queue), Head(queue))
            /\ UNCHANGED gone

Next == \/ \E t \in Task : Join(t) \/ Leave(t) \/ Retire(t)
        \/ Dispatch

(* A ready task cannot be kept waiting for a dispatch for ever. *)
Spec == Init /\ [][Next]_vars /\ WF_vars(Dispatch)
=============================================================================
