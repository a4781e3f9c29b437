------------------------------ MODULE FifoLock ------------------------------
(***************************************************************************)
(* What mutex.c promises, without its linked list: a lock that is handed   *)
(* from its holder to the task that has waited for it longest, and that is *)
(* free only while nobody waits.                                           *)
(***************************************************************************)
EXTENDS Sequences

CONSTANTS Task, NULL

VARIABLES holder,   (* the task that holds the lock, or NULL    *)
          queue     (* the tasks that wait, longest wait first  *)

vars == <<holder, queue>>

Init == holder = NULL /\ queue = << >>

Acquire(t) == /\ holder = NULL
              /\ holder' = t
              /\ UNCHANGED queue

Wait(t) == /\ holder # NULL
           /\ t \notin {queue[i] : i \in DOMAIN queue}
           /\ queue' = Append(queue, t)
           /\ UNCHANGED holder

Release == /\ holder # NULL
           /\ IF queue = << >>
              THEN holder' = NULL /\ UNCHANGED queue
              ELSE holder' = Head(queue) /\ queue' = Tail(queue)

Next == (\E t \in Task : Acquire(t) \/ Wait(t)) \/ Release

Spec == Init /\ [][Next]_vars
=============================================================================
