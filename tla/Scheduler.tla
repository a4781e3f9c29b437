----------------------------- MODULE Scheduler ------------------------------
(***************************************************************************)
(* The Orion68 kernel scheduler: scheduler.c, the tick handler of          *)
(* ctx_switch_68000.S and the boot path of crt0.S and kernel.c.            *)
(*                                                                         *)
(* The ready tasks are the circular singly linked list that ready_head and *)
(* the tasks' next fields make.  Tasks run in supervisor mode with every   *)
(* interrupt enabled (the SR OS_TaskCreate pushes is 0x2000) and no        *)
(* function of scheduler.c masks interrupts, so a kernel call is several   *)
(* steps, one per write of shared state and one per turn of a loop, and    *)
(* the tick may be taken between any two of them.                          *)
(*                                                                         *)
(* InterruptInCall says which executions are looked at: FALSE, those in    *)
(* which no interrupt happens to land inside a call; TRUE, all of them.    *)
(***************************************************************************)
EXTENDS Naturals

CONSTANTS OS_MAX_TASKS,     (* size of task_pool                            *)
          NULL,             (* the null pointer                             *)
          Boot, Isr,        (* the contexts that are no task: kernel_main,  *)
                            (* and a driver's interrupt handler             *)
          InterruptInCall   (* may an interrupt land inside a task's call?  *)

Task == 1..OS_MAX_TASKS
Context == Task \cup {Boot, Isr}

ASSUME SchedulerAssumption ==
    /\ OS_MAX_TASKS \in Nat \ {0}
    /\ NULL \notin Context
    /\ Boot \notin Task
    /\ Isr \notin Task
    /\ Boot # Isr
    /\ InterruptInCall \in BOOLEAN

VARIABLES
    ready_head,     (* where the next dispatch looks, or NULL               *)
    next,           (* the next field of every task control block           *)
    state,          (* the state field of every task control block          *)
    task_count,     (* task control blocks handed out; it never goes down   *)
    current_task,   (* the task whose context the tick will save, or NULL   *)
    mode,           (* what the CPU runs: kernel_main, current_task, a      *)
                    (* driver's handler, or crt0's halt loop                *)
    frame           (* where each context is in a call of scheduler.c       *)

vars == <<ready_head, next, state, task_count, current_task, mode, frame>>
tcbs == <<next, state, task_count>>
cpu  == <<current_task, mode>>

State == {"UNUSED", "READY", "RUNNING", "BLOCKED"}
Ready == {t \in Task : state[t] \in {"READY", "RUNNING"}}

(***************************************************************************)
(* A frame: where the context stands (at "user" it is outside scheduler.c, *)
(* at "spin" in OS_TaskExit's endless loop), which function it called, the *)
(* argument t of ready_insert or ready_remove and their walking pointer.   *)
(***************************************************************************)
Inserting == {"insert", "link_self", "find_tail", "link_t"}
Removing  == {"remove", "find_prev", "advance_head", "clear_next"}
Place == {"user", "spin", "removed"} \cup Inserting \cup Removing
Call  == {"none", "create", "wake", "block", "exit"}

Frames == [at : Place, call : Call, t : Task \cup {NULL}, walk : Task \cup {NULL}]
Frame(at, call, t, walk) == [at |-> at, call |-> call, t |-> t, walk |-> walk]
UserFrame == Frame("user", "none", NULL, NULL)
SpinFrame == Frame("spin", "none", NULL, NULL)

Cpu == CASE mode = "boot" -> Boot
         [] mode = "isr"  -> Isr
         [] OTHER         -> current_task

At(place) == mode # "halt" /\ frame[Cpu].at = place

SetFrame(c, f)           == frame' = [frame EXCEPT ![c] = f]
Enter(c, place, call, t) == SetFrame(c, Frame(place, call, t, NULL))
Walk(place, where)       == SetFrame(Cpu, Frame(place, frame[Cpu].call, frame[Cpu].t, where))
GoTo(place)              == Walk(place, frame[Cpu].walk)
Return                   == SetFrame(Cpu, UserFrame)

InterruptsOpen ==
    /\ mode = "task"
    /\ InterruptInCall \/ frame[current_task].at \in {"user", "spin"}

-----------------------------------------------------------------------------
(* OS_Init; crt0.S has masked every interrupt and kernel_main is running. *)
OS_Init ==
    /\ ready_head = NULL
    /\ next = [t \in Task |-> NULL]
    /\ state = [t \in Task |-> "UNUSED"]
    /\ task_count = 0
    /\ current_task = NULL
    /\ mode = "boot"
    /\ frame = [c \in Context |-> UserFrame]

(***************************************************************************)
(* ready_insert(t): t goes behind the last task before ready_head.         *)
(***************************************************************************)
InsertIntoEmpty ==
    /\ At("insert")
    /\ ready_head = NULL
    /\ ready_head' = frame[Cpu].t
    /\ GoTo("link_self")
    /\ UNCHANGED <<tcbs, cpu>>

LinkSelf ==
    /\ At("link_self")
    /\ next' = [next EXCEPT ![frame[Cpu].t] = frame[Cpu].t]
    /\ Return
    /\ UNCHANGED <<ready_head, state, task_count, cpu>>

StartTail ==
    /\ At("insert")
    /\ ready_head # NULL
    /\ Walk("find_tail", ready_head)
    /\ UNCHANGED <<ready_head, tcbs, cpu>>

FindTail ==
    /\ At("find_tail")
    /\ frame[Cpu].walk \in Task
    /\ next[frame[Cpu].walk] # ready_head
    /\ Walk("find_tail", next[frame[Cpu].walk])
    /\ UNCHANGED <<ready_head, tcbs, cpu>>

LinkTail ==
    /\ At("find_tail")
    /\ frame[Cpu].walk \in Task
    /\ next[frame[Cpu].walk] = ready_head
    /\ next' = [next EXCEPT ![frame[Cpu].walk] = frame[Cpu].t]
    /\ GoTo("link_t")
    /\ UNCHANGED <<ready_head, state, task_count, cpu>>

LinkNew ==
    /\ At("link_t")
    /\ next' = [next EXCEPT ![frame[Cpu].t] = ready_head]
    /\ Return
    /\ UNCHANGED <<ready_head, state, task_count, cpu>>

ready_insert == \/ InsertIntoEmpty \/ LinkSelf \/ StartTail
                \/ FindTail \/ LinkTail \/ LinkNew

(***************************************************************************)
(* ready_remove(t): t leaves the list if it is there.  The walk gives up   *)
(* when it is back at ready_head.                                          *)
(***************************************************************************)
RemoveFromEmpty ==
    /\ At("remove")
    /\ ready_head = NULL
    /\ GoTo("removed")
    /\ UNCHANGED <<ready_head, tcbs, cpu>>

RemoveOnly ==
    /\ At("remove")
    /\ ready_head # NULL
    /\ next[frame[Cpu].t] = frame[Cpu].t
    /\ ready_head' = IF ready_head = frame[Cpu].t THEN NULL ELSE ready_head
    /\ GoTo("clear_next")
    /\ UNCHANGED <<tcbs, cpu>>

StartPrev ==
    /\ At("remove")
    /\ ready_head # NULL
    /\ next[frame[Cpu].t] # frame[Cpu].t
    /\ Walk("find_prev", ready_head)
    /\ UNCHANGED <<ready_head, tcbs, cpu>>

FindPrev ==
    /\ At("find_prev")
    /\ frame[Cpu].walk \in Task
    /\ next[frame[Cpu].walk] # frame[Cpu].t
    /\ LET prev == next[frame[Cpu].walk]
       IN  Walk(IF prev = ready_head THEN "removed" ELSE "find_prev", prev)
    /\ UNCHANGED <<ready_head, tcbs, cpu>>

Unlink ==
    /\ At("find_prev")
    /\ frame[Cpu].walk \in Task
    /\ next[frame[Cpu].walk] = frame[Cpu].t
    /\ next' = [next EXCEPT ![frame[Cpu].walk] = next[frame[Cpu].t]]
    /\ GoTo("advance_head")
    /\ UNCHANGED <<ready_head, state, task_count, cpu>>

(* Mutant: the head of the list is left pointing at the task taken out. *)
AdvanceHeadForgotten ==
    /\ At("advance_head")
    /\ GoTo("clear_next")
    /\ UNCHANGED <<ready_head, tcbs, cpu>>

AdvanceHead ==
    /\ At("advance_head")
    /\ ready_head' = IF ready_head = frame[Cpu].t THEN next[frame[Cpu].t] ELSE ready_head
    /\ GoTo("clear_next")
    /\ UNCHANGED <<tcbs, cpu>>

(* Mutant: the task taken out keeps its pointer into the list. *)
ClearNextForgotten ==
    /\ At("clear_next")
    /\ GoTo("removed")
    /\ UNCHANGED <<ready_head, tcbs, cpu>>

ClearNext ==
    /\ At("clear_next")
    /\ next' = [next EXCEPT ![frame[Cpu].t] = NULL]
    /\ GoTo("removed")
    /\ UNCHANGED <<ready_head, state, task_count, cpu>>

ready_remove == \/ RemoveFromEmpty \/ RemoveOnly \/ StartPrev \/ FindPrev
                \/ Unlink \/ AdvanceHead \/ ClearNext

-----------------------------------------------------------------------------
(* Mutant: the pool's limit is off by one. *)
OS_TaskCreateOneMore ==
    /\ mode \in {"boot", "task"}
    /\ At("user")
    /\ task_count <= OS_MAX_TASKS
    /\ LET t == task_count + 1
       IN  /\ task_count' = t
           /\ next'  = [next EXCEPT ![t] = NULL]
           /\ state' = [state EXCEPT ![t] = "READY"]
           /\ Enter(Cpu, "insert", "create", t)
    /\ UNCHANGED <<ready_head, cpu>>

(* OS_TaskCreate and OS_TaskCreatePIC, from kernel_main or from a task: a   *)
(* slot of task_pool never used before, or NULL and no change when there is *)
(* none.                                                                    *)
OS_TaskCreate ==
    /\ mode \in {"boot", "task"}
    /\ At("user")
    /\ task_count < OS_MAX_TASKS
    /\ LET t == task_count + 1
       IN  /\ task_count' = t
           /\ next'  = [next EXCEPT ![t] = NULL]
           /\ state' = [state EXCEPT ![t] = "READY"]
           /\ Enter(Cpu, "insert", "create", t)
    /\ UNCHANGED <<ready_head, cpu>>

(* OS_TaskExit: leave the list, mark the slot unused, loop for ever. *)
OS_TaskExit ==
    /\ mode = "task"
    /\ At("user")
    /\ Enter(Cpu, "remove", "exit", current_task)
    /\ UNCHANGED <<ready_head, tcbs, cpu>>

(* Mutant: any task is blocked, one that has exited included. *)
OS_TaskBlockUnchecked(t) ==
    /\ mode = "task"
    /\ At("user")
    /\ Enter(Cpu, "remove", "block", t)
    /\ UNCHANGED <<ready_head, tcbs, cpu>>

(* OS_TaskBlock(t) of any task, the caller included; only a ready or       *)
(* running task is blocked.                                                *)
OS_TaskBlock(t) ==
    /\ mode = "task"
    /\ At("user")
    /\ t \in Ready
    /\ Enter(Cpu, "remove", "block", t)
    /\ UNCHANGED <<ready_head, tcbs, cpu>>

(* What OS_TaskExit and OS_TaskBlock do once ready_remove has returned. *)
AfterRemove ==
    /\ At("removed")
    /\ IF frame[Cpu].call = "exit"
       THEN /\ state' = [state EXCEPT ![current_task] = "UNUSED"]
            /\ SetFrame(Cpu, SpinFrame)
       ELSE /\ state' = [state EXCEPT ![frame[Cpu].t] = "BLOCKED"]
            /\ Return
    /\ UNCHANGED <<ready_head, next, task_count, cpu>>

(* Mutant: a task that is ready already is woken and inserted again. *)
OS_TaskWakeUnchecked(t) ==
    /\ mode = "task"
    /\ At("user")
    /\ state[t] \in {"BLOCKED", "READY"}
    /\ state' = [state EXCEPT ![t] = "READY"]
    /\ Enter(Cpu, "insert", "wake", t)
    /\ UNCHANGED <<ready_head, next, task_count, cpu>>

(* OS_TaskWake(t) of a blocked task, called by a task. *)
OS_TaskWake(t) ==
    /\ mode = "task"
    /\ At("user")
    /\ state[t] = "BLOCKED"
    /\ state' = [state EXCEPT ![t] = "READY"]
    /\ Enter(Cpu, "insert", "wake", t)
    /\ UNCHANGED <<ready_head, next, task_count, cpu>>

(* OS_TaskWake(t) called by a driver's interrupt handler, which runs to its *)
(* end before the interrupted task goes on.                                 *)
DriverWakes(t) ==
    /\ InterruptsOpen
    /\ state[t] = "BLOCKED"
    /\ mode' = "isr"
    /\ state' = [state EXCEPT ![t] = "READY"]
    /\ Enter(Isr, "insert", "wake", t)
    /\ UNCHANGED <<ready_head, next, task_count, current_task>>

DriverReturns ==
    /\ mode = "isr"
    /\ At("user")
    /\ mode' = "task"
    /\ UNCHANGED <<ready_head, tcbs, current_task, frame>>

-----------------------------------------------------------------------------
(* Mutant: the task that loses the CPU stays marked as running. *)
TakeHeadNoDemotion ==
    /\ current_task' = ready_head
    /\ ready_head' = next[ready_head]
    /\ state' = [state EXCEPT ![ready_head] = "RUNNING"]

(* Mutant: the head of the list does not move on. *)
TakeHeadNoAdvance ==
    /\ current_task' = ready_head
    /\ ready_head' = ready_head
    /\ state' = [t \in Task |->
                    CASE t = ready_head -> "RUNNING"
                      [] t # ready_head /\ t = current_task /\ state[t] = "RUNNING" -> "READY"
                      [] OTHER -> state[t]]

(* The next task gets the CPU and ready_head moves past it. *)
TakeHead ==
    /\ current_task' = ready_head
    /\ ready_head' = next[ready_head]
    /\ state' = [t \in Task |->
                    CASE t = ready_head -> "RUNNING"
                      [] t # ready_head /\ t = current_task /\ state[t] = "RUNNING" -> "READY"
                      [] OTHER -> state[t]]

(* Mutant: a task that is still running is not preempted. *)
OS_ScheduleCooperative ==
    IF ready_head = NULL \/ state[current_task] = "RUNNING"
    THEN UNCHANGED <<ready_head, state, current_task>>
    ELSE TakeHead

(* OS_Schedule changes nothing when there is no ready task. *)
OS_Schedule ==
    IF ready_head = NULL THEN UNCHANGED <<ready_head, state, current_task>> ELSE TakeHead

(* The tick saves current_task's context, runs OS_Schedule and resumes      *)
(* whatever current_task is then, where its frame says.                     *)
OS_TickISR ==
    /\ InterruptsOpen
    /\ OS_Schedule
    /\ UNCHANGED <<next, task_count, mode, frame>>

(* The first dispatch; its rte is what enables interrupts.  With no task to *)
(* run it returns, kernel_main returns, and crt0 halts.                     *)
OS_Start ==
    /\ mode = "boot"
    /\ At("user")
    /\ IF ready_head = NULL
       THEN mode' = "halt" /\ UNCHANGED <<ready_head, state, current_task>>
       ELSE mode' = "task" /\ TakeHead
    /\ UNCHANGED <<next, task_count, frame>>

Halt == mode = "halt" /\ UNCHANGED vars

Next ==
    \/ OS_TaskCreate
    \/ OS_Start
    \/ OS_TaskExit
    \/ \E t \in Task : OS_TaskBlock(t)
    \/ \E t \in Task : OS_TaskWake(t)
    \/ \E t \in Task : DriverWakes(t)
    \/ DriverReturns
    \/ ready_insert
    \/ ready_remove
    \/ AfterRemove
    \/ OS_TickISR
    \/ Halt

(***************************************************************************)
(* kernel_main gets to OS_Start, a call or a handler that has been entered *)
(* runs on, and the timer keeps ticking: however busy the tasks are with   *)
(* calls, ticks get through.                                               *)
(***************************************************************************)
CallStep == ready_insert \/ ready_remove \/ AfterRemove \/ DriverReturns
Fairness == WF_vars(OS_Start) /\ WF_vars(CallStep) /\ SF_vars(OS_TickISR)

Spec == OS_Init /\ [][Next]_vars /\ Fairness

-----------------------------------------------------------------------------
TypeOK ==
    /\ ready_head \in Task \cup {NULL}
    /\ next \in [Task -> Task \cup {NULL}]
    /\ state \in [Task -> State]
    /\ task_count \in 0..OS_MAX_TASKS
    /\ current_task \in Task \cup {NULL}
    /\ mode \in {"boot", "task", "isr", "halt"}
    /\ mode \in {"task", "isr"} <=> current_task # NULL
    /\ frame \in [Context -> Frames]

(* The calls under way. *)
InCall == {c \in Context : frame[c].at \notin {"user", "spin"}}

(* Reach[n]: the tasks that n or fewer next pointers lead to from the head. *)
Reach[n \in Nat] ==
    IF n = 0 THEN {ready_head} \cap Task
    ELSE Reach[n - 1] \cup ({next[t] : t \in Reach[n - 1]} \cap Task)

(* No ready task is lost: when no call is under way, every READY or RUNNING *)
(* task can be reached from ready_head, the head of the circle of ready     *)
(* tasks (scheduler.c:15-20) and the only place a dispatch looks.           *)
NoReadyTaskLost == InCall = {} => Ready \subseteq Reach[OS_MAX_TASKS]
=============================================================================
