# Orion68 in TLA+

Orion68 is a home-built MC68000 computer: a preemptive kernel, a BIOS with a
shell, peripherals run by microcontrollers (a Pico 2 W for keyboard, SD card
and bus glue, a Pico 2 for VGA, an ATmega interrupt controller, an Arduino power
supply) and PC tools that send it files. This directory holds TLA+ models of
the parts whose correctness depends on the order of steps, the TLC
configurations that check them, and TLAPS proofs of their safety properties
for every value of the constants.

Paths below are relative to the repository; `K/` is `software/dev/kernel/`,
`B/` is `software/dev/orioncore/`.

To check a model: `tlc -config Mutex.cfg Mutex.tla`, and so on by the table of
runs (`Dhcp.cfg`, `KHeap.cfg`, `Loader*.cfg` and `Scheduler*.cfg` go with the
modules `MCDhcp`, `MCKHeap`, `MCLoader` and `Scheduler`/`SchedulerRing`). To
check the proofs: `tlapm MutexProofs.tla` and likewise for each `*Proofs`
module; two to three minutes for the scheduler's, the power supply's and the
VFS's, about one or less for each of the others. `Dhcp` has names of its own
(`DhcpSpec`, `DhcpTypeOK`) where `FileTransfer` has the usual ones, because
`NetworkProofs` extends both.

## The system

| Part | State | Operations | Correct when |
|---|---|---|---|
| Scheduler (`K/scheduler.c`, `K/ctx_switch_68000.S`) | circular ready list (`ready_head`, `next`), task states, `task_count`, `current_task` | create, block, wake, exit, tick, start | the list is one circle of exactly the ready tasks; each gets its turn |
| Kernel heap (`K/kmalloc.c`) | headers inside the heap | `kmalloc`, `kcalloc`, `krealloc`, `kfree` | blocks tile the heap, no byte has two owners |
| Mutex (`K/mutex.c`, `K/os_yield.s`) | owner, FIFO wait list through `next` | lock, unlock, yield | one holder, first come first served, nobody forgotten |
| File receiver (`B/recv/recv.c`) and `tools/sender2` | socket, static state machine, RAM buffer | poll, receive, acknowledge, save | what is acknowledged and saved is what was sent |
| Loader and slots (`K/spawn`, `K/mm`) | slot table, memory of the slots | load, free | a slot belongs to one task, failures give it back, the program is moved once and stays intact |
| VFS (`K/vfs`, `K/trap0.c`) | `fd_table`, `fd_count`, `File` and driver blocks | open, close, read, write, seek | what the heap holds is what hangs on a descriptor; the end of a file is known |
| DHCP client (`B/drivers_raw/ethernet`) | the two replies read, socket | discover, request, time-out | the address taken is one leased to this machine; the request ends |
| Keyboard path (`peripheral/pico2W`, `peripheral/atmega8`, `B/bootstrap`, `B/drivers_raw/kbd`) | UART, PIO FIFOs, interrupt line, ring buffer | poll, PS/2 interrupt, put, bus cycle, pulse, handler, boot marks, get | bytes come once and in order, a bus cycle is answered, a byte left over is no more than a key lost |
| Power supply (`peripheral/psu317`) | rails, relays, hold-off timers, button | measure, button, CPU requests | power-good only after continuous stability, no rail without the mains |
| Others: shell, BIOS heap, IDE driver, VGA, DUART, user library | registers, text, lists | | not modelled, see below |

How they interact. Tasks call the kernel directly (there is one address space
and everything runs in supervisor mode) or by `trap #0`, which leads to the
VFS. The tick interrupt calls `OS_Schedule` between any two instructions of a
task. The scheduler, the heap and the VFS share nothing but the CPU: the VFS
and the loader allocate `File` objects and names from the heap and create tasks
with `OS_TaskCreatePIC`. The mutex shares the task control block's `next` and
`state` with the scheduler. The BIOS runs before the kernel and alone, polling
the W5100 network chip; the Pico raises the keyboard interrupt and answers bus
cycles, those in which the BIOS's handler reads a key (register 9) and those in
which its start-up code writes progress marks (register 0x15).

What is hard. `LOCK()` in `critical.h` was meant to mask interrupts, but the
`m68k_disable_all_interrupts()` it calls is an empty inline
(`software/include/interrupt.h:5-7`), `scheduler.c` masks nothing, and tasks
start with SR `0x2000`. Kernel calls are therefore preemptible everywhere.
`crt0.S:26` masks all interrupts until the first `rte`, so the boot path is
safe. Only `mutex.c` really masks (`Lock_CriticalEnter`). In the BIOS the
difficulty is the other party: a chip whose registers change while they are
read, a PC that may die, a network that delays.

## Modules

| Module | Models | Composes |
|---|---|---|
| `RoundRobin` | the abstract scheduler: one queue | |
| `Scheduler` | `scheduler.c`, the tick, the boot path | |
| `SchedulerRing` | `Scheduler` with history variables, its properties, the refinement | `Scheduler`, `RoundRobin` |
| `SchedulerProofs` | theorems and proofs | `SchedulerRing` |
| `KHeap`, `MCKHeap` | `kmalloc.c` and its clients | |
| `KHeapProofs` | theorems and proofs | `KHeap` |
| `FifoLock` | the abstract mutex: a holder and a queue | |
| `Mutex` | `mutex.c`, `os_yield.s`, over an abstract ready queue | `FifoLock` |
| `MutexProofs` | theorems and proofs | `Mutex` |
| `FileTransfer` | `recv.c`, `sender2`, TCP and the chip's socket | |
| `Loader`, `MCLoader` | `loader_pic_final.c`, `slots.c`, the memory map | |
| `LoaderProofs` | theorems and proofs | `Loader` |
| `PowerSupply` | `psu317.ino` | |
| `PowerSupplyProofs` | theorems and proofs | `PowerSupply` |
| `LossyFifo` | the abstract path: a queue that may lose and that keeps the order | |
| `KeyPath` | the Pico's loop and PS/2 interrupt, the PIO program, the interrupt pulse, `Int3Handler`, the start-up's writes, `ringbuffer.c` | `LossyFifo` |
| `KeyPathProofs` | theorems and proofs | `KeyPath` |
| `Dhcp`, `MCDhcp` | `dhcp_client.c`, servers, other machines, the network | |
| `NetworkProofs` | theorems and proofs about the two users of the network chip | `FileTransfer`, `Dhcp` |
| `Vfs` | `vfs.c`, `vfs_fat.c`, `vfs_proc.c`, `trap0.c` | |
| `VfsProofs` | theorems and proofs | `Vfs` |

**Scheduler.** `ready_head`, `next`, `state`, `task_count`, `current_task` are
the C variables; tasks are numbers, the slots of `task_pool`. `mode` says what
the CPU executes (boot, the current task, a driver's interrupt handler, the
halt loop of `crt0.S`); `frame` says where each context stands inside a call.
A call is one step per write of shared state and one per turn of a search loop:
`ready_insert` is `InsertIntoEmpty`, or `LinkSelf`, `StartTail`, `FindTail`,
`LinkTail`, `LinkNew`; `ready_remove` likewise. The tick (`OS_TickISR`) calls
`OS_Schedule` in one step, for nothing interrupts it. `OS_TaskExit` ends in the
place `"spin"`, its endless loop. Simplifications: `task_count++` with the slot
it hands out is one step; a walk that meets a null pointer has no step (the
real program would read address 0); what a context switch stores is
represented by which context resumes. `InterruptInCall` chooses between the
executions in which no interrupt lands inside a call and all executions.

`SchedulerRing` adds `ring`, the sequence the pointers stand for, and `waited`,
ticks since the last dispatch. They only record.

**KHeap.** Memory is a function from word addresses to headers, client data or
junk; headers lie in the same memory, so a wrong size really overwrites data.
The clients are tasks that hold at most one block and fill all they asked for.
Kernel calls are again one step per header write and per turn of the search.

**Mutex.** `mutex.c` states premises about a scheduler it does not have: the
running task is not on the ready queue, and a `Scheduler_AddReady` that no file
defines puts a task there. Composed with `scheduler.c` as it stands it would
corrupt the ready list, for there the running task stays linked through the
same `next` field that `Mutex_Lock` overwrites; the Makefile links neither
`mutex.c` nor `os_yield.s`. The module therefore models `mutex.c` over the
queue its comments ask for, with `OS_Schedule` as `scheduler.c` has it where
the two can agree (no change if nobody is ready). Since the critical regions
really mask, each half of a call is one step, and the place between the end of
the region and `OS_Yield` is a place of its own, where a tick can strike.
`next` of a task that becomes ready is whatever a linked ready queue may leave.

**FileTransfer.** Bytes are pairs of transfer and position, so a wrong byte is
seen wherever it lands. The chip delivers any number of bytes between any two
steps of the receiver; the received-size register is read in two halves, in an
order that C leaves to the compiler. The sender may die, and its connection end
in a FIN (after all its bytes) or a reset. The header is as long as `HEADER`
says; the ring addressing in the chip's memory and `f_write` are abstracted (the
disk may fail).

**Loader.** Memory is counted in units of 8 KB, which divide every address of
the map. A unit of a program is its file, its offset and the sum of the bases
added to the pointers in it, so a pointer moved twice or not at all is seen. One
step is one read of the file, which may fail or come short after writing a part.
`find_got_section` and `apply_data_relocations` pass over what they cannot read;
`whole` records that this happened, and `ImageIntact` claims nothing of such a
program's image. `LoaderAssumption` says what kinds of number and file the constants are;
`LinkerAssumption` what `linker_pic.ld` makes of a program: its segments lie
apart, its `.got` sections together, no relocation of `.data` names a word of
the `.got`, and all of that is in the file. It also has the files leave the last
unit of a slot to the stack, which neither the loader nor `linker_pic.ld`
checks. `Slots_Free` is not
called for a task that exits, so it has no action of its own. `KHeap` assumes
that nobody else writes the heap, which on the memory map of the code is not so
(see `loader_map`).

**PowerSupply.** One step is one handler of `loop()`, in the order `loop()` calls them;
`updateRail` is composed of one operator per block of the function. A reading is one
of the four ranges that the comparisons tell apart (below 1 V, below 90 %, below 95 %,
above). A time stamp is kept as the time since then, capped at the longest hold-off
and reset to 0 when its flag is down, which keeps the state finite. `seen`, a history,
says how long each rail's readings have been good or low.

**KeyPath.** A byte that the Pico puts is a number, in the order put; it is a key or
the 0 with which a write is answered (`answers`). A byte goes through three
queues: the TX FIFO of the PIO, register D0 of `Int3Handler` and the ring buffer.
Keys come from two sides: reports of the keyboard at the UART, which the Pico's
loop polls, and the PS/2 keyboard, whose interrupt puts and announces a key
between any two steps of that loop (`ps2_ihandler`; the loop stands still
between its two steps, the PIO and the 68000 do not). The BIOS has two kinds of
bus cycle: the handler's read of register 9, and the write of a progress mark to
register 0x15 (`WR_CHAR`), which `orion68_startup.S` makes `BootWrites` times with
interrupts masked and once after they are enabled. Every access to something
shared is a step of its own, so the clearing of both FIFOs can fall anywhere.
`espera_cs` pushes the packet of either kind, `m68k_escrita` and `m68k_leitura`
wait for a byte in the TX FIFO and take whatever lies there: a read takes it for
its key, a write for its dummy. The Pico serves both alike: interrupt withdrawn,
packet taken, FIFOs cleared; then it returns for register 9 and puts a 0 for
0x15 (`Register`, `PutAnswer`). `ring_buf_init` runs while keys may already come,
as it does in the BIOS: `orion68_startup.S:188` opens the interrupts before
`orioncore.c:120` initialises the ring.

`LossyFifo`, which it implements, may lose a run of bytes that lie one behind the
other (one byte refused by a full queue or taken as a dummy, all those of a FIFO
that is cleared) and may do nothing else to what is on its way. It is a
statement about bytes, the answers among them; how many of those can come out is
what `StrayCostsKey` says. `eaten`, `stray`, `race`, `calm` and `refused` are
histories: keys taken as dummies, answers read as keys, whether a cycle or a
PS/2 key ever hit the Pico while it served another cycle, keys offered while the
path was free, bytes the full ring refused.

**Dhcp.** The client is `w5100_dhcp_request`, one step per datagram it waits for. The
code looks at neither the transaction number nor the hardware address of a reply, so
neither is in the model; each reply carries the machine it was meant for, which only
the properties read. Reopening the socket without a `CLOSE` keeps or drops what is
queued, for the code cannot rely on either. Servers lease an address to the first
machine that requests it.

**Vfs.** A descriptor points to a `File` block on which its driver hangs blocks
of its own; the heap is a row of blocks, each with what was put there, so one
that is freed twice, or never, is seen. An open takes its blocks one by one, and
each of its failures frees what the code frees there: `kmalloc` fails when the
row is full and FatFs when a file does not exist. A file is its length, and a
write to a full disk is short; `Seek` is FatFs's `f_lseek`. Reads and seeks of
`/proc` move the position that `ProcData` keeps; a device keeps nothing. A
negative offset is a `size_t` that wraps round: `fat_lseek` comes out where it
was meant to go, `proc_lseek` takes the place before the beginning for one past
the end. `behind` collects the blocks that a driver's successful open has taken
when no descriptor is free (`vfs.c:102-103` and `vfs.c:123-124` free the `File`
and its name without the driver's close); what a failing open leaves is not
among them. Each call is one step: what two tasks inside the VFS at once do to
it (`vfs_close` frees the `File` before it clears the table) is not in this
model. Nor are errors of the disk: FatFs answers each read, write and seek, so
the returns on another result than `FR_OK` (`vfs_fat.c:27`, `50`, `93`) are left
out. `vfs_init` clears the table and opens `/dev/tty` three times, which the
calls include.

## Runs

| Run | Bounds | Shows |
|---|---|---|
| `scheduler` | 4 slots, no tick inside calls | all properties of `SchedulerRing`, refinement and liveness |
| `scheduler_preempt` | 4 slots, ticks anywhere | expected violation of `NoReadyTaskLost` |
| `kheap` | 14 words, requests of 1, 3 and 6 words, 3 clients, symmetric | tiling, data kept, first fit never refuses wrongly |
| `mutex` | 3 tasks, the holder never sleeps | ownership, FIFO refinement, everybody is served |
| `transfer` | 2 transfers, files of 1, 2, 3, 5 bytes, header 2, chip memory 3, digits base 2 | what is received, acknowledged and confirmed |
| `transfer_saved` | the same | expected violation of `ConfirmedIsSaved` |
| `loader` | 6 kinds of file, 2 slots of 6 units, 2 tasks, slots behind the kernel as in `kernel.ld` | slots accounted for, programs intact |
| `loader_map` | the addresses of the code | expected violation of `KernelIntact` |
| `power` | 2 rails, 4 ranges of readings, qualifying time 2, hold-off 3, 1 per turn | mains before rails, failures reported, hold-off, power comes good |
| `keys` | 3 keys, 2 boot marks, UART of 1 report, FIFOs of 2, ring of 3 cells | no key unannounced, a stray answer costs a key, order kept (refinement), calm keys arrive and no bus cycle hangs while Pico and 68000 keep in step |
| `dhcp` | 2 servers of which any may run, 1 other machine, 2 addresses, socket of 2 datagrams, at most one loss or duplicate (`OneTrouble`) | the address is one's own, the request ends, and ends well on a quiet network |
| `vfs` | 2 descriptors, 9 heap blocks, a file, a `/proc` file of 1 and a device, disk of 2, seeks up to 2 | no block lost or shared, the end of a file known |

Why the bounds are enough. Four slots give a list with a head, a tail and two
between, so a removal can hit each kind of place, and one slot can exit while
three go on. Fourteen words hold three split blocks with a remainder below
`MIN_SPLIT` and a request (6) that only fits after merging; the heap's
arithmetic is linear in the sizes. Three tasks make a wait list with a distinct
head and tail while one holds the mutex; with four the safety part was explored
without error as far as half a million states but the liveness graph is too
large. Files of 1 (below the header), 2 (equal), 3 and 5 (more than the chip
holds at once) cover the boundaries of the receive loop, two transfers are what
stale state needs, and base 2 digits let the size register be torn. The six
files take every branch of the loader (a good one, no `.got`, one segment,
three, dynamic, not an ELF); with two slots and two tasks, of which the kernel
may create some, either table can be the one that is full. Two rails let one
fail while the other stays, which is where the toggled `outputState` and the
button's look at only the 5 V rail matter; the hold-off is longer than the
qualifying time, as in the code. Three keys and the answers to two
marks, one written with interrupts masked and one after, go round a ring of
three cells, fill every queue and overrun it; a key can be on its way while
another is eaten and a third is answered by the 0 left over. Two servers with one other machine put every
kind of wrong reply (second offer, foreign offer, foreign acknowledgement,
duplicate) in front of the right one. Nine blocks are two open files with their
four blocks and one over, so `kmalloc` fails at each of its calls in some state,
and one more open than descriptors happens. A disk of two with writes of up to
two gives full, short and refused writes; offsets from -1 to 1 reach every place
up to `SEEK_MAX`. No seek of the run goes past a full disk; the proofs, which
have no bound on the seeks, cover it.

### What the violations say

* `scheduler_preempt`: a tick between the two writes that end `ready_insert`
  loses every other ready task. Today no task creates or wakes another after
  `OS_Start`; `scheduler.h` offers these calls to tasks and drivers.
* `transfer_saved`: the sender writes `tam` bytes of a buffer of `tam + 21`; the
  last 21 bytes of the saved file are stale RAM. With a file of 21 bytes or
  less the receiver waits for another byte for ever.
* `loader_map`: `slots.h:16` puts the first slot at `0x92000`, where `kernel.c:159`
  has put the heap and below the end of the kernel's stack, although
  `slots.h:10-13` forbids overlaps and `kernel.ld:16-17` begins the slots at `0xA2000`.

### What the models show besides

Facts that the modelling brought out and that no run of the table is about:

* `KHeap` with `InterruptInCall = TRUE`: a tick between the search and the
  header write gives one block to two tasks (`DataKept` fails);
  `kmalloc.c:27-31` takes `LOCK()` for a critical section.
* `Mutex` with `HolderMayBlock = TRUE`: if nobody is ready when a waiter yields,
  `OS_Yield` comes straight back and `Mutex_Lock` returns without the mutex
  (`OwnerOnly` fails).
* Power supply: after a cut that the CPU asks for, `outputState` is toggled and
  the other rails stay connected and are no longer watched: their power-good
  lines stay up when they fall, although `spec.txt:20-22` of the controller
  takes the line down whenever a voltage falls by 10 %. `FailureReported` is
  about the system while it is on.
* Keyboard: before `ring_buf_init` the pointer `rb->buffer` is null, so a key
  that comes then is written to address 0, which is ROM, although the comment at
  `ringbuffer.c:6` says that no ordering bug is possible; and the initialisation
  resets the indices over whatever has come. `ImplementsLossyFifo` holds: such a
  key is lost, never repeated.
* Keyboard: a pulse that comes when the key has been read already starts a bus
  cycle that no key answers, and the 68000 stays in it until the next key. A PS/2
  key that comes between `kbd_int_off` and the clearing of the FIFOs does the
  same: the key is cleared and its interrupt stays. A cycle that begins before
  the Pico has served the one before can lose its packet in the clearing, and a
  write then waits likewise. `race` records all three, and `CalmKeyArrives`, which
  also says that no bus cycle hangs, is about executions without them.
  `NoSilentKey`, `StrayCostsKey` and the refinement hold with them too.
* Keyboard: the pull of a write and the pull of a read take whatever is in the TX
  FIFO (`orion_bus.pio:17` and `28`). A key typed while the boot writes its marks
  is taken as a mark's dummy (`eaten`), the 0 with which `orion_bus.c:132` answers
  the mark stays, and the read for the next key gets it (`stray`), although
  `orion_bus.pio:28` says that it waits for its own reply; that key is then
  cleared. No cycle need come too early for it. `StrayCostsKey` says that there are
  never more such 0s than keys eaten: without a key typed during the boot the
  shell gets keys only.
* DHCP: a reply meant for another machine is accepted (`ReadForeign`), and with
  it another machine's address.
* VFS: `O_CREAT` is given to FatFs as `FA_CREATE_ALWAYS`, so opening an existing
  file with it cuts the file, although the comment at `vfs_fat.c:116` says that
  it is created if it does not exist. With `O_APPEND`, the size kept for
  `SEEK_END` and the position are stale after the first write; a seek past the
  end does not update that size either.

### Fairness

* Scheduler: `OS_Start` and the steps inside calls are weakly fair (the CPU goes
  on executing), the tick strongly fair: it may be disabled during a call in the
  executions where no tick lands there, and the timer ticks for ever.
  `NoStarvation` and the fairness of `RoundRobin` need nothing of the tasks:
  they may block, wake and exit as they like, or do nothing.
* Mutex: the tick is weakly fair; a task is strongly fair in leaving `OS_Yield`
  and in unlocking, since it has the CPU only now and then but makes progress
  when it does. That a holder unlocks is an assumption about the callers,
  without which no mutex serves anybody. Waking by devices is not assumed fair.
* File transfer: delivery, the polling receiver and the sender's read of the
  answer are weakly fair. Starting a transfer, killing the sender and calling
  `recvmain` are not.
* Power supply: `loop()` goes on turning (weak fairness of `Next`), and each
  turn takes time. `PowerComesGood` supposes steady rails and a system that
  stays on in the end.
* Keyboard: the Pico's loop, the second half of its PS/2 handler, the three places
  of the PIO program, the controller (which pulses again while the line is low)
  and the handler are weakly fair; the main program of the 68000, which boots and
  then reads the ring, is strongly fair, for interrupts take the CPU from it
  again and again. Nobody need type. `CalmKeyArrives` is stated for executions
  without a `race`: against a cycle that comes too early the code has only the
  500 us pause of `set_ipl`, against a PS/2 key at the wrong place nothing.
* DHCP: the client, each running server and the network's delivery are weakly
  fair; loss and duplication are not. A time-out may expire whenever the socket
  is empty, and in the end does: the code reads its tick from the word at 0x80064,
  and the model supposes that this word goes on counting. Success is claimed only
  where none expires too early (`Quiet`).
* Heap, loader, VFS: safety only, no fairness.

## Proofs

Every theorem is proved from the named assumptions on the constants of its
module and from `Spec` (or `HSpec`) alone, unless it says more below. The
argument is the same everywhere: an inductive invariant `IInv`, checked by TLC
as an invariant of the runs before it was proved; one lemma per action or group
of actions; the properties follow from `IInv`.

### Scheduler

`SchedulerProofs` proves, for every number of slots `OS_MAX_TASKS` and under
`InterruptInCall = FALSE` (each theorem says so), that `HSpec` implies:
`TypeCorrect`, `ListCorrect` (the pointers are the circle `ring`), `NoTaskLost`
(no task twice, and the list holds exactly the ready tasks), `RunnerIsCurrent`,
`WaitIsBounded`, the action property `ExitedStaysOut`, and `RefinesRoundRobin`:
every step of the linked list is a step of the queue or a stutter, i.e.
`ImplementsRoundRobin` without the fairness conjunct. With ticks inside calls
the list is not a circle, as `scheduler_preempt` shows, so the assumption cannot be
dropped; it is exactly what interrupt masking in `scheduler.c` would establish.

The argument. The properties speak of quiet states only, and are not inductive:
in the middle of `ready_remove` the circle is open. The invariant `IInv`
therefore describes every place of a call:

* `OneCall`: at most one context is inside a call (from `InterruptInCall = FALSE`);
* `Arguments`: what the call in progress was given - a fresh task, or one on the list;
* `Injective`, `HeadInv`, `LinkInv`, `NullInv`: the pointers are `ring`, except for
  the one or two links that the place says are still to be written;
* `WalkInv`: the walking pointer of a search is on the list, and with `prev` it
  marks neighbours, so the unlink removes the right task;
* `StateInv`: listed tasks are the ready ones, up to the call's own argument;
* `FreshUnused`, `SpinUnused`, `CurrentCreated`, `OneRunner`: states of slots not handed
  out, of ended tasks, and of the running one;
* `BoundedWait`: `waited` plus the place on the list is at most the slots, which
  holds because a task joins at the back and a removal only moves others forward.

There is one lemma per action, each with one step per conjunct the action
disturbs; lemmas on `Append`, `RemoveAt` and rotation of a sequence carry the
list reasoning.

### Kernel heap

`KHeapProofs` proves the four properties of the run `kheap` for a heap of any
length, any clients and any sizes of request: `TypeCorrect`, `HeapIsTiled`
(`HeapTiled`), `DataIsKept` (`DataKept`) and the action property
`RefusalIsRight` (`RefusedOnlyIfNoneFits`). Each supposes `InterruptInCall =
FALSE`: with a tick between the search and the header write `DataKept` fails.

The blocks are not a variable of the program: they are what a walk from the
heap's base finds, and a merge leaves stale headers inside a free block. The
invariant therefore says that there is a set `B` of addresses that tiles the
heap (`Blocks`), whose used members are the clients' (`Owners`), and that fits
the place of the call under way (`Call`), and each action shows the new set: the
same, one more behind a split, one less after a merge. `Searching` says that no
block before the pointer will do, which makes a refusal right; `Taking` that the
header of the remainder is written before the block is; `Claiming` that a block
which `krealloc` has found and not copied to, or left and not freed yet, is
nobody's; `Merging` that the block absorbed is free and follows. No word is in
two blocks (`OneBlockPerWord`): that two blocks do not overlap is part of
`Tiling`, so nothing has to be shown by induction along the walk.

### Mutex

`TypeCorrect`, `OwnerHolds` (`OwnerOnly`), `WaitersAreBlocked`
(`WaitersBlocked`) and `RefinesFifoLock` (`ImplementsFifoLock`), for any number
of tasks and under `HolderMayBlock = FALSE`, without which the code does not keep
them. `OwnerOnly` is not inductive: that a waiter comes back from `OS_Yield` only
as the owner needs that every waiter sleeps and is on the list from `wait_head`
to `wait_tail` once (`IsWaitList`), that nobody is on the ready queue twice, and
that the owner is awake, so that `OS_Yield` always finds somebody else.

The wait list exists as a sequence in the invariant (`\E w : IsWaitList(w)`);
each action shows the new one (`Append`, `Tail`, the same). The properties and
the refinement speak of `Waiting`, the sequence that the pointers stand for. That
there is only one (`OneList`) takes the least place at which two of them differ:
it is not the first, which is `wait_head`, and at any later one `next` of the
task before decides. So `Waiting` is the list of the invariant, and each step of
`mutex.c` does to it what the queue of `FifoLock` does.

### Loader

`TypeCorrect` and `SlotsAreAccounted` (`SlotsAccounted`) hold for any memory map
and any programs. `ImageIsIntact` (`ImageIntact`) supposes that the slots lie
apart from the heap, which the kernel goes on writing; `KernelIsIntact`
(`KernelIntact`) that they lie apart from kernel and heap. `slots.h` and
`kernel.ld` ask for both; the addresses of the code give neither, as `loader_map`
shows, and the theorem says that nothing else is wrong: with slots that lie
apart, no failure at any read lets the load of a program that fits its slot
write outside it.

The invariant follows one load. `Counted` says that the segments counted are
behind the loop's index, so that the two patches, which come after the second,
find all they patch in memory (`Patchable`; `LinkerAssumption` says that
patched words lie in the first two segments). `PartLoaded` describes the slot
half way: the segments read are there, and exactly the pointers of `Moved` have
been moved, once: none before the patch of the `.got`, those of the `.got` before
the relocations of `.data`, all after. A third segment may come after the
patches and then the load fails, as `pt_load_seen` is no longer 2. `Intact` says
that the programs already created are not touched, for slots lie apart
(`SlotsLieApart`) and every write is inside the slot of the load
(`WritesOwnSlot`). `whole` stands in all of them, as in `ImageIntact`.

### File transfer

In `NetworkProofs`: `TypeCorrect`, `BytesInOrder` (`ReceivedIsSent`) and `AckIsTrue`
(`AckMeansReceived`), for files of any length, any chip memory, registers of any
width, read in either order. The heart is `Reading`: what `w5100_get_rx_size`
accepts has really arrived. If the high digit is read first, each reading is a
lower bound already (`TornHighFirst`). If the low digit is read first, a torn
reading can be too large, and only the comparison with the reading before saves
it: two equal readings have the same high digit, so no carry came between the
halves of the second (`SameHigh`, `TornLowFirst`). `Reading` therefore remembers
in which state each half was taken (`early`, `late`). `Phases` ties the
receiver's static variables to the connection, so nothing of a broken transfer
is left when the next begins, and with `Payload` a complete file is exactly what
the sender writes.

### DHCP

In `NetworkProofs`: `DhcpTypeCorrect` (`DhcpTypeOK`) and `AddressIsOwn` (`OwnLease`), for any number of servers,
machines and addresses, any size of the socket, and any number of losses and
duplicates (`OneTrouble` either way). The invariant says of every reply on its
way, queued or read that its server sent it: an offer's address is in its pool,
and an acknowledged address is leased to the machine that the reply is meant
for; leases are never taken back from a machine that has requested them.

### Keyboard

`TypeCorrect`, `EveryKeyAnnounced` (`NoSilentKey`), `StrayIsPaidFor`
(`StrayCostsKey`) and `RefinesLossyFifo` (`ImplementsLossyFifo`), for any number
of keys and marks, any depth of every queue and any size of the ring. The
invariant says where everybody stands: `BusPlace` that the Pico takes a packet
where there is one, that its flag for the interrupt and the pin agree except
while it withdraws it, and that the handler holds a byte exactly where it is
about to store one; `MainPlace` that the ring's tail does not move before
`ring_buf_init` is done, and that what `ring_buf_is_empty` saw is still there when
`ring_buf_get` takes it.

`StrayCostsKey` is a balance. An answer that has been read as a key, one that lies
in the TX FIFO, one that the Pico is about to put for a packet it serves, and one
it will put for a packet that waits and will not be cleared: together they are
at most the keys eaten, and one for the write in its bus cycle (`Balance`). A
write that takes a key adds one to the right side and ends its cycle; one that
takes an answer removes one on both. That the FIFO counts only once needs
`OneAnswer`: two answers are never in it together, since it is cleared between
two puts of one. Packets dropped by the clearing or by a full RX FIFO only make
the left side smaller.

For the refinement the bytes on their way are one sequence, joined from the three
places. Each step moves a byte from the front of one place to the back of the one
before it, which leaves the sequence as it is (`Read`, `Store`); or empties a
place or takes a byte out of it, which takes out a run (`Swallow`, `LoseWords`,
`LoseByte`, by `CutMiddle`); or adds or removes a byte at an end (`Arrive`,
`TakeOut`). The ring is read without remainders (`NoRemainder`): a byte put in is
the last of it (`PutLast`), the byte got the first (`GetFirst`), wherever the
indices wrap. Bytes stored before `ring_buf_init` are lost when they are stored,
since the initialisation sets the indices back.

### Power supply

`TypeCorrect`, `MainsAreFirst`, `FailuresAreReported` and `GoodIsEarned`
(`HoldOff`), for any rails and times. `Mains` ties the status of the 5 V rail,
the only thing the button looks at, to the mains relay. `Waits` ties each time
stamp to the history of the readings: a `pendingSince` or `pendingRecoverSince`
never claims a longer wait than the readings it stands for, over every cut,
recovery and failure that leaves a flag behind.

### Virtual file system

`TypeCorrect`, `NothingIsLost` (`NothingLost`) and `EndIsKnown` (`EndKnown`), for
any number of descriptors and of blocks, any paths and any size of the disk. The
code keeps no list of what an open file holds: `vfs_close` finds the blocks by
following pointers, from the table to the `File`, from there to what its driver
hung on it, and for the disk to FatFs's own block. The invariant therefore says
what those pointers lead to (`Hangs`): a block of the kind that the driver in the
`File` makes of it, the name and the text being strings. Kinds tell blocks apart
(`Kinds`), so the blocks of a file of the disk are different ones (`FatBlocks`),
which no conjunct has to say.

* Read, write and seek, of the disk and of `/proc`, put new values of the same kind
  into the blocks of one descriptor and move no pointer (`ChangeKeeps`, `InPlace`);
  no other descriptor has one of these blocks, so nothing changes for it
  (`Frame`, `ChangeStep`).
* A close frees `OwnedIn` of its descriptor; the others keep theirs by `Frame`.
* An open takes free blocks only. `Opened` is what each driver's open promises:
  in any case it leaves alone what is in use; when it succeeds it says which
  blocks it took (`OpenedFat`, `OpenedProc`), and when it fails, at whatever stage,
  the heap is as it found it. So the new descriptor has exactly the blocks that
  are no longer free (`NewFile`, `OpenSucceeds`), an open that fails in its driver
  has given back everything, and one that finds the table full leaves behind
  exactly the blocks its driver took (`OpenFails`).

The same lemmas give `FilesAreApart`, an action property: a call concerns one
descriptor at most and leaves every other one open, with the same blocks and the
same in them (`OthersKept`). The file on the disk is another matter: two
descriptors may stand for the same one.

`EndKnown` is not inductive either. `Sized` adds that FatFs's pointer is inside the
file and, for a descriptor that does not append and was never moved past the end,
that `position` is FatFs's pointer: a write that goes beyond `size` is then a write
that goes beyond the end of the file, also when the disk takes less than was asked
(`WriteValues`).

### Only model-checked

Everything temporal under fairness (`NoStarvation`, `LockGranted`, `Confirmed`,
`RequestEnds`, `CalmKeyArrives`, `PowerComesGood`, the fairness half
of `ImplementsRoundRobin`), which is beyond the prover. Every safety property
of the runs that are to pass is also a theorem. The expected violations are
counterexamples and need no proof.

## Plan

What is worth doing next: a second, finer `Vfs` whose calls are interrupted.

## Not modelled

* The BIOS heap (`B/libc/src/string/malloc.c`): an adaptation of the published
  tinyalloc, called by one program at a time and from no interrupt.
* IDE driver, DUART, VGA and its Pico, boot messages: register access and
  drawing, with no state that others depend on.
* Shell, command parsing, command history and the BIOS's ELF loader: sequential
  calls of the other parts and text.
* `software/libs/libcpic`: buffered streams that no program can link yet, for
  they call functions nobody defines.
* `elf_task_integration.c`, the second task creation of `task_create.c`,
  `trap_table.c`, `vfs_set_fd`, `vfs_restore_fd`, `vfs_inita`, and the Pico's
  registers of files and SD card: nothing that the Makefiles link calls them. (Of
  the Pico's registers the BIOS reads 9 and writes 0x15; `picow.c` defines accesses
  to others that nobody makes.)
* The start of the Pico itself: the 68000 waits five seconds before its first
  mark, and `KeyPath` supposes that the Pico is up by then. A report that loses
  bytes in a full UART is a report lost (or it and the next). A key that the
  tables map to 0 is a key like any other.
* Errors of the disk (`FR_DISK_ERR`) in the VFS.
* FatFs (four copies), TinyBasic, the C libraries and generated tables: code of
  others. They are most of the lines of the repository, which is why the share
  of it that is mapped is small while the kernel's own is not.
* The sender's message of success after `ler_dados` has returned without a byte
  (`sender.c:239-246`): `confirmed` in `FileTransfer` means that the answer was
  read, not that the message was printed.
* Readings of the power supply that lie exactly at a limit, for which
  `psu317.ino:377-387` keeps the rail's status: a reading belongs to the range
  above its limit.
* Sizes near 2^32 in `kmalloc.c`; display and input filters of the power supply;
  the formats of headers and packets.

The reasons are also in `PROJECT.json` under `components`; what is hard to test
and where, under `hazards`.
