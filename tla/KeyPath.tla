------------------------------ MODULE KeyPath ------------------------------
(***************************************************************************)
(* The way of a key: two keyboards, one at the Pico's UART and one at its  *)
(* PS/2 interrupt; the main loop of the Pico 2 W (pds200.c, kbd_usb.c,     *)
(* orion_bus.c), the two FIFOs and the bus program of its PIO              *)
(* (orion_bus.pio), the interrupt line and the controller that pulses the  *)
(* 68000 while the line is low, the BIOS's handler (vectors_asm.S), its    *)
(* ring buffer (ringbuffer.c) and who reads it.                            *)
(*                                                                         *)
(* The BIOS uses the Pico in two ways: the handler reads register 9, and   *)
(* the boot writes a progress mark now and then to register 0x15 (WR_CHAR, *)
(* orion68_startup.S).  The bytes that the Pico puts into the TX FIFO are  *)
(* numbered in the order put; `answers' are those of them that are the 0   *)
(* with which it answers a write, the others are keys.                     *)
(***************************************************************************)
EXTENDS Naturals, Sequences, Functions

CONSTANTS
    MaxKey,             (* how many keys are typed, on both keyboards       *)
    BootWrites,         (* marks the boot writes with interrupts masked; it *)
                        (* writes one more when they are enabled            *)
    UART_DEPTH,         (* reports that the UART holds                      *)
    FIFO_DEPTH,         (* words that each FIFO of the PIO holds            *)
    RING_BUFFER_SIZE    (* cells of the BIOS's ring buffer                  *)

ASSUME KeyPathAssumption ==
    /\ {MaxKey, UART_DEPTH, FIFO_DEPTH} \subseteq Nat \ {0} /\ BootWrites \in Nat
    /\ RING_BUFFER_SIZE \in Nat /\ RING_BUFFER_SIZE > 1

Byte == 1..MaxKey + BootWrites + 1
NoByte == 0

VARIABLES
    typed,      (* how many keys have been typed                            *)
    uart,       (* how many reports are in the UART                         *)
    pico,       (* where the Pico's main loop stands                        *)
    packet,     (* the packet it serves                                     *)
    ps2,        (* the PS/2 handler has put its key and not yet announced it*)
    pirq,       (* pin PIRQ is low: an interrupt is requested               *)
    bkd_int,    (* the Pico's flag for it                                   *)
    bytes,      (* how many bytes were put                                  *)
    answers,    (* those that answer a write                                *)
    tx, rx,     (* the FIFOs: bytes, and packets (the kind of the cycle)    *)
    pio,        (* the bus program: "cs" or "pull"                          *)
    cpu,        (* "main", in a bus "read" or "write", or about to "put"    *)
    d0,         (* the byte that Int3Handler has read                       *)
    rb,         (* the ring buffer; `buffer' is whether rb->buffer is set   *)
    main,       (* where the main program stands                            *)
    writes,     (* how many marks it has written                            *)
    received,   (* what the reader of the ring got                          *)
    eaten,      (* history: how many keys the `pull' of a write took        *)
    stray,      (* history: how many answers a read took                    *)
    race,       (* history: a cycle or a PS/2 key hit the Pico while serving*)
    calm,       (* history: the keys offered while the path was free        *)
    refused     (* history: the bytes the full ring refused                 *)

kbdVars  == <<typed, uart>>
picoVars == <<pico, packet, ps2, pirq, bkd_int>>
fifoVars == <<bytes, answers, tx, rx>>
cpuVars  == <<cpu, d0>>
ringVars == <<rb, main, writes, received>>
history  == <<eaten, stray, race, calm, refused>>
vars == <<kbdVars, picoVars, fifoVars, pio, cpuVars, ringVars, history>>

(* The Pico is up: the 68000 waits before its first mark, and then in it.  *)
Init ==
    /\ typed = 0 /\ uart = 0
    /\ pico = "bus" /\ packet = "none" /\ ps2 = FALSE /\ pirq = FALSE /\ bkd_int = FALSE
    /\ bytes = 0 /\ answers = {} /\ tx = <<>> /\ rx = <<>> /\ pio = "cs"
    /\ cpu = "main" /\ d0 = NoByte
    /\ rb = [buffer |-> FALSE, head |-> 0, tail |-> 0,
             cell |-> [i \in 0..RING_BUFFER_SIZE - 1 |-> NoByte]]
    /\ main = "masked" /\ writes = 0 /\ received = <<>>
    /\ eaten = 0 /\ stray = 0 /\ race = FALSE /\ calm = {} /\ refused = {}

(***************************************************************************)
(* The keyboard at the UART.  A report that finds it full loses bytes; the *)
(* parser then drops it, or it and the next, whose beginning it takes for  *)
(* the missing bytes: any report may be lost here.                         *)
(***************************************************************************)
Type ==
    /\ typed < MaxKey
    /\ typed' = typed + 1
    /\ uart' \in {uart, IF uart < UART_DEPTH THEN uart + 1 ELSE uart}
    /\ UNCHANGED <<picoVars, fifoVars, pio, cpuVars, ringVars, history>>

(***************************************************************************)
(* The Pico.                                                               *)
(***************************************************************************)

(* A full FIFO takes nothing, without a word. *)
pio_sm_put ==
    /\ bytes' = bytes + 1
    /\ tx' = IF Len(tx) < FIFO_DEPTH THEN Append(tx, bytes') ELSE tx

(* Nothing that was there before, or is under way, can take the key's place. *)
PathFree ==
    /\ tx = <<>> /\ rx = <<>> /\ pio = "cs" /\ ~pirq
    /\ pico \notin {"flag", "get", "clear", "answer"}
    /\ main \in {"look", "get"}

PutKey ==
    /\ pio_sm_put
    /\ calm' = IF PathFree THEN calm \cup {bytes'} ELSE calm
    /\ UNCHANGED <<answers, rx>>

(* The flag says whether the pin is low already. *)
kbd_int_on ==
    /\ bkd_int' = TRUE
    /\ pirq' = (pirq \/ ~bkd_int)

(* The PS/2 keyboard interrupts the main loop anywhere: in its handler the *)
(* loop stands still, the PIO and the 68000 do not.                        *)
ps2_ihandler ==
    \/ /\ ~ps2 /\ typed < MaxKey
       /\ typed' = typed + 1
       /\ PutKey
       /\ ps2' = TRUE
       /\ race' = (race \/ pico \in {"flag", "get", "clear"})
       /\ UNCHANGED <<uart, pico, packet, pirq, bkd_int, pio, cpuVars, ringVars, eaten, stray, refused>>
    \/ /\ ps2
       /\ kbd_int_on
       /\ ps2' = FALSE
       /\ UNCHANGED <<kbdVars, pico, packet, fifoVars, pio, cpuVars, ringVars, history>>

BusEmpty ==
    /\ pico = "bus" /\ rx = <<>>
    /\ pico' = "kbd"
    /\ UNCHANGED <<kbdVars, packet, ps2, pirq, bkd_int, fifoVars, pio, cpuVars, ringVars, history>>

(* Mutant: the interrupt is not withdrawn. *)
kbd_int_off_never ==
    /\ \/ pico = "bus" /\ rx # <<>> /\ pico' = "flag"
       \/ pico = "flag" /\ pico' = "get"
    /\ UNCHANGED <<kbdVars, packet, ps2, pirq, bkd_int, fifoVars, pio, cpuVars, ringVars, history>>

(* A packet is there: the pin goes high, then the flag is cleared. *)
kbd_int_off ==
    /\ \/ pico = "bus" /\ rx # <<>> /\ pirq' = FALSE /\ pico' = "flag" /\ UNCHANGED bkd_int
       \/ pico = "flag" /\ bkd_int' = FALSE /\ pico' = "get" /\ UNCHANGED pirq
    /\ UNCHANGED <<kbdVars, packet, ps2, fifoVars, pio, cpuVars, ringVars, history>>

pio_sm_get ==
    /\ pico = "get"
    /\ packet' = Head(rx) /\ rx' = Tail(rx)
    /\ pico' = "clear"
    /\ UNCHANGED <<kbdVars, ps2, pirq, bkd_int, bytes, answers, tx, pio, cpuVars, ringVars, history>>

(* Mutant: register 9 is answered like the others. *)
RegisterNoReturn == "answer"

(* Where the handler goes with the packet: it returns for register 9. *)
Register == IF packet = "read" THEN "kbd" ELSE "answer"

(* Mutant: only the packets are cleared. *)
pio_sm_clear_rx ==
    /\ pico = "clear"
    /\ pio = "pull" => tx = <<>>
    /\ rx' = <<>>
    /\ pico' = Register
    /\ UNCHANGED <<kbdVars, packet, ps2, pirq, bkd_int, bytes, answers, tx, pio, cpuVars, ringVars, history>>

(* Both FIFOs.  A waiting `pull' takes a byte within a clock, before the   *)
(* Pico can clear it.                                                      *)
pio_sm_clear_fifos ==
    /\ pico = "clear"
    /\ pio = "pull" => tx = <<>>
    /\ rx' = <<>> /\ tx' = <<>>
    /\ pico' = Register
    /\ UNCHANGED <<kbdVars, packet, ps2, pirq, bkd_int, bytes, answers, pio, cpuVars, ringVars, history>>

(* A read and a write are answered alike, a write with a 0. *)
PutAnswer ==
    /\ pico = "answer"
    /\ pio_sm_put
    /\ answers' = answers \cup {bytes'}
    /\ pico' = "kbd"
    /\ UNCHANGED <<kbdVars, packet, ps2, pirq, bkd_int, rx, pio, cpuVars, ringVars, history>>

(* kbd_poll stops at the first key; the others stay in the UART. *)
kbd_poll ==
    /\ pico = "kbd"
    /\ \/ uart > 0 /\ uart' = uart - 1 /\ pico' = "put"
       \/ uart = 0 /\ pico' = "bus" /\ UNCHANGED uart
    /\ UNCHANGED <<typed, packet, ps2, pirq, bkd_int, fifoVars, pio, cpuVars, ringVars, history>>

(* main() puts the key that kbd_poll found, then announces it. *)
OfferKey ==
    \/ /\ pico = "put"
       /\ PutKey
       /\ pico' = "inton"
       /\ UNCHANGED <<kbdVars, packet, ps2, pirq, bkd_int, pio, cpuVars, ringVars, eaten, stray, race, refused>>
    \/ /\ pico = "inton"
       /\ kbd_int_on
       /\ pico' = "bus"
       /\ UNCHANGED <<kbdVars, packet, ps2, fifoVars, pio, cpuVars, ringVars, history>>

Pico == /\ ~ps2
        /\ \/ BusEmpty \/ kbd_int_off \/ pio_sm_get \/ pio_sm_clear_fifos \/ PutAnswer
           \/ kbd_poll \/ OfferKey

(***************************************************************************)
(* The bus program.  A cycle pushes its packet, unless the FIFO is full,   *)
(* and waits for a byte: the answer of a read, the dummy of a write.  It   *)
(* takes whatever lies there.                                              *)
(***************************************************************************)
espera_cs ==
    /\ pio = "cs" /\ cpu \in {"read", "write"}
    /\ rx' = IF Len(rx) < FIFO_DEPTH THEN Append(rx, cpu) ELSE rx
    /\ pio' = "pull"
    /\ UNCHANGED <<kbdVars, picoVars, bytes, answers, tx, cpuVars, ringVars, history>>

m68k_escrita ==
    /\ pio = "pull" /\ cpu = "write" /\ tx # <<>>
    /\ tx' = Tail(tx)
    /\ eaten' = IF Head(tx) \in answers THEN eaten ELSE eaten + 1
    /\ pio' = "cs" /\ cpu' = "main"
    /\ UNCHANGED <<kbdVars, picoVars, bytes, answers, rx, d0, ringVars, stray, race, calm, refused>>

m68k_leitura ==
    /\ pio = "pull" /\ cpu = "read" /\ tx # <<>>
    /\ d0' = Head(tx) /\ tx' = Tail(tx)
    /\ stray' = IF Head(tx) \in answers THEN stray + 1 ELSE stray
    /\ pio' = "cs" /\ cpu' = "put"
    /\ UNCHANGED <<kbdVars, picoVars, bytes, answers, rx, ringVars, eaten, race, calm, refused>>

(***************************************************************************)
(* The 68000.  The controller pulses again and again while the pin is low; *)
(* the CPU takes a pulse between two instructions of the main program.     *)
(***************************************************************************)

(* The Pico has yet to serve an earlier cycle, and to clear the FIFOs. *)
Serving == rx # <<>> \/ pico = "clear"

start_irq ==
    /\ pirq /\ cpu = "main" /\ main # "masked"
    /\ cpu' = "read"
    /\ race' = (race \/ Serving)
    /\ UNCHANGED <<kbdVars, picoVars, fifoVars, pio, d0, ringVars, eaten, stray, calm, refused>>

(* The boot's progress marks, and the enabling of the interrupts before *)
(* the last of them.                                                    *)
WR_CHAR ==
    /\ cpu = "main"
    /\ \/ main = "masked" /\ writes < BootWrites /\ UNCHANGED main
       \/ main = "enabled" /\ main' = "boot"
    /\ cpu' = "write" /\ writes' = writes + 1
    /\ race' = (race \/ Serving)
    /\ UNCHANGED <<kbdVars, picoVars, fifoVars, pio, d0, rb, received, eaten, stray, calm, refused>>

EnableInterrupts ==
    /\ cpu = "main" /\ main = "masked" /\ writes = BootWrites
    /\ main' = "enabled"
    /\ UNCHANGED <<kbdVars, picoVars, fifoVars, pio, cpuVars, rb, writes, received, history>>

Succ(i) == (i + 1) % RING_BUFFER_SIZE

(* Mutant: the index of the ring runs on. *)
ring_buf_put_runs_on(c) ==
    /\ rb' = [rb EXCEPT !.head = @ + 1]
    /\ UNCHANGED refused

(* Mutant: the byte goes into the cell behind its own. *)
ring_buf_put_behind(c) ==
    IF Succ(rb.head) = rb.tail
      THEN refused' = refused \cup {c} /\ UNCHANGED rb
      ELSE /\ rb' = [rb EXCEPT !.head = Succ(@),
                               !.cell[Succ(rb.head)] = IF rb.buffer THEN c ELSE @]
           /\ UNCHANGED refused

(* A full ring refuses the byte.  Before ring_buf_init rb->buffer is null  *)
(* and the byte goes to the ROM at address 0.                              *)
ring_buf_put(c) ==
    IF Succ(rb.head) = rb.tail
      THEN refused' = refused \cup {c} /\ UNCHANGED rb
      ELSE /\ rb' = [rb EXCEPT !.head = Succ(@),
                               !.cell[rb.head] = IF rb.buffer THEN c ELSE @]
           /\ UNCHANGED refused

(* From the byte read to the rte: the ring is written with everything masked. *)
Int3Handler ==
    /\ cpu = "put"
    /\ ring_buf_put(d0)
    /\ cpu' = "main" /\ d0' = NoByte
    /\ UNCHANGED <<kbdVars, picoVars, fifoVars, pio, main, writes, received, eaten, stray, race, calm>>

(* The main program: main() initialises the ring, late in the boot; then   *)
(* shell, commands and trap15_handler read it with ring_buf_get_char.      *)
ring_buf_init ==
    /\ cpu = "main"
    /\ \/ main = "boot"      /\ rb' = [rb EXCEPT !.buffer = TRUE] /\ main' = "boot head"
       \/ main = "boot head" /\ rb' = [rb EXCEPT !.head = 0]      /\ main' = "boot tail"
       \/ main = "boot tail" /\ rb' = [rb EXCEPT !.tail = 0]      /\ main' = "look"
    /\ UNCHANGED <<kbdVars, picoVars, fifoVars, pio, cpuVars, writes, received, history>>

ring_buf_is_empty ==
    /\ cpu = "main" /\ main = "look"
    /\ rb.head # rb.tail
    /\ main' = "get"
    /\ UNCHANGED <<kbdVars, picoVars, fifoVars, pio, cpuVars, rb, writes, received, history>>

(* One step: the handler writes neither this cell nor this index, and a *)
(* ring that is full before the index moves was full before the cell was read. *)
ring_buf_get ==
    /\ cpu = "main" /\ main = "get"
    /\ received' = Append(received, rb.cell[rb.tail])
    /\ rb' = [rb EXCEPT !.tail = Succ(@)]
    /\ main' = "look"
    /\ UNCHANGED <<kbdVars, picoVars, fifoVars, pio, cpuVars, writes, history>>

Main == \/ WR_CHAR \/ EnableInterrupts
        \/ ring_buf_init \/ ring_buf_is_empty \/ ring_buf_get

Next == \/ Type \/ ps2_ihandler \/ Pico
        \/ espera_cs \/ m68k_escrita \/ m68k_leitura
        \/ start_irq \/ Int3Handler \/ Main

(* Everybody goes on; a line that stays low is pulsed again; the program   *)
(* boots and the shell reads.  Nobody need type.                           *)
Spec == /\ Init /\ [][Next]_vars
        /\ WF_vars(Pico) /\ WF_vars(ps2 /\ ps2_ihandler)
        /\ WF_vars(espera_cs) /\ WF_vars(m68k_escrita) /\ WF_vars(m68k_leitura)
        /\ WF_vars(start_irq) /\ WF_vars(Int3Handler) /\ SF_vars(Main)

(***************************************************************************)
(* Properties.                                                             *)
(***************************************************************************)

(* Types, and the indices of the ring stay inside it. *)
TypeOK ==
    /\ typed \in 0..MaxKey /\ uart \in 0..UART_DEPTH
    /\ {bytes, eaten, stray} \subseteq Nat /\ answers \subseteq 1..bytes
    /\ tx \in Seq(1..bytes) /\ Len(tx) <= FIFO_DEPTH
    /\ rx \in Seq({"read", "write"}) /\ Len(rx) <= FIFO_DEPTH
    /\ pico \in {"bus", "flag", "get", "clear", "answer", "kbd", "put", "inton"}
    /\ packet \in {"none", "read", "write"} /\ {ps2, pirq, bkd_int} \subseteq BOOLEAN
    /\ pio \in {"cs", "pull"} /\ cpu \in {"main", "read", "write", "put"}
    /\ main \in {"masked", "enabled", "boot", "boot head", "boot tail", "look", "get"}
    /\ d0 \in 0..bytes /\ writes \in 0..BootWrites + 1
    /\ {rb.head, rb.tail} \subseteq 0..RING_BUFFER_SIZE - 1

(* No key lies in the TX FIFO unannounced, where nothing would make the    *)
(* 68000 read it before the next cycle takes it for its own byte: that is  *)
(* why the handler clears both FIFOs when it withdraws the interrupt       *)
(* (orion_bus.c:32-40), whichever keyboard put the key meanwhile.          *)
NoSilentKey ==
    (\E i \in DOMAIN tx : tx[i] \notin answers) =>
        pirq \/ ps2 \/ pico \in {"inton", "flag", "get", "clear"}

(* The handler reads an answer to a boot mark, a 0 that nobody typed, only *)
(* in return for a key that was typed during the boot and that the `pull'  *)
(* of a mark took for its dummy (orion_bus.pio:17): the bytes of the two   *)
(* kinds of cycle do not drift apart in any other way, and never further.  *)
StrayCostsKey == stray <= eaten

RingHolds ==
    IF main \in {"masked", "enabled", "boot", "boot head"} THEN <<>>
    ELSE [i \in 1..(rb.head + RING_BUFFER_SIZE - rb.tail) % RING_BUFFER_SIZE |->
            rb.cell[(rb.tail + i - 1) % RING_BUFFER_SIZE]]
One(b) == IF b = NoByte THEN <<>> ELSE <<b>>

(* What the shell gets was put by the Pico, once, in that order: neither   *)
(* the FIFO, shared by two keyboards, the answers and the dummies, nor the *)
(* ring (full, wrapped, or initialised while keys arrive) repeat, reorder  *)
(* or invent a byte, even when the Pico and the 68000 got out of step.     *)
Path == INSTANCE LossyFifo WITH
          put <- bytes, inside <- RingHolds \o One(d0) \o tx, out <- received
ImplementsLossyFifo == Path!Spec

(* No bus cycle of the 68000 stays open, the trap that                     *)
(* drivers_raw/picow.c:44-51 warns of, and a key offered while the path is *)
(* free reaches the shell, unless the ring is full.  Both provided that    *)
(* the 68000 begins no cycle before the Pico has served the one before     *)
(* (set_ipl pauses 500 us, the Pico's loop does not,                       *)
(* interruptCntrl.ino:134), and that no PS/2 key comes while it withdraws  *)
(* the interrupt and clears the FIFOs: the key would be cleared and its    *)
(* interrupt stay.                                                         *)
CalmKeyArrives ==
    []~race => /\ pio = "pull" ~> pio = "cs"
               /\ \A k \in Byte : k \in calm ~> k \in Range(received) \cup refused
=============================================================================
