---------------------------- MODULE PowerSupply ----------------------------
(***************************************************************************)
(* The power controller, psu317.ino: rails behind relays, a power-good     *)
(* line for each, the power button, and two lines by which the CPU asks    *)
(* for a cut.                                                              *)
(*                                                                         *)
(* A step is one handler of loop().  The inputs pass a filter, which makes *)
(* of them any sequence of levels.  Time stamps are kept as the time since *)
(* then, as far as a comparison can tell, and as 0 while the flag that     *)
(* goes with them is down.  An output pin follows the variable of its name.*)
(***************************************************************************)
EXTENDS Integers, FiniteSets

CONSTANTS
    Rail,               (* the rails                                        *)
    FIVE_V,             (* rails[1], whose status the button looks at       *)
    QUALIFY,            (* QUALIFY_MS: a first reading is not acted upon    *)
    RECOVERY_HOLD,      (* RECOVERY_HOLD_MS: the hold-off after a failure   *)
    SLOWEST_TURN        (* the longest time from one turn to the next       *)

ASSUME PowerSupplyAssumption ==
    /\ FIVE_V \in Rail /\ IsFiniteSet(Rail)
    /\ {QUALIFY, RECOVERY_HOLD, SLOWEST_TURN} \subseteq Nat \ {0}
    /\ QUALIFY <= RECOVERY_HOLD

(* Readings of a rail, by what the code compares them with: below 1 V,     *)
(* below 90 %, below 95 % of the nominal voltage, and above.               *)
Volts == 0..3
PCT_OFF == 2
PCT_ON  == 3

VARIABLES
    rails,          (* the state of each rail                               *)
    outputState,    (* whether the system is switched on                    *)
    powerOnPin,     (* PIN_RELAY_POWER_ON: the mains relay of the supplies  *)
    stableState,    (* the filtered button: TRUE when pressed               *)
    turn,           (* the handler that loop() calls next                   *)
    seen            (* history: what the readings of each rail have been    *)

vars == <<rails, outputState, powerOnPin, stableState, turn, seen>>

Min2(a, b) == IF a <= b THEN a ELSE b
Later(age, elapsed) == Min2(age + elapsed, RECOVERY_HOLD)

OffRail == [relayOn |-> FALSE, pwrgOn |-> FALSE, pendingOn |-> FALSE, pendingOff |-> FALSE,
            pendingSince |-> 0, pendingRecover |-> FALSE, pendingRecoverSince |-> 0,
            hadFault |-> FALSE, lastVoltage |-> 0, status |-> "PWRDOWN"]

Init ==
    /\ rails = [r \in Rail |-> OffRail]
    /\ outputState = FALSE
    /\ powerOnPin = FALSE
    /\ stableState = FALSE
    /\ turn = "button"
    /\ seen = [r \in Rail |-> [goodFor |-> -1, lowOnFor |-> -1, failed |-> FALSE]]

(***************************************************************************)
(* One rail.  Each operator is one block of updateRail.                    *)
(***************************************************************************)
Aged(r, elapsed) ==
    [r EXCEPT
       !.pendingSince = IF r.pendingOn \/ r.pendingOff THEN Later(@, elapsed) ELSE 0,
       !.pendingRecoverSince = IF r.pendingRecover THEN Later(@, elapsed) ELSE 0]

(* Mutant: the time of the first reading is taken anew on every turn. *)
TurnOnNever(r, v) ==
    IF r.relayOn THEN r
    ELSE [r EXCEPT !.pendingOn = v >= PCT_ON, !.pendingSince = 0]

(* The relay closes, and power is good, after enough readings in a row. *)
TurnOn(r, v) ==
    LET requiredHold == IF r.hadFault THEN RECOVERY_HOLD ELSE QUALIFY
    IN  CASE r.relayOn -> r
          [] ~r.relayOn /\ v < PCT_ON -> [r EXCEPT !.pendingOn = FALSE]
          [] ~r.relayOn /\ v >= PCT_ON /\ ~r.pendingOn ->
                [r EXCEPT !.pendingOn = TRUE, !.pendingSince = 0]
          [] ~r.relayOn /\ v >= PCT_ON /\ r.pendingOn ->
                IF r.pendingSince < requiredHold THEN r
                ELSE [r EXCEPT !.relayOn = TRUE, !.pwrgOn = TRUE,
                               !.pendingOn = FALSE, !.hadFault = FALSE]

(* Mutant: a reading between 90 and 95 % does not end the wait, but a low  *)
(* one starts it again.                                                    *)
DropGoodLate(r, v) ==
    IF ~(r.relayOn /\ r.pwrgOn) THEN r
    ELSE IF v >= PCT_OFF \/ ~r.pendingOff
           THEN [r EXCEPT !.pendingOff = v < PCT_OFF, !.pendingSince = 0]
         ELSE IF r.pendingSince <= QUALIFY THEN r
         ELSE [r EXCEPT !.pwrgOn = FALSE, !.pendingOff = FALSE]

(* The rail has fallen: power is no longer good; the relay stays closed. *)
DropGood(r, v) ==
    CASE ~(r.relayOn /\ r.pwrgOn) -> r
      [] r.relayOn /\ r.pwrgOn /\ v >= PCT_OFF -> [r EXCEPT !.pendingOff = FALSE]
      [] r.relayOn /\ r.pwrgOn /\ v < PCT_OFF /\ ~r.pendingOff ->
            [r EXCEPT !.pendingOff = TRUE, !.pendingSince = 0]
      [] r.relayOn /\ r.pwrgOn /\ v < PCT_OFF /\ r.pendingOff ->
            IF r.pendingSince < QUALIFY THEN r
            ELSE [r EXCEPT !.pwrgOn = FALSE, !.pendingOff = FALSE]

(* Mutant: a bad reading does not call the hold-off off. *)
RecoverSums(r, v) ==
    IF r.relayOn /\ ~r.pwrgOn /\ v >= PCT_ON
      THEN IF ~r.pendingRecover
             THEN [r EXCEPT !.pendingRecover = TRUE, !.pendingRecoverSince = 0]
             ELSE IF r.pendingRecoverSince < RECOVERY_HOLD THEN r
                  ELSE [r EXCEPT !.pwrgOn = TRUE, !.pendingRecover = FALSE]
      ELSE r

(* Power is good again after the hold-off, begun anew by a bad reading. *)
Recover(r, v) ==
    CASE ~r.relayOn \/ r.pwrgOn -> r
      [] r.relayOn /\ ~r.pwrgOn /\ v < PCT_ON -> [r EXCEPT !.pendingRecover = FALSE]
      [] r.relayOn /\ ~r.pwrgOn /\ v >= PCT_ON /\ ~r.pendingRecover ->
            [r EXCEPT !.pendingRecover = TRUE, !.pendingRecoverSince = 0]
      [] r.relayOn /\ ~r.pwrgOn /\ v >= PCT_ON /\ r.pendingRecover ->
            IF r.pendingRecoverSince < RECOVERY_HOLD THEN r
            ELSE [r EXCEPT !.pwrgOn = TRUE, !.pendingRecover = FALSE]

StatusOf(v) == IF v = 0 THEN "PWRDOWN" ELSE IF v < PCT_OFF THEN "PWRFAIL" ELSE "PWRUP"

(* Mutant: the rail is looked after also while the system is switched off. *)
updateRailAlways(r, v, on) ==
    [Recover(DropGood(TurnOn(r, v), v), v) EXCEPT !.lastVoltage = v, !.status = StatusOf(v)]

updateRail(r, v, on) ==
    IF on
      THEN [Recover(DropGood(TurnOn(r, v), v), v) EXCEPT !.lastVoltage = v,
                                                         !.status = StatusOf(v)]
      ELSE [r EXCEPT !.lastVoltage = v]

resetRailInternalState(r) == [OffRail EXCEPT !.lastVoltage = r.lastVoltage]

(***************************************************************************)
(* loop(): the button, the rails, the two requests of the CPU.             *)
(***************************************************************************)

(* Pressing the button switches over; letting it go does nothing. *)
dbounce(level) ==
    LET pressed == level /\ ~stableState
    IN  /\ turn = "button" /\ turn' = "rails"
        /\ stableState' = level
        /\ IF pressed THEN outputState' = ~outputState ELSE UNCHANGED outputState
        /\ \/ /\ pressed /\ outputState
              /\ rails' = [i \in Rail |-> resetRailInternalState(rails[i])]
              /\ powerOnPin' = FALSE
              /\ seen' = [i \in Rail |-> [seen[i] EXCEPT !.failed = FALSE]]
           \/ /\ pressed /\ ~outputState /\ rails[FIVE_V].status = "PWRDOWN"
              /\ rails' = [rails EXCEPT ![FIVE_V].status = "PWRUP"]
              /\ powerOnPin' = TRUE
              /\ UNCHANGED seen
           \/ /\ ~pressed \/ (~outputState /\ rails[FIVE_V].status # "PWRDOWN")
              /\ UNCHANGED <<rails, powerOnPin, seen>>

(* With the mains relay open the supplies only discharge. *)
Possible(v) == powerOnPin \/ \A i \in Rail : v[i] <= rails[i].lastVoltage

Since(age, goesOn, elapsed, most) ==
    IF ~goesOn THEN -1 ELSE IF age = -1 THEN 0 ELSE Min2(age + elapsed, most)

updateRails(v, elapsed) ==
    /\ turn = "rails" /\ turn' = "feedback"
    /\ Possible(v)
    /\ rails' = [i \in Rail |-> updateRail(Aged(rails[i], elapsed), v[i], outputState)]
    /\ seen' = [i \in Rail |->
         [goodFor  |-> IF outputState \/ seen[i].goodFor = -1
                         THEN Since(seen[i].goodFor, outputState /\ v[i] >= PCT_ON, elapsed,
                                    RECOVERY_HOLD)
                         ELSE Later(seen[i].goodFor, elapsed),
          lowOnFor |-> Since(seen[i].lowOnFor, outputState /\ v[i] < PCT_OFF, elapsed, QUALIFY),
          failed   |-> ~rails'[i].pwrgOn /\ (seen[i].failed \/ rails[i].pwrgOn)]]
    /\ UNCHANGED <<outputState, powerOnPin, stableState>>

(* Mutant: whatever the CPU asks for is done, power good or not. *)
CutAll(status) ==
    LET failing == {i \in Rail : rails[i].relayOn}
    IN  /\ rails' = [i \in Rail |-> IF i \in failing
                       THEN [rails[i] EXCEPT !.status = status, !.relayOn = FALSE, !.hadFault = TRUE]
                       ELSE rails[i]]
        /\ outputState' = (IF Cardinality(failing) % 2 = 1 THEN ~outputState ELSE outputState)

(* Each rail whose power is not good is cut, and each switches over. *)
Cut(status) ==
    LET failing == {i \in Rail : rails[i].relayOn /\ ~rails[i].pwrgOn}
    IN  /\ rails' = [i \in Rail |-> IF i \in failing
                       THEN [rails[i] EXCEPT !.status = status, !.relayOn = FALSE, !.hadFault = TRUE]
                       ELSE rails[i]]
        /\ outputState' = (IF Cardinality(failing) % 2 = 1 THEN ~outputState ELSE outputState)

handleCpuFeedback(requestsCut) ==
    /\ turn = "feedback" /\ turn' = "powerdown"
    /\ IF requestsCut THEN Cut("PWRFAIL") ELSE UNCHANGED <<rails, outputState>>
    /\ UNCHANGED <<powerOnPin, stableState, seen>>

handleCpuPowerDown(requestsPowerDown) ==
    /\ turn = "powerdown" /\ turn' = "button"
    /\ IF requestsPowerDown THEN Cut("PWRDOWN") ELSE UNCHANGED <<rails, outputState>>
    /\ UNCHANGED <<powerOnPin, stableState, seen>>

Next ==
    \/ \E level \in BOOLEAN : dbounce(level)
    \/ \E v \in [Rail -> Volts], elapsed \in 1..SLOWEST_TURN : updateRails(v, elapsed)
    \/ \E requestsCut \in BOOLEAN : handleCpuFeedback(requestsCut)
    \/ \E requestsPowerDown \in BOOLEAN : handleCpuPowerDown(requestsPowerDown)

(* The controller goes on turning, and time goes by. *)
Spec == Init /\ [][Next]_vars /\ WF_vars(Next)

(***************************************************************************)
(* Properties.                                                             *)
(***************************************************************************)

(* Types; and no rail's power is called good while its relay is open: the  *)
(* CPU's requests cut only rails that have failed (psu317.ino:416, 443).   *)
TypeOK ==
    /\ outputState \in BOOLEAN /\ powerOnPin \in BOOLEAN
    /\ stableState \in BOOLEAN /\ turn \in {"button", "rails", "feedback", "powerdown"}
    /\ \A i \in Rail :
         /\ {rails[i].pendingSince, rails[i].pendingRecoverSince} \subseteq 0..RECOVERY_HOLD
         /\ rails[i].lastVoltage \in Volts
         /\ rails[i].status \in {"PWRUP", "PWRFAIL", "PWRDOWN"}
         /\ rails[i].pwrgOn => rails[i].relayOn

(* The mains relay is closed whenever the system is on or a rail feeds the *)
(* CPU; so after the button has switched off, no relay closes again on the *)
(* charge left in the supplies (the fix described at psu317.ino:270-283),  *)
(* and the button, which closes the mains relay only if the 5 V rail has   *)
(* the status PWRDOWN, never switches on without it.                       *)
MainsFirst == outputState \/ (\E i \in Rail : rails[i].relayOn) => powerOnPin

(* Power is declared good only after readings above 95 % without a break   *)
(* for QUALIFY, and for RECOVERY_HOLD if the rail has failed since the     *)
(* system was last switched off by the button (psu317.ino:104-118,         *)
(* 202-206), whatever cuts and recoveries lie between.  `goodFor' takes    *)
(* the readings that updateRail looks at: those made while switched on.    *)
HoldOff ==
    [][\A i \in Rail : ~rails[i].pwrgOn /\ rails'[i].pwrgOn =>
          seen'[i].goodFor >= (IF seen[i].failed THEN RECOVERY_HOLD ELSE QUALIFY)]_vars

(* While the system is on, no rail is called good that has been below 90 % *)
(* for QUALIFY (psu317.ino:318).                                           *)
FailureReported == \A i \in Rail : seen[i].lowOnFor >= QUALIFY => ~rails[i].pwrgOn

(* A system that stays on with all rails steady comes to have power good   *)
(* on all of them, whatever the CPU asked for and failed on the way.       *)
PowerComesGood ==
    <>[](outputState /\ \A i \in Rail : rails[i].lastVoltage = 3)
       => <>[](\A i \in Rail : rails[i].pwrgOn)
=============================================================================
