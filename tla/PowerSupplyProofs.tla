------------------------- MODULE PowerSupplyProofs -------------------------
(***************************************************************************)
(* Proofs about PowerSupply, for any number of rails and any length of the *)
(* two waiting times and of a turn.                                        *)
(***************************************************************************)
EXTENDS PowerSupply, FiniteSetTheorems, TLAPS

RailState ==
    [relayOn : BOOLEAN, pwrgOn : BOOLEAN, pendingOn : BOOLEAN, pendingOff : BOOLEAN,
     pendingSince : 0..RECOVERY_HOLD, pendingRecover : BOOLEAN,
     pendingRecoverSince : 0..RECOVERY_HOLD, hadFault : BOOLEAN,
     lastVoltage : Volts, status : {"PWRUP", "PWRFAIL", "PWRDOWN"}]
History == [goodFor : -1..RECOVERY_HOLD, lowOnFor : -1..QUALIFY, failed : BOOLEAN]

(* A rail waits for one thing at a time, so the pendingSince that switching *)
(* on and failing share is the right one; and no wait is longer than the    *)
(* readings it stands for.                                                  *)
Waits(r, s) ==
    /\ r.pwrgOn => r.relayOn
    /\ r.pendingOn => ~r.relayOn /\ r.pendingSince <= s.goodFor
    /\ r.pendingOff => r.pwrgOn
    /\ r.pendingRecover /\ r.relayOn /\ ~r.pwrgOn => r.pendingRecoverSince <= s.goodFor
    /\ r.pwrgOn /\ s.lowOnFor >= 0 => r.pendingOff /\ s.lowOnFor <= r.pendingSince
    /\ r.pwrgOn => s.lowOnFor < QUALIFY
    /\ s.failed => ~r.pwrgOn /\ (r.relayOn \/ r.hadFault)

(* The status of the 5 V rail tells whether the mains relay is closed. *)
Mains == outputState \/ (\E i \in Rail : rails[i].relayOn) \/ rails[FIVE_V].status # "PWRDOWN"
           => powerOnPin

IInv ==
    /\ outputState \in BOOLEAN /\ powerOnPin \in BOOLEAN /\ stableState \in BOOLEAN
    /\ turn \in {"button", "rails", "feedback", "powerdown"}
    /\ rails \in [Rail -> RailState] /\ seen \in [Rail -> History]
    /\ Mains
    /\ \A i \in Rail : Waits(rails[i], seen[i])

USE PowerSupplyAssumption

LEMMA Sizes ==
    /\ QUALIFY \in Nat /\ RECOVERY_HOLD \in Nat /\ SLOWEST_TURN \in Nat
    /\ QUALIFY > 0 /\ RECOVERY_HOLD > 0 /\ SLOWEST_TURN > 0 /\ QUALIFY <= RECOVERY_HOLD
    /\ FIVE_V \in Rail
  BY DEF PowerSupplyAssumption

LEMMA OffRailState == OffRail \in RailState
  BY Sizes DEF OffRail, RailState, Volts

LEMMA InitIInv == Init => IInv
  <1> SUFFICES ASSUME Init PROVE IInv
    OBVIOUS
  <1>1. rails \in [Rail -> RailState] /\ \A i \in Rail : rails[i] = OffRail
    BY OffRailState DEF Init
  <1>2. [goodFor |-> -1, lowOnFor |-> -1, failed |-> FALSE] \in History
    BY Sizes DEF History
  <1>3. seen \in [Rail -> History]
    BY <1>2 DEF Init
  <1>4. ASSUME NEW i \in Rail PROVE Waits(rails[i], seen[i])
    BY <1>1, Sizes DEF Init, Waits, OffRail
  <1>5. Mains
    BY <1>1, Sizes DEF Init, Mains, OffRail
  <1> QED
    BY <1>1, <1>3, <1>4, <1>5 DEF Init, IInv

-----------------------------------------------------------------------------
(* Assignments to the fields of a rail. *)
Flag == {"relayOn", "pwrgOn", "pendingOn", "pendingOff", "pendingRecover", "hadFault"}

LEMMA SetFlag ==
  ASSUME NEW r \in RailState, NEW f \in Flag, NEW x \in BOOLEAN
  PROVE  [r EXCEPT ![f] = x] \in RailState
  BY DEF RailState, Flag

LEMMA SetTime ==
  ASSUME NEW r \in RailState, NEW x \in 0..RECOVERY_HOLD
  PROVE  [r EXCEPT !.pendingSince = x] \in RailState /\ [r EXCEPT !.pendingRecoverSince = x] \in RailState
  BY DEF RailState

LEMMA SetReading ==
  ASSUME NEW r \in RailState, NEW v \in Volts
  PROVE  [r EXCEPT !.lastVoltage = v] \in RailState
  BY DEF RailState

LEMMA SetStatus ==
  ASSUME NEW r \in RailState, NEW st \in {"PWRUP", "PWRFAIL", "PWRDOWN"}
  PROVE  [r EXCEPT !.status = st] \in RailState
  BY DEF RailState

(* The sets of fields that the blocks of updateRail assign together. *)
LEMMA Assignments ==
  ASSUME NEW r \in RailState
  PROVE  /\ [r EXCEPT !.pendingOn = TRUE, !.pendingSince = 0] \in RailState
         /\ [r EXCEPT !.relayOn = TRUE, !.pwrgOn = TRUE, !.pendingOn = FALSE, !.hadFault = FALSE]
              \in RailState
         /\ [r EXCEPT !.pendingOff = TRUE, !.pendingSince = 0] \in RailState
         /\ [r EXCEPT !.pwrgOn = FALSE, !.pendingOff = FALSE] \in RailState
         /\ [r EXCEPT !.pendingRecover = TRUE, !.pendingRecoverSince = 0] \in RailState
         /\ [r EXCEPT !.pwrgOn = TRUE, !.pendingRecover = FALSE] \in RailState
         /\ [r EXCEPT !.pendingOn = FALSE] \in RailState
         /\ [r EXCEPT !.pendingOff = FALSE] \in RailState
         /\ [r EXCEPT !.pendingRecover = FALSE] \in RailState
  <1> USE Sizes DEF Flag
  <1>0. "pendingOn" \in Flag /\ "pendingOff" \in Flag /\ "relayOn" \in Flag /\ "pwrgOn" \in Flag
        /\ "pendingRecover" \in Flag /\ "hadFault" \in Flag /\ 0 \in 0..RECOVERY_HOLD
    OBVIOUS
  <1> HIDE DEF Flag
  <1>1. [r EXCEPT !.pendingOn = TRUE, !.pendingSince = 0] \in RailState
    <2> DEFINE p == [r EXCEPT !.pendingOn = TRUE]
    <2>1. p \in RailState
      BY <1>0, SetFlag
    <2>2. [r EXCEPT !.pendingOn = TRUE, !.pendingSince = 0] = [p EXCEPT !.pendingSince = 0]
      OBVIOUS
    <2> HIDE DEF p
    <2> QED
      BY <1>0, <2>1, <2>2, SetTime
  <1>2. [r EXCEPT !.relayOn = TRUE, !.pwrgOn = TRUE, !.pendingOn = FALSE, !.hadFault = FALSE]
           \in RailState
    <2> DEFINE p == [r EXCEPT !.relayOn = TRUE]
               q == [p EXCEPT !.pwrgOn = TRUE]
               w == [q EXCEPT !.pendingOn = FALSE]
    <2>1. p \in RailState
      BY <1>0, SetFlag
    <2>2. q \in RailState
      <3> HIDE DEF p
      <3> QED
        BY <1>0, <2>1, SetFlag
    <2>3. w \in RailState
      <3> HIDE DEF q
      <3> QED
        BY <1>0, <2>2, SetFlag
    <2>4. [r EXCEPT !.relayOn = TRUE, !.pwrgOn = TRUE, !.pendingOn = FALSE, !.hadFault = FALSE]
            = [w EXCEPT !.hadFault = FALSE]
      OBVIOUS
    <2> HIDE DEF w
    <2> QED
      BY <1>0, <2>3, <2>4, SetFlag
  <1>3. [r EXCEPT !.pendingOff = TRUE, !.pendingSince = 0] \in RailState
    <2> DEFINE p == [r EXCEPT !.pendingOff = TRUE]
    <2>1. p \in RailState
      BY <1>0, SetFlag
    <2>2. [r EXCEPT !.pendingOff = TRUE, !.pendingSince = 0] = [p EXCEPT !.pendingSince = 0]
      OBVIOUS
    <2> HIDE DEF p
    <2> QED
      BY <1>0, <2>1, <2>2, SetTime
  <1>4. [r EXCEPT !.pwrgOn = FALSE, !.pendingOff = FALSE] \in RailState
    <2> DEFINE p == [r EXCEPT !.pwrgOn = FALSE]
    <2>1. p \in RailState
      BY <1>0, SetFlag
    <2>2. [r EXCEPT !.pwrgOn = FALSE, !.pendingOff = FALSE] = [p EXCEPT !.pendingOff = FALSE]
      OBVIOUS
    <2> HIDE DEF p
    <2> QED
      BY <1>0, <2>1, <2>2, SetFlag
  <1>5. [r EXCEPT !.pendingRecover = TRUE, !.pendingRecoverSince = 0] \in RailState
    <2> DEFINE p == [r EXCEPT !.pendingRecover = TRUE]
    <2>1. p \in RailState
      BY <1>0, SetFlag
    <2>2. [r EXCEPT !.pendingRecover = TRUE, !.pendingRecoverSince = 0]
            = [p EXCEPT !.pendingRecoverSince = 0]
      OBVIOUS
    <2> HIDE DEF p
    <2> QED
      BY <1>0, <2>1, <2>2, SetTime
  <1>6. [r EXCEPT !.pwrgOn = TRUE, !.pendingRecover = FALSE] \in RailState
    <2> DEFINE p == [r EXCEPT !.pwrgOn = TRUE]
    <2>1. p \in RailState
      BY <1>0, SetFlag
    <2>2. [r EXCEPT !.pwrgOn = TRUE, !.pendingRecover = FALSE] = [p EXCEPT !.pendingRecover = FALSE]
      OBVIOUS
    <2> HIDE DEF p
    <2> QED
      BY <1>0, <2>1, <2>2, SetFlag
  <1> QED
    BY <1>0, <1>1, <1>2, <1>3, <1>4, <1>5, <1>6, SetFlag

-----------------------------------------------------------------------------
(* One turn of one rail.  What updateRails records of a rail: *)
Noted(r, s, v, on, elapsed) ==
    [goodFor  |-> IF on \/ s.goodFor = -1
                    THEN Since(s.goodFor, on /\ v >= PCT_ON, elapsed, RECOVERY_HOLD)
                    ELSE Later(s.goodFor, elapsed),
     lowOnFor |-> Since(s.lowOnFor, on /\ v < PCT_OFF, elapsed, QUALIFY),
     failed   |-> ~updateRail(Aged(r, elapsed), v, on).pwrgOn /\ (s.failed \/ r.pwrgOn)]

LEMMA AgedFields ==
  ASSUME NEW r \in RailState, NEW elapsed \in 1..SLOWEST_TURN
  PROVE  LET a == Aged(r, elapsed)
         IN  /\ a \in RailState
             /\ a.relayOn = r.relayOn /\ a.pwrgOn = r.pwrgOn /\ a.pendingOn = r.pendingOn
             /\ a.pendingOff = r.pendingOff /\ a.pendingRecover = r.pendingRecover
             /\ a.hadFault = r.hadFault /\ a.status = r.status
             /\ r.pendingOn \/ r.pendingOff => a.pendingSince = Later(r.pendingSince, elapsed)
             /\ r.pendingRecover => a.pendingRecoverSince = Later(r.pendingRecoverSince, elapsed)
  <1> DEFINE x == IF r.pendingOn \/ r.pendingOff THEN Later(r.pendingSince, elapsed) ELSE 0
             y == IF r.pendingRecover THEN Later(r.pendingRecoverSince, elapsed) ELSE 0
             p == [r EXCEPT !.pendingSince = x]
             a == [p EXCEPT !.pendingRecoverSince = y]
  <1>1. x \in 0..RECOVERY_HOLD /\ y \in 0..RECOVERY_HOLD
    BY Sizes DEF RailState, Later, Min2
  <1>2. Aged(r, elapsed) = a
    BY DEF Aged
  <1> HIDE DEF x, y
  <1>3. p \in RailState
    BY <1>1, SetTime
  <1>4. a \in RailState
    <2> HIDE DEF p
    <2> QED
      BY <1>1, <1>3, SetTime
  <1>5. /\ a.relayOn = r.relayOn /\ a.pwrgOn = r.pwrgOn /\ a.pendingOn = r.pendingOn
        /\ a.pendingOff = r.pendingOff /\ a.pendingRecover = r.pendingRecover
        /\ a.hadFault = r.hadFault /\ a.status = r.status
        /\ a.pendingSince = x /\ a.pendingRecoverSince = y
    BY DEF RailState
  <1> HIDE DEF a
  <1> QED
    BY <1>2, <1>4, <1>5 DEF x, y

(* The relay closes only after the wait, and power is then good. *)
LEMMA TurnOnFields ==
  ASSUME NEW r \in RailState, NEW v \in Volts, r.pwrgOn => r.relayOn, r.pendingOn => ~r.relayOn
  PROVE  LET b == TurnOn(r, v)
         IN  /\ b \in RailState
             /\ r.relayOn => b = r
             /\ b.relayOn /\ ~r.relayOn =>
                   /\ r.pendingOn /\ v >= PCT_ON /\ b.pwrgOn /\ ~b.pendingOn
                   /\ r.pendingSince >= (IF r.hadFault THEN RECOVERY_HOLD ELSE QUALIFY)
             /\ ~b.relayOn => ~b.pwrgOn /\ b.hadFault = r.hadFault
             /\ b.pendingOn => /\ v >= PCT_ON /\ ~b.relayOn
                               /\ b.pendingSince = IF r.pendingOn THEN r.pendingSince ELSE 0
             /\ b.pendingOff = r.pendingOff /\ b.pendingRecover = r.pendingRecover
             /\ b.pendingRecoverSince = r.pendingRecoverSince
  <1> USE Sizes DEF RailState, Volts, PCT_ON
  <1>1. CASE r.relayOn
    BY <1>1 DEF TurnOn
  <1>2. CASE ~r.relayOn /\ v < PCT_ON
    <2>1. TurnOn(r, v) = [r EXCEPT !.pendingOn = FALSE]
      BY <1>2 DEF TurnOn
    <2>2. [r EXCEPT !.pendingOn = FALSE] \in RailState
      <3> HIDE DEF RailState
      <3> QED
        BY Assignments
    <2> QED
      BY <1>2, <2>1, <2>2
  <1>3. CASE ~r.relayOn /\ v >= PCT_ON /\ ~r.pendingOn
    <2>1. TurnOn(r, v) = [r EXCEPT !.pendingOn = TRUE, !.pendingSince = 0]
      BY <1>3 DEF TurnOn
    <2>2. [r EXCEPT !.pendingOn = TRUE, !.pendingSince = 0] \in RailState
      <3> HIDE DEF RailState
      <3> QED
        BY Assignments
    <2> QED
      BY <1>3, <2>1, <2>2
  <1>4. CASE ~r.relayOn /\ v >= PCT_ON /\ r.pendingOn
    <2>1. CASE r.pendingSince < (IF r.hadFault THEN RECOVERY_HOLD ELSE QUALIFY)
      BY <1>4, <2>1 DEF TurnOn
    <2>2. CASE ~(r.pendingSince < (IF r.hadFault THEN RECOVERY_HOLD ELSE QUALIFY))
      <3>1. TurnOn(r, v) = [r EXCEPT !.relayOn = TRUE, !.pwrgOn = TRUE, !.pendingOn = FALSE, !.hadFault = FALSE]
        BY <1>4, <2>2 DEF TurnOn
      <3>2. [r EXCEPT !.relayOn = TRUE, !.pwrgOn = TRUE, !.pendingOn = FALSE, !.hadFault = FALSE] \in RailState
        <4> HIDE DEF RailState
        <4> QED
          BY Assignments
      <3> QED
        BY <1>4, <2>2, <3>1, <3>2
    <2> QED
      BY <2>1, <2>2
  <1> QED
    BY <1>1, <1>2, <1>3, <1>4

(* Power fails only after the wait; and a low reading begins one. *)
LEMMA DropGoodFields ==
  ASSUME NEW r \in RailState, NEW v \in Volts, r.pwrgOn => r.relayOn, r.pendingOff => r.pwrgOn
  PROVE  LET c == DropGood(r, v)
         IN  /\ c \in RailState
             /\ c.relayOn = r.relayOn /\ c.hadFault = r.hadFault
             /\ c.pendingOn = r.pendingOn /\ c.pendingRecover = r.pendingRecover
             /\ c.pendingRecoverSince = r.pendingRecoverSince
             /\ r.pendingOn /\ ~r.relayOn => c.pendingSince = r.pendingSince
             /\ c.pwrgOn => r.pwrgOn
             /\ c.pendingOff => c.pwrgOn
             /\ r.pwrgOn /\ ~c.pwrgOn => v < PCT_OFF
             /\ c.pwrgOn /\ v < PCT_OFF =>
                  /\ c.pendingOff
                  /\ IF r.pendingOff THEN c.pendingSince = r.pendingSince /\ r.pendingSince < QUALIFY
                                     ELSE c.pendingSince = 0
  <1> USE Sizes DEF RailState, Volts, PCT_OFF
  <1>1. CASE ~(r.relayOn /\ r.pwrgOn)
    BY <1>1 DEF DropGood
  <1>2. CASE r.relayOn /\ r.pwrgOn /\ v >= PCT_OFF
    <2>1. DropGood(r, v) = [r EXCEPT !.pendingOff = FALSE]
      BY <1>2 DEF DropGood
    <2>2. [r EXCEPT !.pendingOff = FALSE] \in RailState
      <3> HIDE DEF RailState
      <3> QED
        BY Assignments
    <2> DEFINE c == [r EXCEPT !.pendingOff = FALSE]
    <2>3. /\ c.relayOn = r.relayOn /\ c.hadFault = r.hadFault /\ c.pwrgOn = r.pwrgOn
          /\ c.pendingOn = r.pendingOn /\ c.pendingRecover = r.pendingRecover
          /\ c.pendingRecoverSince = r.pendingRecoverSince /\ c.pendingSince = r.pendingSince
          /\ c.pendingOff = FALSE
      OBVIOUS
    <2>4. DropGood(r, v) = c /\ c \in RailState
      BY <2>1, <2>2
    <2>5. ~(v < PCT_OFF)
      BY <1>2
    <2> HIDE DEF c, RailState, Volts, PCT_OFF
    <2> QED
      BY <1>2, <2>3, <2>4, <2>5, Zenon
  <1>3. CASE r.relayOn /\ r.pwrgOn /\ v < PCT_OFF /\ ~r.pendingOff
    <2>1. DropGood(r, v) = [r EXCEPT !.pendingOff = TRUE, !.pendingSince = 0]
      BY <1>3 DEF DropGood
    <2>2. [r EXCEPT !.pendingOff = TRUE, !.pendingSince = 0] \in RailState
      <3> HIDE DEF RailState
      <3> QED
        BY Assignments
    <2> QED
      BY <1>3, <2>1, <2>2
  <1>4. CASE r.relayOn /\ r.pwrgOn /\ v < PCT_OFF /\ r.pendingOff
    <2>1. CASE r.pendingSince < QUALIFY
      <3>1. DropGood(r, v) = r
        BY <1>4, <2>1 DEF DropGood
      <3> QED
        BY <1>4, <2>1, <3>1
    <2>2. CASE ~(r.pendingSince < QUALIFY)
      <3>1. DropGood(r, v) = [r EXCEPT !.pwrgOn = FALSE, !.pendingOff = FALSE]
        BY <1>4, <2>2 DEF DropGood
      <3>2. [r EXCEPT !.pwrgOn = FALSE, !.pendingOff = FALSE] \in RailState
        <4> HIDE DEF RailState
        <4> QED
          BY Assignments
      <3> QED
        BY <1>4, <2>2, <3>1, <3>2
    <2> QED
      BY <2>1, <2>2
  <1> QED
    BY <1>1, <1>2, <1>3, <1>4

(* Power is good again only after the hold-off. *)
LEMMA RecoverFields ==
  ASSUME NEW r \in RailState, NEW v \in Volts, r.pwrgOn => r.relayOn
  PROVE  LET d == Recover(r, v)
         IN  /\ d \in RailState
             /\ d.relayOn = r.relayOn /\ d.hadFault = r.hadFault
             /\ d.pendingOn = r.pendingOn /\ d.pendingOff = r.pendingOff
             /\ d.pendingSince = r.pendingSince
             /\ r.pwrgOn => d = r
             /\ d.pwrgOn /\ ~r.pwrgOn => /\ r.relayOn /\ v >= PCT_ON /\ r.pendingRecover
                                         /\ r.pendingRecoverSince >= RECOVERY_HOLD
             /\ d.pendingRecover /\ d.relayOn /\ ~d.pwrgOn =>
                  /\ v >= PCT_ON
                  /\ d.pendingRecoverSince = IF r.pendingRecover THEN r.pendingRecoverSince ELSE 0
  <1> USE Sizes DEF RailState, Volts, PCT_ON
  <1>1. CASE ~r.relayOn \/ r.pwrgOn
    BY <1>1 DEF Recover
  <1>2. CASE r.relayOn /\ ~r.pwrgOn /\ v < PCT_ON
    <2>1. Recover(r, v) = [r EXCEPT !.pendingRecover = FALSE]
      BY <1>2 DEF Recover
    <2>2. [r EXCEPT !.pendingRecover = FALSE] \in RailState
      <3> HIDE DEF RailState
      <3> QED
        BY Assignments
    <2> QED
      BY <1>2, <2>1, <2>2
  <1>3. CASE r.relayOn /\ ~r.pwrgOn /\ v >= PCT_ON /\ ~r.pendingRecover
    <2>1. Recover(r, v) = [r EXCEPT !.pendingRecover = TRUE, !.pendingRecoverSince = 0]
      BY <1>3 DEF Recover
    <2>2. [r EXCEPT !.pendingRecover = TRUE, !.pendingRecoverSince = 0] \in RailState
      <3> HIDE DEF RailState
      <3> QED
        BY Assignments
    <2> QED
      BY <1>3, <2>1, <2>2
  <1>4. CASE r.relayOn /\ ~r.pwrgOn /\ v >= PCT_ON /\ r.pendingRecover
    <2>1. CASE r.pendingRecoverSince < RECOVERY_HOLD
      BY <1>4, <2>1 DEF Recover
    <2>2. CASE ~(r.pendingRecoverSince < RECOVERY_HOLD)
      <3>1. Recover(r, v) = [r EXCEPT !.pwrgOn = TRUE, !.pendingRecover = FALSE]
        BY <1>4, <2>2 DEF Recover
      <3>2. [r EXCEPT !.pwrgOn = TRUE, !.pendingRecover = FALSE] \in RailState
        <4> HIDE DEF RailState
        <4> QED
          BY Assignments
      <3> DEFINE d == [r EXCEPT !.pwrgOn = TRUE, !.pendingRecover = FALSE]
      <3>3. /\ d.relayOn = r.relayOn /\ d.hadFault = r.hadFault
            /\ d.pendingOn = r.pendingOn /\ d.pendingOff = r.pendingOff
            /\ d.pendingSince = r.pendingSince /\ d.pwrgOn
        OBVIOUS
      <3>4. Recover(r, v) = d /\ d \in RailState
        BY <3>1, <3>2
      <3>5. r.pendingRecoverSince >= RECOVERY_HOLD
        BY <2>2
      <3> HIDE DEF d, RailState, Volts, PCT_ON
      <3> QED
        BY <1>4, <3>3, <3>4, <3>5, Zenon
    <2> QED
      BY <2>1, <2>2
  <1> QED
    BY <1>1, <1>2, <1>3, <1>4

-----------------------------------------------------------------------------
(* A turn with the system switched on: the three blocks one after the other. *)
LEMMA OnTurn ==
  ASSUME NEW r \in RailState, NEW s \in History, NEW v \in Volts,
         NEW elapsed \in 1..SLOWEST_TURN, Waits(r, s)
  PROVE  LET q == updateRail(Aged(r, elapsed), v, TRUE)
             t == Noted(r, s, v, TRUE, elapsed)
         IN  /\ q \in RailState /\ t \in History /\ Waits(q, t)
             /\ ~r.pwrgOn /\ q.pwrgOn =>
                  t.goodFor >= (IF s.failed THEN RECOVERY_HOLD ELSE QUALIFY)
  <1> DEFINE a == Aged(r, elapsed)
             b == TurnOn(a, v)
             c == DropGood(b, v)
             d == Recover(c, v)
             q == updateRail(a, v, TRUE)
             t == Noted(r, s, v, TRUE, elapsed)
  <1>1. /\ a \in RailState
        /\ a.relayOn = r.relayOn /\ a.pwrgOn = r.pwrgOn /\ a.pendingOn = r.pendingOn
        /\ a.pendingOff = r.pendingOff /\ a.pendingRecover = r.pendingRecover
        /\ a.hadFault = r.hadFault
        /\ r.pendingOn \/ r.pendingOff => a.pendingSince = Later(r.pendingSince, elapsed)
        /\ r.pendingRecover => a.pendingRecoverSince = Later(r.pendingRecoverSince, elapsed)
    BY AgedFields
  <1>2. /\ b \in RailState
        /\ a.relayOn => b = a
        /\ b.relayOn /\ ~a.relayOn =>
              /\ a.pendingOn /\ v >= PCT_ON /\ b.pwrgOn /\ ~b.pendingOn
              /\ a.pendingSince >= (IF a.hadFault THEN RECOVERY_HOLD ELSE QUALIFY)
        /\ ~b.relayOn => ~b.pwrgOn /\ b.hadFault = a.hadFault
        /\ b.pendingOn => /\ v >= PCT_ON /\ ~b.relayOn
                          /\ b.pendingSince = IF a.pendingOn THEN a.pendingSince ELSE 0
        /\ b.pendingOff = a.pendingOff /\ b.pendingRecover = a.pendingRecover
        /\ b.pendingRecoverSince = a.pendingRecoverSince
    BY <1>1, TurnOnFields DEF Waits
  <1>3. (b.pwrgOn => b.relayOn) /\ (b.pendingOff => b.pwrgOn)
    BY <1>1, <1>2 DEF Waits, RailState
  <1>4. /\ c \in RailState
        /\ c.relayOn = b.relayOn /\ c.hadFault = b.hadFault
        /\ c.pendingOn = b.pendingOn /\ c.pendingRecover = b.pendingRecover
        /\ c.pendingRecoverSince = b.pendingRecoverSince
        /\ b.pendingOn /\ ~b.relayOn => c.pendingSince = b.pendingSince
        /\ c.pwrgOn => b.pwrgOn
        /\ c.pendingOff => c.pwrgOn
        /\ b.pwrgOn /\ ~c.pwrgOn => v < PCT_OFF
        /\ c.pwrgOn /\ v < PCT_OFF =>
             /\ c.pendingOff
             /\ IF b.pendingOff THEN c.pendingSince = b.pendingSince /\ b.pendingSince < QUALIFY
                                ELSE c.pendingSince = 0
    BY <1>2, <1>3, DropGoodFields
  <1>5. c.pwrgOn => c.relayOn
    BY <1>3, <1>4
  <1>6. /\ d \in RailState
        /\ d.relayOn = c.relayOn /\ d.hadFault = c.hadFault
        /\ d.pendingOn = c.pendingOn /\ d.pendingOff = c.pendingOff
        /\ d.pendingSince = c.pendingSince
        /\ c.pwrgOn => d = c
        /\ d.pwrgOn /\ ~c.pwrgOn => /\ c.relayOn /\ v >= PCT_ON /\ c.pendingRecover
                                    /\ c.pendingRecoverSince >= RECOVERY_HOLD
        /\ d.pendingRecover /\ d.relayOn /\ ~d.pwrgOn =>
             /\ v >= PCT_ON
             /\ d.pendingRecoverSince = IF c.pendingRecover THEN c.pendingRecoverSince ELSE 0
    BY <1>4, <1>5, RecoverFields
  <1>7. /\ q \in RailState
        /\ q.relayOn = d.relayOn /\ q.pwrgOn = d.pwrgOn /\ q.hadFault = d.hadFault
        /\ q.pendingOn = d.pendingOn /\ q.pendingOff = d.pendingOff
        /\ q.pendingSince = d.pendingSince /\ q.pendingRecover = d.pendingRecover
        /\ q.pendingRecoverSince = d.pendingRecoverSince
    BY <1>6 DEF updateRail, RailState, StatusOf, Volts, PCT_OFF
  <1>8. t.goodFor \in -1..RECOVERY_HOLD /\ t.lowOnFor \in -1..QUALIFY /\ t.failed \in BOOLEAN
        /\ t.goodFor = (IF v >= PCT_ON
                          THEN IF s.goodFor = -1 THEN 0 ELSE Later(s.goodFor, elapsed)
                          ELSE -1)
        /\ t.lowOnFor = (IF v < PCT_OFF
                           THEN IF s.lowOnFor = -1 THEN 0 ELSE Min2(s.lowOnFor + elapsed, QUALIFY)
                           ELSE -1)
        /\ t.failed = (~q.pwrgOn /\ (s.failed \/ r.pwrgOn))
        /\ t \in History
    BY Sizes DEF Noted, Since, Later, Min2, History
  <1> HIDE DEF a, b, c, d, q, t
  <1> USE Sizes DEF RailState, History, Volts, PCT_ON, PCT_OFF, Later, Min2
  <1>9. q.pendingOn => ~q.relayOn /\ q.pendingSince <= t.goodFor
    BY <1>1, <1>2, <1>4, <1>6, <1>7, <1>8 DEF Waits
  <1>10. q.pendingRecover /\ q.relayOn /\ ~q.pwrgOn => q.pendingRecoverSince <= t.goodFor
    BY <1>1, <1>2, <1>4, <1>6, <1>7, <1>8 DEF Waits
  <1>11. q.pwrgOn /\ t.lowOnFor >= 0 => q.pendingOff /\ t.lowOnFor <= q.pendingSince
    BY <1>1, <1>2, <1>4, <1>6, <1>7, <1>8 DEF Waits
  <1>12. q.pwrgOn => t.lowOnFor < QUALIFY
    BY <1>1, <1>2, <1>4, <1>6, <1>7, <1>8 DEF Waits
  <1>13. t.failed => ~q.pwrgOn /\ (q.relayOn \/ q.hadFault)
    BY <1>1, <1>2, <1>4, <1>6, <1>7, <1>8 DEF Waits
  <1>14. (q.pwrgOn => q.relayOn) /\ (q.pendingOff => q.pwrgOn)
    BY <1>1, <1>2, <1>3, <1>4, <1>5, <1>6, <1>7
  <1>15. ~r.pwrgOn /\ q.pwrgOn => t.goodFor >= (IF s.failed THEN RECOVERY_HOLD ELSE QUALIFY)
    BY <1>1, <1>2, <1>4, <1>6, <1>7, <1>8 DEF Waits
  <1> QED
    BY <1>7, <1>8, <1>9, <1>10, <1>11, <1>12, <1>13, <1>14, <1>15 DEF Waits, q, a, t

(* Switched off, a rail is only measured, and its waits grow older. *)
LEMMA OffTurn ==
  ASSUME NEW r \in RailState, NEW s \in History, NEW v \in Volts,
         NEW elapsed \in 1..SLOWEST_TURN, Waits(r, s)
  PROVE  LET q == updateRail(Aged(r, elapsed), v, FALSE)
             t == Noted(r, s, v, FALSE, elapsed)
         IN  /\ q \in RailState /\ t \in History /\ Waits(q, t)
             /\ q.pwrgOn = r.pwrgOn /\ q.relayOn = r.relayOn /\ q.status = r.status
  <1> DEFINE a == Aged(r, elapsed)
             q == updateRail(a, v, FALSE)
             t == Noted(r, s, v, FALSE, elapsed)
  <1>1. /\ a \in RailState
        /\ a.relayOn = r.relayOn /\ a.pwrgOn = r.pwrgOn /\ a.pendingOn = r.pendingOn
        /\ a.pendingOff = r.pendingOff /\ a.pendingRecover = r.pendingRecover
        /\ a.hadFault = r.hadFault /\ a.status = r.status
        /\ r.pendingOn \/ r.pendingOff => a.pendingSince = Later(r.pendingSince, elapsed)
        /\ r.pendingRecover => a.pendingRecoverSince = Later(r.pendingRecoverSince, elapsed)
    BY AgedFields
  <1>2. q = [a EXCEPT !.lastVoltage = v]
    BY DEF updateRail
  <1> HIDE DEF a
  <1>3. q \in RailState
    BY <1>1, <1>2, SetReading
  <1>4. /\ q.relayOn = a.relayOn /\ q.pwrgOn = a.pwrgOn /\ q.hadFault = a.hadFault
        /\ q.pendingOn = a.pendingOn /\ q.pendingOff = a.pendingOff
        /\ q.pendingSince = a.pendingSince /\ q.pendingRecover = a.pendingRecover
        /\ q.pendingRecoverSince = a.pendingRecoverSince /\ q.status = a.status
    BY <1>1, <1>2 DEF RailState
  <1>5. /\ t.goodFor = (IF s.goodFor = -1 THEN -1 ELSE Later(s.goodFor, elapsed))
        /\ t.lowOnFor = -1
        /\ t.failed = (~q.pwrgOn /\ (s.failed \/ r.pwrgOn))
        /\ t \in History
    BY Sizes DEF Noted, Since, Later, Min2, History, a
  <1> HIDE DEF q, t
  <1>6. Waits(q, t)
    BY <1>1, <1>4, <1>5, Sizes DEF Waits, RailState, History, Later, Min2
  <1> QED
    BY <1>1, <1>3, <1>4, <1>5, <1>6 DEF q, a, t

(* What a button press leaves of a rail. *)
LEMMA ResetRail ==
  ASSUME NEW r \in RailState, NEW s \in History
  PROVE  LET q == resetRailInternalState(r)
             t == [s EXCEPT !.failed = FALSE]
         IN  /\ q \in RailState /\ t \in History /\ Waits(q, t)
             /\ ~q.relayOn /\ ~q.pwrgOn /\ q.status = "PWRDOWN"
  <1> DEFINE q == resetRailInternalState(r)
             t == [s EXCEPT !.failed = FALSE]
  <1>1. /\ q \in RailState
        /\ ~q.relayOn /\ ~q.pwrgOn /\ q.status = "PWRDOWN" /\ ~q.pendingOn /\ ~q.pendingOff
    <2>1. q = [OffRail EXCEPT !.lastVoltage = r.lastVoltage] /\ r.lastVoltage \in Volts
      BY DEF resetRailInternalState, RailState
    <2>2. q \in RailState
      BY <2>1, OffRailState, SetReading
    <2>3. /\ q.relayOn = FALSE /\ q.pwrgOn = FALSE /\ q.status = "PWRDOWN"
          /\ q.pendingOn = FALSE /\ q.pendingOff = FALSE
      BY <2>1 DEF OffRail
    <2> QED
      BY <2>2, <2>3
  <1>2. t \in History /\ ~t.failed
    BY DEF History
  <1> HIDE DEF q, t
  <1> QED
    BY <1>1, <1>2 DEF Waits, q, t

(* A rail that is cut waits for nothing that counts. *)
LEMMA CutRail ==
  ASSUME NEW r \in RailState, NEW s \in History, NEW st \in {"PWRFAIL", "PWRDOWN"},
         Waits(r, s), ~r.pwrgOn, r.relayOn
  PROVE  LET q == [r EXCEPT !.status = st, !.relayOn = FALSE, !.hadFault = TRUE]
         IN  q \in RailState /\ Waits(q, s) /\ ~q.relayOn /\ ~q.pwrgOn
  <1> DEFINE p == [r EXCEPT !.status = st]
             w == [p EXCEPT !.relayOn = FALSE]
             q == [w EXCEPT !.hadFault = TRUE]
  <1>1. p \in RailState
    <2>1. st \in {"PWRUP", "PWRFAIL", "PWRDOWN"}
      OBVIOUS
    <2> QED
      BY <2>1, SetStatus
  <1>2. w \in RailState
    <2> HIDE DEF p
    <2> QED
      BY <1>1, SetFlag DEF Flag
  <1>3. q \in RailState
    <2> HIDE DEF w
    <2> QED
      BY <1>2, SetFlag DEF Flag
  <1>4. ~q.relayOn /\ q.hadFault /\ q.pwrgOn = r.pwrgOn /\ q.pendingOn = r.pendingOn
        /\ q.pendingOff = r.pendingOff
    BY DEF RailState
  <1>5. [r EXCEPT !.status = st, !.relayOn = FALSE, !.hadFault = TRUE] = q
    OBVIOUS
  <1> HIDE DEF q
  <1> QED
    BY <1>3, <1>4, <1>5 DEF Waits

-----------------------------------------------------------------------------
LEMMA ButtonStep ==
  ASSUME IInv, NEW level \in BOOLEAN, dbounce(level)
  PROVE  IInv'
  <1> DEFINE pressed == level /\ ~stableState
  <1>1. CASE pressed /\ outputState
    <2>1. /\ rails' = [i \in Rail |-> resetRailInternalState(rails[i])]
          /\ seen' = [i \in Rail |-> [seen[i] EXCEPT !.failed = FALSE]]
          /\ outputState' = FALSE
      BY <1>1 DEF dbounce, IInv
    <2>2. ASSUME NEW i \in Rail
          PROVE  /\ rails'[i] \in RailState /\ seen'[i] \in History /\ Waits(rails'[i], seen'[i])
                 /\ ~rails'[i].relayOn /\ rails'[i].status = "PWRDOWN"
      BY <2>1, ResetRail DEF IInv
    <2>3. rails' \in [Rail -> RailState] /\ seen' \in [Rail -> History]
      BY <2>1, <2>2
    <2>4. Mains'
      BY <2>1, <2>2, Sizes DEF Mains
    <2> QED
      BY <1>1, <2>2, <2>3, <2>4 DEF dbounce, IInv
  <1>2. CASE pressed /\ ~outputState /\ rails[FIVE_V].status = "PWRDOWN"
    <2>1. /\ rails' = [rails EXCEPT ![FIVE_V].status = "PWRUP"]
          /\ powerOnPin' = TRUE /\ seen' = seen /\ outputState' = TRUE
      BY <1>2 DEF dbounce, IInv
    <2>2. ASSUME NEW i \in Rail
          PROVE  rails'[i] \in RailState /\ Waits(rails'[i], seen'[i])
      <3>1. CASE i = FIVE_V
        <4> DEFINE q == [rails[FIVE_V] EXCEPT !.status = "PWRUP"]
        <4>1. rails'[i] = q /\ rails[i] \in RailState /\ Waits(rails[i], seen[i])
          BY <2>1, <3>1 DEF IInv
        <4>2. q \in RailState
          <5>1. rails[FIVE_V] \in RailState /\ "PWRUP" \in {"PWRUP", "PWRFAIL", "PWRDOWN"}
            BY <3>1, <4>1
          <5> QED
            BY <5>1, SetStatus
        <4>3. /\ q.relayOn = rails[i].relayOn /\ q.pwrgOn = rails[i].pwrgOn
              /\ q.hadFault = rails[i].hadFault /\ q.pendingOn = rails[i].pendingOn
              /\ q.pendingOff = rails[i].pendingOff /\ q.pendingSince = rails[i].pendingSince
              /\ q.pendingRecover = rails[i].pendingRecover
              /\ q.pendingRecoverSince = rails[i].pendingRecoverSince
          BY <3>1, <4>1 DEF RailState
        <4> HIDE DEF q
        <4> QED
          BY <2>1, <4>1, <4>2, <4>3 DEF Waits
      <3>2. CASE i # FIVE_V
        BY <2>1, <3>2 DEF IInv
      <3> QED
        BY <3>1, <3>2
    <2>3. rails' \in [Rail -> RailState]
      BY <2>1, <2>2 DEF IInv
    <2> QED
      BY <1>2, <2>1, <2>2, <2>3 DEF dbounce, IInv, Mains
  <1>3. CASE ~pressed \/ (~outputState /\ rails[FIVE_V].status # "PWRDOWN")
    <2>1. UNCHANGED <<rails, powerOnPin, seen>>
      BY <1>3 DEF dbounce
    <2>2. outputState' => outputState \/ rails[FIVE_V].status # "PWRDOWN"
      BY <1>3 DEF dbounce
    <2>3. outputState' \in BOOLEAN
      BY DEF dbounce, IInv
    <2> QED
      BY <2>1, <2>2, <2>3 DEF dbounce, IInv, Mains
  <1> QED
    BY <1>1, <1>2, <1>3

(* Only updateRails changes what HoldOff speaks of. *)
LEMMA RailsStep ==
  ASSUME IInv, NEW v \in [Rail -> Volts], NEW elapsed \in 1..SLOWEST_TURN,
         updateRails(v, elapsed)
  PROVE  /\ IInv'
         /\ \A i \in Rail : ~rails[i].pwrgOn /\ rails'[i].pwrgOn =>
              seen'[i].goodFor >= (IF seen[i].failed THEN RECOVERY_HOLD ELSE QUALIFY)
  <1>1. /\ rails' = [i \in Rail |-> updateRail(Aged(rails[i], elapsed), v[i], outputState)]
        /\ seen' = [i \in Rail |-> Noted(rails[i], seen[i], v[i], outputState, elapsed)]
        /\ UNCHANGED <<outputState, powerOnPin, stableState>> /\ turn' = "feedback"
    BY DEF updateRails, Noted
  <1>2. ASSUME NEW i \in Rail
        PROVE  /\ rails'[i] \in RailState /\ seen'[i] \in History /\ Waits(rails'[i], seen'[i])
               /\ ~rails[i].pwrgOn /\ rails'[i].pwrgOn =>
                    seen'[i].goodFor >= (IF seen[i].failed THEN RECOVERY_HOLD ELSE QUALIFY)
               /\ ~outputState => rails'[i].relayOn = rails[i].relayOn
                                  /\ rails'[i].status = rails[i].status
    <2>1. /\ rails[i] \in RailState /\ seen[i] \in History /\ Waits(rails[i], seen[i])
          /\ v[i] \in Volts
          /\ rails'[i] = updateRail(Aged(rails[i], elapsed), v[i], outputState)
          /\ seen'[i] = Noted(rails[i], seen[i], v[i], outputState, elapsed)
      BY <1>1 DEF IInv
    <2>2. CASE outputState = TRUE
      <3>1. /\ rails'[i] = updateRail(Aged(rails[i], elapsed), v[i], TRUE)
            /\ seen'[i] = Noted(rails[i], seen[i], v[i], TRUE, elapsed)
        BY <2>1, <2>2
      <3>2. /\ rails'[i] \in RailState /\ seen'[i] \in History /\ Waits(rails'[i], seen'[i])
            /\ ~rails[i].pwrgOn /\ rails'[i].pwrgOn =>
                 seen'[i].goodFor >= (IF seen[i].failed THEN RECOVERY_HOLD ELSE QUALIFY)
        BY <2>1, <3>1, OnTurn
      <3> QED
        BY <2>2, <3>2
    <2>3. CASE outputState = FALSE
      <3>1. /\ rails'[i] = updateRail(Aged(rails[i], elapsed), v[i], FALSE)
            /\ seen'[i] = Noted(rails[i], seen[i], v[i], FALSE, elapsed)
        BY <2>1, <2>3
      <3>2. /\ rails'[i] \in RailState /\ seen'[i] \in History /\ Waits(rails'[i], seen'[i])
            /\ rails'[i].pwrgOn = rails[i].pwrgOn /\ rails'[i].relayOn = rails[i].relayOn
            /\ rails'[i].status = rails[i].status
        <4> DEFINE q == updateRail(Aged(rails[i], elapsed), v[i], FALSE)
                   t == Noted(rails[i], seen[i], v[i], FALSE, elapsed)
        <4>1. /\ q \in RailState /\ t \in History /\ Waits(q, t)
              /\ q.pwrgOn = rails[i].pwrgOn /\ q.relayOn = rails[i].relayOn
              /\ q.status = rails[i].status
          BY <2>1, OffTurn
        <4> HIDE DEF q, t
        <4> QED
          BY <3>1, <4>1 DEF q, t
      <3> QED
        BY <3>2
    <2> QED
      BY <2>2, <2>3 DEF IInv
  <1>3. rails' \in [Rail -> RailState] /\ seen' \in [Rail -> History]
    BY <1>1, <1>2
  <1>4. Mains'
    BY <1>1, <1>2, Sizes DEF IInv, Mains
  <1> QED
    BY <1>1, <1>2, <1>3, <1>4 DEF IInv

(* A cut switches over only if it cut something, that is, with the mains on. *)
LEMMA CutStep ==
  ASSUME IInv, NEW st \in {"PWRFAIL", "PWRDOWN"}, Cut(st),
         UNCHANGED <<powerOnPin, stableState, seen>>,
         turn' \in {"button", "rails", "feedback", "powerdown"}
  PROVE  IInv' /\ \A i \in Rail : rails'[i].pwrgOn => rails[i].pwrgOn
  <1> DEFINE failing == {i \in Rail : rails[i].relayOn /\ ~rails[i].pwrgOn}
  <1>1. /\ rails' = [i \in Rail |-> IF i \in failing
              THEN [rails[i] EXCEPT !.status = st, !.relayOn = FALSE, !.hadFault = TRUE]
              ELSE rails[i]]
        /\ outputState' = IF Cardinality(failing) % 2 = 1 THEN ~outputState ELSE outputState
    BY DEF Cut
  <1>2. ASSUME NEW i \in Rail
        PROVE  /\ rails'[i] \in RailState /\ Waits(rails'[i], seen'[i])
               /\ rails'[i].relayOn => rails[i].relayOn
               /\ rails'[i].pwrgOn => rails[i].pwrgOn
    BY <1>1, CutRail DEF IInv
  <1>3. rails' \in [Rail -> RailState]
    BY <1>1, <1>2
  <1>4. outputState' \in BOOLEAN
    BY <1>1 DEF IInv
  <1>5. CASE failing = {}
    <2>1. rails' = rails
      BY <1>1, <1>5 DEF IInv
    <2>2. outputState' = outputState
      <3>1. Cardinality(failing) = 0
        BY <1>5, FS_EmptySet
      <3>2. 0 % 2 # 1
        OBVIOUS
      <3> HIDE DEF failing
      <3> QED
        BY <1>1, <3>1, <3>2, Zenon
    <2> QED
      BY <1>2, <1>3, <1>4, <2>1, <2>2 DEF IInv, Mains
  <1>6. CASE failing # {}
    <2>1. powerOnPin
      BY <1>6 DEF IInv, Mains
    <2> QED
      BY <1>2, <1>3, <1>4, <2>1 DEF IInv, Mains
  <1> QED
    BY <1>5, <1>6

LEMMA StepIInv == IInv /\ [Next]_vars => IInv'
  <1> SUFFICES ASSUME IInv, [Next]_vars PROVE IInv'
    OBVIOUS
  <1>1. CASE \E level \in BOOLEAN : dbounce(level)
    BY <1>1, ButtonStep
  <1>2. CASE \E v \in [Rail -> Volts], elapsed \in 1..SLOWEST_TURN : updateRails(v, elapsed)
    BY <1>2, RailsStep
  <1>3. CASE \E requestsCut \in BOOLEAN : handleCpuFeedback(requestsCut)
    <2>1. CASE Cut("PWRFAIL")
      BY <1>3, <2>1, CutStep DEF handleCpuFeedback
    <2>2. CASE UNCHANGED <<rails, outputState>>
      BY <1>3, <2>2 DEF handleCpuFeedback, IInv, Mains
    <2> QED
      BY <1>3, <2>1, <2>2 DEF handleCpuFeedback
  <1>4. CASE \E requestsPowerDown \in BOOLEAN : handleCpuPowerDown(requestsPowerDown)
    <2>1. CASE Cut("PWRDOWN")
      BY <1>4, <2>1, CutStep DEF handleCpuPowerDown
    <2>2. CASE UNCHANGED <<rails, outputState>>
      BY <1>4, <2>2 DEF handleCpuPowerDown, IInv, Mains
    <2> QED
      BY <1>4, <2>1, <2>2 DEF handleCpuPowerDown
  <1>5. CASE UNCHANGED vars
    BY <1>5 DEF vars, IInv, Mains
  <1> QED
    BY <1>1, <1>2, <1>3, <1>4, <1>5 DEF Next

LEMMA Invariance == Spec => []IInv
  BY InitIInv, StepIInv, PTL DEF Spec

-----------------------------------------------------------------------------
(* For any number of rails: the state of the controller keeps its types,   *)
(* and no rail's power is called good while its relay is open.             *)
THEOREM TypeCorrect == Spec => []TypeOK
  <1>1. IInv => TypeOK
    BY DEF IInv, TypeOK, RailState, Waits
  <1> QED
    BY Invariance, <1>1, PTL

(* The mains relay is closed whenever the system is on or a rail feeds the *)
(* CPU, however cuts and presses of the button follow each other.          *)
THEOREM MainsAreFirst == Spec => []MainsFirst
  <1>1. IInv => MainsFirst
    BY DEF IInv, MainsFirst, Mains
  <1> QED
    BY Invariance, <1>1, PTL

(* No rail that has been low for QUALIFY is called good. *)
THEOREM FailuresAreReported == Spec => []FailureReported
  <1>1. IInv => FailureReported
    <2> SUFFICES ASSUME IInv, NEW i \in Rail, seen[i].lowOnFor >= QUALIFY
                 PROVE  ~rails[i].pwrgOn
      BY DEF FailureReported
    <2>1. Waits(rails[i], seen[i]) /\ seen[i] \in History
      BY DEF IInv
    <2> QED
      BY <2>1, Sizes DEF Waits, History
  <1> QED
    BY Invariance, <1>1, PTL

(* Power is declared good only after unbroken readings for as long as the  *)
(* rail's past asks for, whatever the lengths of the two waits.            *)
THEOREM GoodIsEarned == Spec => HoldOff
  <1> DEFINE Earned == \A i \in Rail : ~rails[i].pwrgOn /\ rails'[i].pwrgOn =>
          seen'[i].goodFor >= (IF seen[i].failed THEN RECOVERY_HOLD ELSE QUALIFY)
             Kept == \A i \in Rail : rails'[i].pwrgOn => rails[i].pwrgOn
  <1>1. IInv /\ [Next]_vars => [Earned]_vars
    <2> SUFFICES ASSUME IInv, Next PROVE Earned
      OBVIOUS
    <2>1. CASE \E level \in BOOLEAN : dbounce(level)
      <3>1. PICK level \in BOOLEAN : dbounce(level)
        BY <2>1
      <3>2. ASSUME NEW i \in Rail PROVE rails'[i].pwrgOn => rails[i].pwrgOn
        <4>1. CASE rails' = [j \in Rail |-> resetRailInternalState(rails[j])]
          BY <4>1, ResetRail DEF IInv
        <4>2. CASE rails' = [rails EXCEPT ![FIVE_V].status = "PWRUP"]
          BY <4>2 DEF IInv, RailState
        <4>3. CASE rails' = rails
          BY <4>3
        <4> QED
          BY <3>1, <4>1, <4>2, <4>3 DEF dbounce
      <3> QED
        BY <3>2
    <2>2. CASE \E v \in [Rail -> Volts], elapsed \in 1..SLOWEST_TURN : updateRails(v, elapsed)
      BY <2>2, RailsStep
    <2>3. CASE \E requestsCut \in BOOLEAN : handleCpuFeedback(requestsCut)
      <3>1. Kept
        BY <2>3, CutStep DEF handleCpuFeedback
      <3> QED
        BY <3>1
    <2>4. CASE \E requestsPowerDown \in BOOLEAN : handleCpuPowerDown(requestsPowerDown)
      <3>1. Kept
        BY <2>4, CutStep DEF handleCpuPowerDown
      <3> QED
        BY <3>1
    <2> QED
      BY <2>1, <2>2, <2>3, <2>4 DEF Next
  <1> QED
    BY Invariance, <1>1, PTL DEF Spec, HoldOff
=============================================================================
