CONSTANTS
    Rail = {r1, r2}
    FIVE_V = r2
    QUALIFY = 2
    RECOVERY_HOLD = 3
    SLOWEST_TURN = 1
SPECIFICATION Spec
INVARIANTS TypeOK MainsFirst FailureReported
PROPERTIES HoldOff PowerComesGood
