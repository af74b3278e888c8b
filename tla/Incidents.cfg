\* Two processes on a database the old version left, two action lists.
SPECIFICATION Spec
CONSTANTS
    c = c  d = d  b = b  p1 = p1  p2 = p2
    Process = {p1, p2}
    Actions = {c, d}
    Broad = b
    MinIncidents = 2
    MaxLegacy = 2
    MaxIncidents = 4
    MaxGates = 2
INVARIANTS LegacyQuarantined LiveRuleHasItsPattern CountIsWitnessed
SYMMETRY Symmetry
CHECK_DEADLOCK FALSE
