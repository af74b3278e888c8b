\* Two concurrent runs, one edit.
SPECIFICATION Spec
CONSTANTS
    p1 = p1  p2 = p2  x = x  y = y  z = z  good = good  bad = bad
    agent = agent  blank = blank  alice = alice  bob = bob  r1 = r1  r2 = r2
    Run = {r1, r2}
    Plan = {p1, p2}
    Resources <- MCResources
    Plugin = {good, bad}
    Claims <- MCClaims
    Token = {good, agent}
    Options <- MCOptions
    Identity = {alice, bob}
    Builtin = Builtin
    Null = Null
    Missing = Missing
    MaxRuns = 2
    MaxEdits = 1
INVARIANTS VerifiedIsAuthentic HonestVerifies RunsAccountForFile
SYMMETRY Symmetry
