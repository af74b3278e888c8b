SPECIFICATION Spec
CONSTANTS
    w1 = w1
    w2 = w2
    hookPlugin = hookPlugin
    modulePlugin = modulePlugin
    Type = {t1}
    CrossCutting = cross
    Approved = {ap}
    Candidate = {cand}
    Plugin <- HookOnly
    Hook <- HookOnly
    Caller = {c1}
    Evaluator = {e1}
    Worker <- TwoWorkers
    Builtin = builtin
    None = None
    MaxExecs = 2
INVARIANTS CandidatesNeverRun SourceIsOwner ApprovedLoadedOnce
PROPERTY ImplementsAtomicRegistry
