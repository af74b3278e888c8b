\* Every type, action and pair of facts; two edits of manifests, and three
\* steps of a state and of a workload.
SPECIFICATION InputsSpec
CONSTANTS
    MaxLearnt <- MaxLearntMC
    MaxManifestEdits = 2
    MaxStateSteps = 3
    MaxWorkloadSteps = 3
    MaxPipelineSteps = 3
INVARIANTS
    BrowserNotLower
    AuditedAgree
    PlannersAgree
    ReportExplainsDiff
    
    WorkloadsAreReported
PROPERTY EscalationNeverLowers
CHECK_DEADLOCK FALSE
