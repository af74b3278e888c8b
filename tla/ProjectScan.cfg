\* A tree of one file for every row of the tables, which does not change, and
\* trees of up to three files with at most two changes.
SPECIFICATION Spec
CONSTANTS
    Trees <- TreesMC
    Contents <- ContentsMC
    PrefixBytes = 2
    MaxFiles = 2
    MaxFileBytes = 3
    Framework = "loads"
    MaxChanges = 2
CHECK_DEADLOCK FALSE
INVARIANTS ProceedMeansClear CopyIsMeasured FoundIsAnalysed FrontsAgree ToolsAgree
