---------------------------- MODULE ProjectScan ----------------------------
(***************************************************************************)
(* `readtheplan scan` (project_scan.py) and the MCP tool                   *)
(* agent_gate_project (mcp_server.py) over one working tree that changes   *)
(* under them.  The scan looks at a file, measures it, and reads it again  *)
(* to analyse it; the tool copies what it measured and analyses the copy.  *)
(*                                                                         *)
(* A tree is a sequence of files in the order they are walked: where each  *)
(* is (name, directories, what lies around it) and what can be read there. *)
(* Display order, per-file counters and the printed comment are left out;  *)
(* a framework that loads only adds checks.                                *)
(***************************************************************************)
EXTENDS Discovery, FrontEnds, Integers, FiniteSets, SequencesExt

CONSTANTS
    Trees,         \* trees the scans may start from
    Contents(_),   \* contents a change may put at a place
    MaxFiles,      \* --max-files
    MaxFileBytes,  \* --max-file-bytes
    Framework,     \* --framework: "none", "loads" or "fails"
    MaxChanges     \* bound on the changes of the tree

\* What there may be at a place, and how much of it.
IsContent(c) ==
    /\ c.kind \in {"file", "missing", "pipe", "link"}
    /\ c.readable \in BOOLEAN
    /\ c.size \in Nat

ASSUME LimitAssumption ==
    /\ MaxFiles \in Nat \ {0} /\ MaxFileBytes \in Nat \ {0} /\ MaxChanges \in Nat
    /\ Framework \in {"none", "loads", "fails"}

\* A tree is a sequence of entries, and a change leaves a file or nothing.
ASSUME TreesAssumption ==
    \A t \in Trees :
        /\ DOMAIN t = 1..Len(t) /\ Len(t) \in Nat
        /\ t = [k \in DOMAIN t |-> t[k]]
        /\ \A k \in DOMAIN t :
             /\ t[k] = [at |-> t[k].at, is |-> t[k].is]
             /\ IsContent(t[k].is)
             /\ \A c \in Contents(t[k].at) : IsContent(c) /\ c.kind \in {"file", "missing"}

VARIABLES
    tree,      \* for each file, the place it is at and what it is now
    scan,      \* one record for each front
    changes    \* changes of the tree so far

vars == <<tree, scan, changes>>

Fronts == {"cli", "mcp"}
Decisions == {"none", "proceed", "warn", "block"}

Nothing == [tool |-> "none"]

\* A framework that does not load ends either scan before it looks at the tree.
Init ==
    /\ tree \in Trees
    /\ scan = [f \in Fronts |->
                 [pc |-> IF Framework = "fails" THEN "failed" ELSE "walk", todo |-> {},
                  at |-> Nothing, found |-> <<>>, results |-> <<>>, errors |-> <<>>,
                  decision |-> "none"]]
    /\ changes = 0

(***************************************************************************)
(* Discovery                                                               *)
(***************************************************************************)
\* What the name tests and the content heuristics can tell of a file: its
\* surroundings ("marks") and the traits of its text ("looks").
FileAt(entry) ==
    [name |-> entry.at.name, suffix |-> entry.at.suffix, dirs |-> entry.at.dirs,
     marks |-> entry.at.marks, looks |-> entry.is.looks, size |-> entry.is.size]

\* Excluded directories are not entered and excluded files not listed; the
\* command tests a file's exclusion when it comes to it, to the same effect.
Walk(f) ==
    /\ scan[f].pc = "walk"
    /\ scan' = [scan EXCEPT
         ![f].pc = "look",
         ![f].todo = {k \in DOMAIN tree :
                         tree[k].is.kind # "missing" /\ ~tree[k].at.excluded}]
    /\ UNCHANGED <<tree, changes>>

\* Listed files are taken in the order of the walk.
First(todo) == CHOOSE k \in todo : \A j \in todo : k <= j

\* A file whose content cannot be read is known by its name or not at all.
CliTool(entry) ==
    LET byName == ToolByName(FileAt(entry), entry.is.readable)
    IN  IF entry.is.kind # "file" THEN "none"
        ELSE IF byName # "none" \/ ~entry.is.readable THEN byName
        ELSE ToolByContent(FileAt(entry))

\* Fault: links are followed.
McpTool_FollowsLinks(entry) == ToolByName(FileAt(entry), FALSE)

\* Names first, without reading; the content only of three suffixes.
McpTool(entry) ==
    LET byName == ToolByName(FileAt(entry), FALSE)
        withContent == ToolByName(FileAt(entry), TRUE)
        looksInside ==
            /\ entry.at.suffix \in McpHintSuffixes
            /\ entry.is.kind # "missing" /\ entry.is.readable
    IN  IF entry.is.kind = "link" THEN "none"
        ELSE IF byName # "none" \/ ~looksInside THEN byName
        ELSE IF withContent # "none" THEN withContent
        ELSE ToolByContent(FileAt(entry))

\* _read_confined_bytes refuses what is not a regular file, and the tool ends.
Refused(entry) ==
    /\ entry.is.kind = "pipe"
    /\ ToolByName(FileAt(entry), FALSE) # "none" \/ entry.at.suffix \in McpHintSuffixes

LookCli ==
    LET s == scan["cli"]
        p == First(s.todo)
        tool == CliTool(tree[p])
    IN  /\ s.pc = "look" /\ s.todo # {} /\ s.at = Nothing
        /\ scan' = IF tool = "none" THEN [scan EXCEPT !["cli"].todo = @ \ {p}]
                   ELSE [scan EXCEPT !["cli"].at = [tool |-> tool]]
        /\ UNCHANGED <<tree, changes>>

LookMcp ==
    LET s == scan["mcp"]
        p == First(s.todo)
        tool == McpTool(tree[p])
        fails == Refused(tree[p]) \/ (tool # "none" /\ Len(s.found) >= MaxFiles)
    IN  /\ s.pc = "look" /\ s.todo # {} /\ s.at = Nothing
        /\ scan' = IF fails THEN [scan EXCEPT !["mcp"].pc = "failed"]
                   ELSE IF tool = "none" THEN [scan EXCEPT !["mcp"].todo = @ \ {p}]
                   ELSE [scan EXCEPT !["mcp"].at = [tool |-> tool]]
        /\ UNCHANGED <<tree, changes>>

\* path.stat() after the file was identified.
Measure ==
    LET s == scan["cli"]
        p == First(s.todo)
        c == tree[p].is
        size == IF c.kind = "missing" THEN -1 ELSE c.size
        found == Append(s.found, [place |-> p, tool |-> s.at.tool, size |-> size, copy |-> c])
    IN  /\ s.pc = "look" /\ s.at # Nothing
        /\ scan' = [scan EXCEPT !["cli"] =
             [s EXCEPT !.found = found, !.todo = @ \ {p}, !.at = Nothing,
                       !.pc = IF Len(found) > MaxFiles THEN "failed" ELSE "look"]]
        /\ UNCHANGED <<tree, changes>>

\* What is read is what is measured and what is copied.  A pipe never gets here.
Copy ==
    LET s == scan["mcp"]
        p == First(s.todo)
        c == tree[p].is
        size == IF c.kind = "missing" \/ ~c.readable THEN -1
                ELSE IF c.size > MaxFileBytes THEN MaxFileBytes + 1 ELSE c.size
    IN  /\ s.pc = "look" /\ s.at # Nothing
        /\ scan' = [scan EXCEPT !["mcp"] =
             [s EXCEPT !.found = Append(@, [place |-> p, tool |-> s.at.tool,
                                            size |-> size, copy |-> c]),
                       !.todo = @ \ {p}, !.at = Nothing]]
        /\ UNCHANGED <<tree, changes>>

Discovered(f) ==
    /\ scan[f].pc = "look" /\ scan[f].todo = {} /\ scan[f].at = Nothing
    /\ scan' = [scan EXCEPT ![f].pc = "analyse"]
    /\ UNCHANGED <<tree, changes>>

(***************************************************************************)
(* Analysis                                                                *)
(***************************************************************************)
Analysed(f) == Len(scan[f].results) + Len(scan[f].errors)

\* Fault: the tool reads the file again too.
Input_ReadAgain(f, item) == tree[item.place].is

\* The command reads the file again; the tool gives it the copy.
Input(f, item) == IF f = "cli" THEN tree[item.place].is ELSE item.copy

\* Fault: every command is named like its tool.
CommandFor_SameName(tool) == tool

CommandFor(tool) == IF tool = "terraform" THEN "agent-gate" ELSE tool

ErrorCode(item, answer) ==
    IF item.size < 0 THEN "unreadable"
    ELSE IF item.size > MaxFileBytes THEN "file-too-large"
    ELSE IF answer.outcome # "gate" THEN "analysis-failed" ELSE "none"

Analyse(f) ==
    LET s == scan[f]
        item == s.found[Analysed(f) + 1]
        input == Input(f, item)
        answer == CliOutcome(CommandFor(item.tool), Framework, input)
        code == ErrorCode(item, answer)
        entry == [place |-> item.place, tool |-> item.tool, code |-> code, risk |-> answer.risk,
                  input |-> input]
    IN  /\ s.pc = "analyse" /\ Analysed(f) < Len(s.found)
        /\ scan' = IF code = "none" THEN [scan EXCEPT ![f].results = Append(@, entry)]
                   ELSE [scan EXCEPT ![f].errors = Append(@, entry)]
        /\ UNCHANGED <<tree, changes>>

RiskRank(risk) ==
    CASE risk = "safe" -> 0 [] risk = "review" -> 1 [] risk = "dangerous" -> 2 [] OTHER -> 3

\* Fault: errors do not count.
RanksHeard_Results(s) == { RiskRank(s.results[k].risk) : k \in DOMAIN s.results }

\* Each error counts as one change to review, whatever its reason.
RanksHeard(s) ==
    { RiskRank(s.results[k].risk) : k \in DOMAIN s.results }
      \union (IF s.errors = <<>> THEN {} ELSE {1})

DecisionFor(ranks) ==
    IF ranks \intersect {2, 3} # {} THEN "block" ELSE IF 1 \in ranks THEN "warn" ELSE "proceed"

\* A scan that discovers nothing says so instead of proceeding.
Aggregate(f) ==
    /\ scan[f].pc = "analyse" /\ Analysed(f) = Len(scan[f].found)
    /\ scan' = [scan EXCEPT
         ![f].pc = "done",
         ![f].decision = IF scan[f].found = <<>> THEN "warn" ELSE DecisionFor(RanksHeard(scan[f]))]
    /\ UNCHANGED <<tree, changes>>

(***************************************************************************)
(* The tree changes: a file is rewritten, removed or made unreadable.      *)
(***************************************************************************)
Change ==
    /\ changes < MaxChanges
    /\ \E p \in DOMAIN tree : \E c \in Contents(tree[p].at) :
           /\ tree[p].is.kind \in {"file", "missing"} /\ tree[p].is # c
           /\ tree' = [tree EXCEPT ![p].is = c]
    /\ changes' = changes + 1
    /\ UNCHANGED scan

ScanStep(f) == Walk(f) \/ Discovered(f) \/ Analyse(f) \/ Aggregate(f)

CliStep == ScanStep("cli") \/ LookCli \/ Measure
McpStep == ScanStep("mcp") \/ LookMcp \/ Copy

Next == CliStep \/ McpStep \/ Change

Spec == Init /\ [][Next]_vars

(***************************************************************************)
(* Properties                                                              *)
(***************************************************************************)
\* The type invariant of the scans.
TypeOK ==
    /\ \A f \in Fronts :
         /\ scan[f].pc \in {"walk", "look", "analyse", "done", "failed"}
         /\ scan[f].decision \in Decisions
         /\ scan[f].decision # "none" <=> scan[f].pc = "done"
         /\ \A k \in DOMAIN scan[f].found :
                scan[f].found[k].place \in DOMAIN tree /\ scan[f].found[k].tool \in Tools
         /\ Analysed(f) <= Len(scan[f].found)
         /\ Len(scan[f].found) <= IF f = "mcp" THEN MaxFiles ELSE MaxFiles + 1
    /\ changes \in 0..MaxChanges

\* A scan that proceeds has discovered something, and every input it has
\* discovered was recognised by its command, within the size limit, and found
\* safe: nothing that is removed, rewritten, unreadable or too large in between
\* can turn into silence (scan_discovered_inputs, aggregate_project_scan).
ProceedMeansClear ==
    \A f \in Fronts : scan[f].decision = "proceed" =>
        /\ scan[f].found # <<>>
        /\ \A k \in DOMAIN scan[f].found : \E j \in DOMAIN scan[f].results :
               LET found == scan[f].found[k]
                   result == scan[f].results[j]
               IN  /\ result.place = found.place /\ result.tool = found.tool
                   /\ result.risk = "safe" /\ result.input.verdict = "safe"
                   /\ found.size \in 0..MaxFileBytes

\* The MCP tool analyses what it measured: the size limit bounds what is
\* analysed and what is analysed was at that place during the scan, although
\* files change under it (agent_gate_project copies the bytes it read).
CopyIsMeasured ==
    \A k \in DOMAIN scan["mcp"].results :
        LET input == scan["mcp"].results[k].input
        IN  input.size <= MaxFileBytes /\ input.readable /\ input.kind = "file"

\* While nothing changes, an input whose content belongs to the tool it is sent
\* to is analysed: the commands, their handlers and the registry of adapters
\* know every tool that identify_project_input names, and none is taken by
\* another adapter.
FoundIsAnalysed ==
    changes = 0 => \A f \in Fronts : \A k \in DOMAIN scan[f].errors :
        LET e == scan[f].errors[k]
        IN  e.code = "analysis-failed" => ~(e.tool \in e.input.belongs)

\* The tests of its name come to the same whether or not they may read it.
NameTells(entry) ==
    ToolByName(FileAt(entry), FALSE) \in {"none", ToolByName(FileAt(entry), TRUE)}

\* While nothing changes, what the MCP scan finds the command line finds too,
\* for the same tool and with the same answer, but for the reason why a file that
\* cannot be read is an error (identify_project_input with and without
\* inspect_content).  Files that an earlier test of the content takes from a
\* later test of the name are excepted: the MCP tool skips the earlier one.
FrontsAgree ==
    (changes = 0 /\ \A f \in Fronts : scan[f].pc = "done") =>
        /\ \A r \in Range(scan["mcp"].results) :
               NameTells(tree[r.place]) => r \in Range(scan["cli"].results)
        /\ \A e \in Range(scan["mcp"].errors) :
               NameTells(tree[e.place]) =>
                   \E d \in Range(scan["cli"].errors) :
                       /\ d.place = e.place /\ d.tool = e.tool
                       /\ d = e \/ (e.code = "unreadable" /\ ~e.input.readable)

\* The MCP tool for one ecosystem and the command for it give the same risk of
\* a content, whenever both give one for a content the command recognises.
ToolsAgree ==
    \A f \in Fronts : \A k \in DOMAIN scan[f].results :
        LET r == scan[f].results[k]
            answer == McpOutcome(r.tool, Framework, r.input)
        IN  answer = Gives("gate", r.risk)

\* What a scan has heard: the ranks of its results, a review for its errors, and a
\* review for having discovered nothing.
Heard(s) ==
    RanksHeard(s)
      \union (IF s.pc \in {"analyse", "done"} /\ s.found = <<>> THEN {1} ELSE {})

CliCeiling == INSTANCE SeverityCeiling WITH
                  ranks <- Heard(scan["cli"]), decision <- scan["cli"].decision
McpCeiling == INSTANCE SeverityCeiling WITH
                  ranks <- Heard(scan["mcp"]), decision <- scan["mcp"].decision

\* Either front end decides as the gate does, by the highest of what it has heard
\* of its inputs, once, and whatever happens to the tree meanwhile
\* (aggregate_project_scan, agent_gate_project).
ImplementsCeiling == CliCeiling!Spec /\ McpCeiling!Spec
=============================================================================
