---------------------------- MODULE RuleApproval ----------------------------
(***************************************************************************)
(* Candidate generation, explicit approval and loading of evolved rules    *)
(* (src/src/readtheplan/evolution.py and rules/_shared.py).                *)
(*                                                                         *)
(* Three kinds of processes share one data directory:                      *)
(*   - loops (gate runs in self-improving mode) write candidate artifacts  *)
(*     under candidates/<rule id> and record their status in SQLite;       *)
(*   - approvers (`readtheplan evolve approve`) hold the approval lock,    *)
(*     move the database to "approved" and then publish the rule file and  *)
(*     the manifest, undoing the database when a write fails;              *)
(*   - loaders (every readtheplan process) take no lock and execute what   *)
(*     the manifest lists.                                                 *)
(* Each action is one database transaction, one atomic file replacement or *)
(* one file read.  The text of a generated rule is a function of its       *)
(* pattern, so the pattern itself stands for the bytes of rule.py and      *)
(* test_rule.py, and for their SHA-256.                                    *)
(***************************************************************************)
EXTENDS Integers, Sequences

CONSTANTS
    Pattern,    \* pattern hashes: (resource type, risk, actions)
    RuleId,     \* path-safe candidate names
    RuleIdOf,   \* the rule id a pattern normalises to
    Score,      \* scores a verified candidate can have
    Loop,       \* processes running the evolution loop
    Approver,   \* processes running `evolve approve`
    Loader,     \* processes that load approved rules
    None,       \* an absent file, record or value
    MaxRuns,    \* bound: candidates generated
    MaxCalls,   \* bound: approve calls
    MaxLoopFaults,  \* bound: loop processes that die or fail on a write
    MaxWriteFaults, \* bound: approver writes that raise
    MaxDeaths   \* bound: approvers that die, or cannot use the database

Status == {"absent", "pending", "disabled", "pr-ready", "approved"}

\* candidate.json: what the loop recorded about the artifacts it wrote.
Metadata == [pattern: Pattern, score: Score \union {0}, verified: BOOLEAN,
             status: {"pr-ready", "disabled"},
             rule: Pattern, test: Pattern]

\* A manifest record: the allowed digest and the pattern it came from.
Record == [sha: Pattern, pattern: Pattern]

\* A row of rules_catalog; its rule_code is its pattern's text.
CatalogRow == [status: Status, score: Score \union {0}]

ASSUME RuleIdOfAssumption == RuleIdOf \in [Pattern -> RuleId]
ASSUME ScoreAssumption == Score \subseteq 70..100
ASSUME NoneAssumption ==
    None \notin Pattern \union RuleId \union Approver \union Metadata \union Record
ASSUME BoundAssumption ==
    /\ MaxRuns \in Nat /\ MaxCalls \in Nat
    /\ MaxLoopFaults \in Nat /\ MaxWriteFaults \in Nat /\ MaxDeaths \in Nat

VARIABLES
    row,        \* patterns table: [status, score] per pattern
    catalog,    \* rules_catalog rows per pattern, oldest first
    candRule,   \* candidates/<id>/rule.py
    candTest,   \* candidates/<id>/test_rule.py
    candMeta,   \* candidates/<id>/candidate.json
    lock,       \* holder of the approval lock
    approvedFile,   \* approved-rules/<id>.py
    manifest,   \* approved-rules/manifest.json
    loop,       \* local state of each loop
    appr,       \* local state of each approve call
    ldr,        \* local state and registry of each loader
    validated,  \* history: <<id, bytes>> that passed candidate verification
    alone,      \* history: loops in whose candidate no other has written since
    whole,      \* history: patterns whose candidate one such loop wrote to the end
    spent       \* budget used: generated candidates, calls, faults

dbVars == <<row, catalog>>
candVars == <<candRule, candTest, candMeta>>
storeVars == <<approvedFile, manifest>>
history == <<validated, alone, whole>>
vars == <<dbVars, candVars, lock, storeVars, loop, appr, ldr, history, spent>>

LoopAt(pc, p, score) ==
    [pc |-> pc, pat |-> p, score |-> score, ok |-> FALSE,
     rule |-> None, test |-> None]
LoopIdle == LoopAt("idle", None, 0)

CallAt(pc, rid, outcome) ==
    [pc |-> pc, rid |-> rid, meta |-> None, rule |-> None,
     man |-> None, mine |-> FALSE, outcome |-> outcome]
ApprIdle(outcome) == CallAt("idle", None, outcome)

Init ==
    /\ row = [p \in Pattern |-> [status |-> "absent", score |-> 0]]
    /\ catalog = [p \in Pattern |-> <<>>]
    /\ candRule = [r \in RuleId |-> None]
    /\ candTest = [r \in RuleId |-> None]
    /\ candMeta = [r \in RuleId |-> None]
    /\ lock = None
    /\ approvedFile = [r \in RuleId |-> None]
    /\ manifest = [r \in RuleId |-> None]
    /\ loop = [l \in Loop |-> LoopIdle]
    /\ appr = [a \in Approver |-> ApprIdle("none")]
    /\ ldr = [d \in Loader |->
                [man |-> manifest, todo |-> {}, loaded |-> {}]]
    /\ validated = {} /\ alone = {} /\ whole = {}
    /\ spent = [runs |-> 0, calls |-> 0, loopFaults |-> 0,
              writeFaults |-> 0, deaths |-> 0]

-----------------------------------------------------------------------------
(* The evolution loop: one candidate of analyze_with_agents                *)

\* analyze_incidents inserts the row of a pattern that crossed the threshold.
Detect(p) ==
    /\ row[p].status = "absent"
    /\ row' = [row EXCEPT ![p].status = "pending"]
    /\ UNCHANGED <<catalog, candVars, lock, storeVars, loop, appr, ldr,
                   history, spent>>

\* The score of a verified candidate follows from the pattern's risk and
\* from the incident count this run read.
BeginCandidate(l) ==
    /\ loop[l].pc = "idle"
    /\ spent.runs < MaxRuns
    /\ \E p \in Pattern, s \in Score :
         /\ row[p].status # "absent"
         /\ loop' = [loop EXCEPT ![l] = LoopAt("rule", p, s)]
    /\ spent' = [spent EXCEPT !.runs = @ + 1]
    /\ UNCHANGED <<dbVars, candVars, lock, storeVars, appr, ldr, history>>

\* What is left of the histories when l writes: nothing that has its rule id.
OthersAlone(l) == {m \in alone \ {l} : RuleIdOf[loop[m].pat] # RuleIdOf[loop[l].pat]}
OthersWhole(l) == {p \in whole : RuleIdOf[p] # RuleIdOf[loop[l].pat]}

WriteRule(l) ==
    /\ loop[l].pc = "rule"
    /\ alone' = OthersAlone(l) \union {l}
    /\ whole' = OthersWhole(l)
    /\ candRule' = [candRule EXCEPT ![RuleIdOf[loop[l].pat]] = loop[l].pat]
    /\ loop' = [loop EXCEPT ![l].pc = "test"]
    /\ UNCHANGED <<dbVars, candTest, candMeta, lock, storeVars, appr, ldr,
                   validated, spent>>

WriteTest(l) ==
    /\ loop[l].pc = "test"
    /\ alone' = OthersAlone(l) \union (alone \intersect {l})
    /\ whole' = OthersWhole(l)
    /\ candTest' = [candTest EXCEPT ![RuleIdOf[loop[l].pat]] = loop[l].pat]
    /\ loop' = [loop EXCEPT ![l].pc = "verify"]
    /\ UNCHANGED <<dbVars, candRule, candMeta, lock, storeVars, appr, ldr,
                   validated, spent>>

\* Fault: the candidate is taken as verified without being executed.
Verify_Skipped(l) ==
    /\ loop[l].pc = "verify"
    /\ loop' = [loop EXCEPT ![l].pc = "save", ![l].ok = TRUE]
    /\ UNCHANGED <<dbVars, candVars, lock, storeVars, appr, ldr, history, spent>>

\* The file is read back and executed; a failure scores the candidate 0.
Verify(l) ==
    LET r == RuleIdOf[loop[l].pat] IN
    /\ loop[l].pc = "verify"
    /\ \/ /\ loop' = [loop EXCEPT ![l].pc = "save", ![l].ok = TRUE]
          /\ validated' = validated \union {<<r, candRule[r]>>}
       \/ /\ loop' = [loop EXCEPT ![l].pc = "save", ![l].score = 0]
          /\ UNCHANGED validated
    /\ UNCHANGED <<dbVars, candVars, lock, storeVars, appr, ldr, alone, whole,
                   spent>>

EvolveDecision(score) == IF score >= 70 THEN "pr-ready" ELSE "disabled"

\* Fault: an approved status survives whatever the new verification says.
SaveEvolvedRule_KeepsApproved(l) ==
    LET p == loop[l].pat
        saved == [status |-> IF row[p].status = "approved" THEN "approved"
                               ELSE EvolveDecision(loop[l].score),
                  score |-> loop[l].score]
    IN
    /\ loop[l].pc = "save"
    /\ alone' = OthersAlone(l) \union (alone \intersect {l})
    /\ whole' = OthersWhole(l)
    /\ row' = [row EXCEPT ![p] = saved]
    /\ catalog' = [catalog EXCEPT ![p] = Append(@, saved)]
    /\ loop' = [loop EXCEPT ![l].pc = "hashRule"]
    /\ UNCHANGED <<candVars, lock, storeVars, appr, ldr, validated, spent>>

\* _save_evolved_rule: overwrites the pattern's status, whatever it was, and
\* appends a catalog row, in one transaction.
SaveEvolvedRule(l) ==
    LET p == loop[l].pat
        saved == [status |-> EvolveDecision(loop[l].score),
                  score |-> loop[l].score]
    IN
    /\ loop[l].pc = "save"
    /\ alone' = OthersAlone(l) \union (alone \intersect {l})
    /\ whole' = OthersWhole(l)
    /\ row' = [row EXCEPT ![p] = saved]
    /\ catalog' = [catalog EXCEPT ![p] = Append(@, saved)]
    /\ loop' = [loop EXCEPT ![l].pc = "hashRule"]
    /\ UNCHANGED <<candVars, lock, storeVars, appr, ldr, validated, spent>>

\* The digests in candidate.json come from reading the files again.
HashRule(l) ==
    /\ loop[l].pc = "hashRule"
    /\ loop' = [loop EXCEPT ![l].pc = "hashTest",
                            ![l].rule = candRule[RuleIdOf[loop[l].pat]]]
    /\ UNCHANGED <<dbVars, candVars, lock, storeVars, appr, ldr, history, spent>>

HashTest(l) ==
    /\ loop[l].pc = "hashTest"
    /\ loop' = [loop EXCEPT ![l].pc = "meta",
                            ![l].test = candTest[RuleIdOf[loop[l].pat]]]
    /\ UNCHANGED <<dbVars, candVars, lock, storeVars, appr, ldr, history, spent>>

WriteMetadata(l) ==
    LET c == loop[l] IN
    /\ c.pc = "meta"
    /\ alone' = OthersAlone(l)
    /\ whole' = OthersWhole(l) \union IF l \in alone THEN {c.pat} ELSE {}
    /\ candMeta' = [candMeta EXCEPT ![RuleIdOf[c.pat]] =
                      [pattern |-> c.pat, score |-> c.score, verified |-> c.ok,
                       status |-> EvolveDecision(c.score),
                       rule |-> c.rule, test |-> c.test]]
    /\ loop' = [loop EXCEPT ![l] = LoopIdle]
    /\ UNCHANGED <<dbVars, candRule, candTest, lock, storeVars, appr, ldr,
                   validated, spent>>

\* A write or transaction of the loop raises, or the process dies.
LoopFails(l) ==
    /\ loop[l].pc # "idle"
    /\ spent.loopFaults < MaxLoopFaults
    /\ spent' = [spent EXCEPT !.loopFaults = @ + 1]
    /\ loop' = [loop EXCEPT ![l] = LoopIdle]
    /\ alone' = alone \ {l}
    /\ UNCHANGED <<dbVars, candVars, lock, storeVars, appr, ldr, validated,
                   whole>>

LoopStep(l) ==
    \/ WriteRule(l) \/ WriteTest(l) \/ Verify(l) \/ SaveEvolvedRule(l)
    \/ HashRule(l) \/ HashTest(l) \/ WriteMetadata(l)

-----------------------------------------------------------------------------
(* approve_rule: the whole call runs under the approval lock               *)

Request(a) ==
    /\ appr[a].pc = "idle"
    /\ spent.calls < MaxCalls
    /\ spent' = [spent EXCEPT !.calls = @ + 1]
    /\ \E r \in RuleId :
         appr' = [appr EXCEPT ![a] = CallAt("lock", r, "none")]
    /\ UNCHANGED <<dbVars, candVars, lock, storeVars, loop, ldr, history>>

\* Fault: no lock between processes.
Acquire_NoWait(a) ==
    /\ appr[a].pc = "lock"
    /\ lock' = a
    /\ appr' = [appr EXCEPT ![a].pc = "metadata"]
    /\ UNCHANGED <<dbVars, candVars, storeVars, loop, ldr, history, spent>>

Acquire(a) ==
    /\ appr[a].pc = "lock"
    /\ lock = None
    /\ lock' = a
    /\ appr' = [appr EXCEPT ![a].pc = "metadata"]
    /\ UNCHANGED <<dbVars, candVars, storeVars, loop, ldr, history, spent>>

\* The call returns or raises: the lock is released on every path.
Return(a, outcome) ==
    /\ lock' = None
    /\ appr' = [appr EXCEPT ![a] = ApprIdle(outcome)]

Eligible(m) ==
    m # None /\ m.status = "pr-ready" /\ m.verified /\ m.score >= 70

\* Fault: the early exit of a rejected candidate keeps the lock.
ReadMetadata_KeepsLock(a) ==
    LET m == candMeta[appr[a].rid] IN
    /\ appr[a].pc = "metadata"
    /\ appr' = [appr EXCEPT ![a] =
         IF Eligible(m) THEN [@ EXCEPT !.pc = "rule", !.meta = m]
                        ELSE ApprIdle("rejected")]
    /\ UNCHANGED <<dbVars, candVars, lock, storeVars, loop, ldr, history, spent>>

ReadMetadata(a) ==
    LET m == candMeta[appr[a].rid] IN
    /\ appr[a].pc = "metadata"
    /\ \/ /\ Eligible(m)
          /\ appr' = [appr EXCEPT ![a].pc = "rule", ![a].meta = m]
          /\ UNCHANGED lock
       \/ ~Eligible(m) /\ Return(a, "rejected")
    /\ UNCHANGED <<dbVars, candVars, storeVars, loop, ldr, history, spent>>

ReadRule(a) ==
    /\ appr[a].pc = "rule"
    /\ appr' = [appr EXCEPT ![a].pc = "test", ![a].rule = candRule[appr[a].rid]]
    /\ UNCHANGED <<dbVars, candVars, lock, storeVars, loop, ldr, history, spent>>

\* "candidate artifacts changed after validation"
ReadTest(a) ==
    LET c == appr[a]
        intact == c.rule = c.meta.rule /\ candTest[c.rid] = c.meta.test
    IN
    /\ c.pc = "test"
    /\ \/ intact /\ appr' = [appr EXCEPT ![a].pc = "txn"] /\ UNCHANGED lock
       \/ ~intact /\ Return(a, "rejected")
    /\ UNCHANGED <<dbVars, candVars, storeVars, loop, ldr, history, spent>>

\* The database row approve_rule selects: the pattern joined with its latest
\* catalog row.
Latest(p) == catalog[p][Len(catalog[p])]
RowsAre(p, status) ==
    /\ catalog[p] # <<>>
    /\ row[p].status = status
    /\ Latest(p).status = status
SetRows(p, status) ==
    /\ row' = [row EXCEPT ![p].status = status]
    /\ catalog' = [catalog EXCEPT ![p] = [@ EXCEPT ![Len(@)].status = status]]

\* A record exists: success only if everything still agrees with it.
TxnAlreadyPublished(a) ==
    LET c == appr[a]
        rec == manifest[c.rid]
        agrees == /\ RowsAre(c.meta.pattern, "approved")
                  /\ rec = [sha |-> c.rule, pattern |-> c.meta.pattern]
                  /\ approvedFile[c.rid] = c.rule
    IN
    /\ c.pc = "txn"
    /\ rec # None
    /\ Return(a, IF agrees THEN "published" ELSE "conflict")
    /\ UNCHANGED <<dbVars, candVars, storeVars, loop, ldr, history, spent>>

\* Fault: the transition does not test the status it moves from.
TxnTransition_AnyStatus(a) ==
    LET c == appr[a] IN
    /\ c.pc = "txn"
    /\ manifest[c.rid] = None
    /\ SetRows(c.meta.pattern, "approved")
    /\ appr' = [appr EXCEPT ![a].pc = "file", ![a].mine = TRUE,
                            ![a].man = manifest]
    /\ UNCHANGED <<candVars, lock, storeVars, loop, ldr, history, spent>>

\* The candidate moves from pr-ready to approved in the database.
TxnTransition(a) ==
    LET c == appr[a] IN
    /\ c.pc = "txn"
    /\ manifest[c.rid] = None
    /\ RowsAre(c.meta.pattern, "pr-ready")
    /\ SetRows(c.meta.pattern, "approved")
    /\ appr' = [appr EXCEPT ![a].pc = "file", ![a].mine = TRUE,
                            ![a].man = manifest]
    /\ UNCHANGED <<candVars, lock, storeVars, loop, ldr, history, spent>>

\* The database is already approved but nothing was published: an earlier
\* call died.  The rows must hold exactly this candidate.
Provenance(c) ==
    LET p == c.meta.pattern IN
    /\ c.rule = p
    /\ row[p].score = c.meta.score
    /\ Latest(p).score = c.meta.score

TxnRepair(a) ==
    LET c == appr[a] IN
    /\ c.pc = "txn"
    /\ manifest[c.rid] = None
    /\ RowsAre(c.meta.pattern, "approved")
    /\ Provenance(c)
    /\ appr' = [appr EXCEPT ![a].pc = "file", ![a].man = manifest]
    /\ UNCHANGED <<dbVars, candVars, lock, storeVars, loop, ldr, history, spent>>

TxnRefuse(a) ==
    LET c == appr[a] IN
    /\ c.pc = "txn"
    /\ manifest[c.rid] = None
    /\ ~RowsAre(c.meta.pattern, "pr-ready")
    /\ ~(RowsAre(c.meta.pattern, "approved") /\ Provenance(c))
    /\ Return(a, "rejected")
    /\ UNCHANGED <<dbVars, candVars, storeVars, loop, ldr, history, spent>>

WriteApprovedFile(a) ==
    LET c == appr[a] IN
    /\ c.pc = "file"
    /\ approvedFile' = [approvedFile EXCEPT ![c.rid] = c.rule]
    /\ appr' = [appr EXCEPT ![a].pc = "manifest"]
    /\ UNCHANGED <<dbVars, candVars, lock, manifest, loop, ldr, history, spent>>

\* Fault: the new manifest holds this record only.
WriteManifest_Alone(a) ==
    LET c == appr[a] IN
    /\ c.pc = "manifest"
    /\ manifest' = [r \in RuleId |->
         IF r = c.rid THEN [sha |-> c.rule, pattern |-> c.meta.pattern] ELSE None]
    /\ Return(a, "published")
    /\ UNCHANGED <<dbVars, candVars, approvedFile, loop, ldr, history, spent>>

\* The manifest read in the transaction, plus this rule, replaces the file.
WriteManifest(a) ==
    LET c == appr[a] IN
    /\ c.pc = "manifest"
    /\ manifest' = [c.man EXCEPT ![c.rid] =
                      [sha |-> c.rule, pattern |-> c.meta.pattern]]
    /\ Return(a, "published")
    /\ UNCHANGED <<dbVars, candVars, approvedFile, loop, ldr, history, spent>>

\* One of the two replacements raises: the target is untouched and only the
\* call that moved the rows puts them back.
WriteFails(a) ==
    /\ appr[a].pc \in {"file", "manifest"}
    /\ spent.writeFaults < MaxWriteFaults
    /\ spent' = [spent EXCEPT !.writeFaults = @ + 1]
    /\ \/ /\ appr[a].mine
          /\ appr' = [appr EXCEPT ![a].pc = "undo"]
          /\ UNCHANGED lock
       \/ ~appr[a].mine /\ Return(a, "failed")
    /\ UNCHANGED <<dbVars, candVars, storeVars, loop, ldr, history>>

\* Fault: the rows stay approved when publication failed.
Compensate_Nothing(a) ==
    /\ appr[a].pc = "undo"
    /\ Return(a, "failed")
    /\ UNCHANGED <<dbVars, candVars, storeVars, loop, ldr, history, spent>>

Compensate(a) ==
    LET p == appr[a].meta.pattern IN
    /\ appr[a].pc = "undo"
    /\ row' = IF row[p].status = "approved"
                THEN [row EXCEPT ![p].status = "pr-ready"] ELSE row
    /\ catalog' = IF Latest(p).status = "approved"
                    THEN [catalog EXCEPT ![p] =
                            [@ EXCEPT ![Len(@)].status = "pr-ready"]]
                    ELSE catalog
    /\ Return(a, "failed")
    /\ UNCHANGED <<candVars, storeVars, loop, ldr, history, spent>>

\* The approver dies, its transaction is refused because the database is
\* busy, or its compensation fails and is swallowed: in each case the lock is
\* released and what was committed stays.
ApproverDies(a) ==
    /\ appr[a].pc # "idle"
    /\ spent.deaths < MaxDeaths
    /\ spent' = [spent EXCEPT !.deaths = @ + 1]
    /\ lock' = IF lock = a THEN None ELSE lock
    /\ appr' = [appr EXCEPT ![a] = ApprIdle("died")]
    /\ UNCHANGED <<dbVars, candVars, storeVars, loop, ldr, history>>

ApproveStep(a) ==
    \/ Acquire(a) \/ ReadMetadata(a) \/ ReadRule(a) \/ ReadTest(a)
    \/ TxnAlreadyPublished(a) \/ TxnTransition(a) \/ TxnRepair(a) \/ TxnRefuse(a)
    \/ WriteApprovedFile(a) \/ WriteManifest(a) \/ Compensate(a)

-----------------------------------------------------------------------------
(* load_approved_rules: lock-free                                          *)

\* Fault: every file of the approved directory is taken as allowed.
ReadManifest_Directory(d) ==
    LET found == [r \in RuleId |-> IF approvedFile[r] = None THEN None
                    ELSE [sha |-> approvedFile[r], pattern |-> approvedFile[r]]]
    IN
    /\ ldr[d].todo = {}
    /\ ldr' = [ldr EXCEPT ![d].man = found,
                          ![d].todo = {r \in RuleId : found[r] # None}]
    /\ UNCHANGED <<dbVars, candVars, lock, storeVars, loop, appr, history, spent>>

ReadManifest(d) ==
    /\ ldr[d].todo = {}
    /\ ldr' = [ldr EXCEPT ![d].man = manifest,
                          ![d].todo = {r \in RuleId : manifest[r] # None}]
    /\ UNCHANGED <<dbVars, candVars, lock, storeVars, loop, appr, history, spent>>

\* One record: skipped unless the file has the recorded digest; executed
\* (which may fail, and is then rolled back) unless it is loaded already.
LoadRule(d) ==
    \E r \in ldr[d].todo :
      LET bytes == approvedFile[r]
          listed == bytes # None /\ bytes = ldr[d].man[r].sha
      IN
      /\ \/ /\ listed
            /\ ldr' = [ldr EXCEPT ![d].todo = @ \ {r},
                                  ![d].loaded = @ \union {<<r, bytes>>}]
         \/ /\ ~listed \/ <<r, bytes>> \notin ldr[d].loaded
            /\ ldr' = [ldr EXCEPT ![d].todo = @ \ {r}]
      /\ UNCHANGED <<dbVars, candVars, lock, storeVars, loop, appr, history, spent>>

\* The process ends; the next one starts with an empty registry.
LoaderRestarts(d) ==
    /\ ldr' = [ldr EXCEPT ![d].todo = {}, ![d].loaded = {}]
    /\ UNCHANGED <<dbVars, candVars, lock, storeVars, loop, appr, history, spent>>

-----------------------------------------------------------------------------
Next ==
    \/ \E p \in Pattern : Detect(p)
    \/ \E l \in Loop : BeginCandidate(l) \/ LoopStep(l) \/ LoopFails(l)
    \/ \E a \in Approver :
         Request(a) \/ ApproveStep(a) \/ WriteFails(a) \/ ApproverDies(a)
    \/ \E d \in Loader : ReadManifest(d) \/ LoadRule(d) \/ LoaderRestarts(d)

Spec == Init /\ [][Next]_vars

\* Runs that check liveness assume that an approve call that can go on does:
\* it is straight-line code, and the lock it waits for is released on every
\* path.  Nothing is assumed of users, loops or loaders.
FairSpec == Spec /\ \A a \in Approver : WF_vars(ApproveStep(a))

-----------------------------------------------------------------------------
(* Properties                                                              *)

LoopPc == {"idle", "rule", "test", "verify", "save", "hashRule", "hashTest", "meta"}
HeldPc == {"metadata", "rule", "test", "txn", "file", "manifest", "undo"}
Bytes == Pattern \union {None}
Manifest == [RuleId -> Record \union {None}]

LoopState == [pc: LoopPc, pat: Bytes, score: Score \union {0}, ok: BOOLEAN,
              rule: Bytes, test: Bytes]
ApproverState ==
    [pc: HeldPc \union {"idle", "lock"}, rid: RuleId \union {None},
     meta: Metadata \union {None}, rule: Bytes, man: Manifest \union {None},
     mine: BOOLEAN,
     outcome: {"none", "published", "conflict", "rejected", "failed", "died"}]
LoaderState == [man: Manifest, todo: SUBSET RuleId,
                loaded: SUBSET (RuleId \X Pattern)]
Budget == [runs: Nat, calls: Nat, loopFaults: Nat, writeFaults: Nat, deaths: Nat]

\* The shape of every variable.
TypeOK ==
    /\ row \in [Pattern -> CatalogRow]
    /\ catalog \in [Pattern -> Seq(CatalogRow)]
    /\ candRule \in [RuleId -> Bytes]
    /\ candTest \in [RuleId -> Bytes]
    /\ candMeta \in [RuleId -> Metadata \union {None}]
    /\ lock \in Approver \union {None}
    /\ approvedFile \in [RuleId -> Bytes]
    /\ manifest \in Manifest
    /\ loop \in [Loop -> LoopState]
    /\ \A l \in Loop : loop[l].pc # "idle" => loop[l].pat \in Pattern
    /\ appr \in [Approver -> ApproverState]
    /\ ldr \in [Loader -> LoaderState]
    /\ validated \subseteq RuleId \X Pattern
    /\ alone \subseteq Loop /\ whole \subseteq Pattern
    /\ spent \in Budget

\* A rule listed in the manifest has its file in place with the listed digest,
\* whoever else was approving, failing or dying: the loader's hash check never
\* silently drops an approved rule (file written before manifest, both under
\* the lock).
PublishedFilesMatch ==
    \A r \in RuleId :
        manifest[r] # None => approvedFile[r] = manifest[r].sha

\* Concurrent approvals preserve each other's records: a record, once
\* published, is never dropped or rewritten by another call's replacement of
\* the whole manifest file.
RecordsKept ==
    [][\A r \in RuleId : manifest[r] # None => manifest'[r] = manifest[r]]_vars

\* Whatever a process has loaded, from a snapshot of the manifest taken at any
\* time, is allowed by the manifest of now with exactly those bytes.
LoadedIsAllowed ==
    \A d \in Loader : \A x \in ldr[d].loaded :
        manifest[x[1]] # None /\ manifest[x[1]].sha = x[2]

\* approve_rule "copies the exact validated bytes": every published digest is
\* of bytes that some verification executed under that rule id.
PublishedWasValidated ==
    \A r \in RuleId :
        manifest[r] # None => <<r, manifest[r].sha>> \in validated

\* The approved rule of p is in the manifest.
PublishedFor(p) ==
    LET r == RuleIdOf[p] IN manifest[r] # None /\ manifest[r].pattern = p
InFlight(p) ==
    \E a \in Approver :
        appr[a].pc \in {"file", "manifest", "undo"} /\ appr[a].meta.pattern = p

\* Failed writes are compensated: as long as no approver dies, a pattern is
\* "approved" in the database only if its rule is published or the call that
\* will publish it or undo the rows is still running.
ApprovedIsPublished ==
    spent.deaths = 0 =>
        \A p \in Pattern :
            row[p].status = "approved" => PublishedFor(p) \/ InFlight(p)

\* Crash residue can be repaired by calling again: if the database is approved and
\* nothing is published, the next call finds the candidate and the rows agree and goes on
\* to publish.  It is so of every candidate that one loop wrote from begin to end while no
\* other wrote there, whatever happened before and after (evolution.py 1009-1179).
RetryCanRepair ==
    \A p \in whole :
        LET r == RuleIdOf[p]
            m == candMeta[r]
        IN row[p].status = "approved" /\ manifest[r] = None =>
             /\ Eligible(m) /\ m.pattern = p
             /\ candRule[r] = m.rule /\ candTest[r] = m.test
             /\ RowsAre(p, "approved")
             /\ Provenance([meta |-> m, rule |-> candRule[r]])

\* The digests the manifest allows, and what each process has active: seen
\* this way, loops, locks, transactions, retries and faults are all steps that
\* change nothing, and the protocol is a write-once allow-list.
Allowed == [r \in RuleId |-> IF manifest[r] = None THEN None ELSE manifest[r].sha]
Active == [d \in Loader |-> ldr[d].loaded]
Promise == INSTANCE AllowList
             WITH Bytes <- Pattern, Process <- Loader,
                  allowed <- Allowed, active <- Active
ImplementsAllowList == Promise!Spec

\* Every approve call returns: waiting for the lock ends.
EveryCallReturns ==
    \A a \in Approver : appr[a].pc # "idle" ~> appr[a].pc = "idle"
=============================================================================
