----------------------------- MODULE Incidents ------------------------------
(***************************************************************************)
(* The incident database of the evolution engine (evolution.py): gate runs *)
(* record incidents, count the recurring ones into patterns and save a     *)
(* candidate rule for each; every start first migrates what an earlier     *)
(* version left, whose patterns did not say which actions they are about.  *)
(*                                                                         *)
(* Any number of processes use one SQLite file.  A transaction is a step;  *)
(* a SELECT outside one is a step of its own, and what it returned may be  *)
(* stale when the process writes.  A process may die between two steps.    *)
(*                                                                         *)
(* The incidents are those of one resource type and one risk: a pattern's  *)
(* hash is then an action list, or Broad, the hash without actions.  Rows  *)
(* of other types share only the numbering of the rows.                    *)
(***************************************************************************)
EXTENDS Naturals, Sequences, FiniteSets, FiniteSetsExt, SequencesExt

CONSTANTS
    Process,
    Actions,       \* canonical action lists a rule can be generated for
    Broad,         \* the hash of an incident without actions
    MinIncidents,  \* incidents that make a pattern recurring
    MaxLegacy,     \* bound: incidents of a kind left by the old version
    MaxIncidents,  \* bound: incident rows
    MaxGates       \* bound: gate runs

Hash == Actions \union {Broad}

ASSUME IncidentsAssumption ==
    /\ IsFiniteSet(Actions)
    /\ Broad \notin Actions
    /\ {MinIncidents, MaxLegacy, MaxIncidents, MaxGates} \subseteq Nat
    /\ MinIncidents > 0

\* A process is at one of these steps, or writes the pattern of a hash.
Starting == {"absent", "migrate", "look", "split"}
Step == Starting \union {"ready", "record", "find", "save"}
ASSUME StepAssumption == Step \intersect Hash = {}

\* The two columns of an incident that matter: the actions stored with it
\* (Broad: none) and its pattern hash, which the old version left Broad.
Kind == {k \in [actions: Hash, hash: Hash] : k.hash \in {k.actions, Broad}}
Qualified(a) == [actions |-> a, hash |-> a]
Legacy(a) == [actions |-> a, hash |-> Broad]

Live == {"pr-ready", "approved"}
Status == Live \union {"pending", "disabled"}

VARIABLES
    incidents,  \* for each kind of incident, how many rows there are
    patterns,   \* the pattern rows, by row id
    catalog,    \* rules_catalog, in the order of its row ids
    proc,       \* what each process is doing
    gates,      \* gate runs begun
    opened      \* history: some start has completed

vars == <<incidents, patterns, catalog, proc, gates, opened>>

Total(P(_)) == MapThenSumSet(LAMBDA k : incidents[k], {k \in Kind : P(k)})
Count(h) == Total(LAMBDA k : k.hash = h)
Recorded(a) == Total(LAMBDA k : k.actions = a)

RowsOf(rows, h) == {i \in DOMAIN rows : rows[i].hash = h}
\* An INTEGER PRIMARY KEY: one more than the largest id in use, so that the
\* id of a deleted row is given again.
NextId(rows) == IF DOMAIN rows = {} THEN 1 ELSE Max(DOMAIN rows) + 1
Row(h, n, s) == [hash |-> h, count |-> n, status |-> s]
\* Rows inserted one after the other, with consecutive ids.
Insert(rows, new) ==
    LET n == NextId(rows) IN
    [j \in DOMAIN rows \union n..(n + Len(new) - 1) |->
        IF j < n THEN rows[j] ELSE new[j - n + 1]]
Without(rows, i) == [j \in DOMAIN rows \ {i} |-> rows[j]]

Absent == [pc |-> "absent", legacy |-> 0, found |-> <<>>, todo |-> {}, exists |-> FALSE]
Ready == [Absent EXCEPT !.pc = "ready"]

\* A database of the old version: incidents with actions but without them in
\* their hash, counted into one pattern, whose rule may be in any state.
Init ==
    /\ incidents \in {f \in [Kind -> 0..MaxLegacy] : \A a \in Actions : f[Qualified(a)] = 0}
    /\ \/ patterns = <<>> /\ catalog = <<>>
       \/ /\ Count(Broad) >= MinIncidents
          /\ \E s \in Status :
               /\ patterns = <<Row(Broad, Count(Broad), s)>>
               /\ catalog = IF s = "pending" THEN <<>>
                            ELSE <<[pattern |-> 1, code |-> Broad, status |-> s]>>
    /\ proc = [p \in Process |-> Absent]
    /\ gates = 0
    /\ opened = FALSE

(***************************************************************************)
(* Starting: _init_db and _migrate_legacy_pattern_hashes.                  *)
(***************************************************************************)
\* Fault: incidents are migrated only where they had been counted into a pattern.
Migratable_WithPattern ==
    {a \in Actions : incidents[Legacy(a)] > 0 /\ RowsOf(patterns, Broad) # {}}

Migratable == {a \in Actions : incidents[Legacy(a)] > 0}

Migrated ==
    [k \in Kind |->
        IF k.actions \notin Actions THEN incidents[k]
        ELSE IF k.hash = Broad THEN 0 ELSE Recorded(k.actions)]

\* The incidents are read outside a transaction; the first UPDATE begins it.
ReadIncidents(p) ==
    /\ proc[p].pc = "absent"
    /\ proc' = [proc EXCEPT ![p].pc = IF Migratable = {} THEN "look" ELSE "migrate"]
    /\ UNCHANGED <<incidents, patterns, catalog, gates, opened>>

\* Fault: the legacy pattern keeps its status.
Disable_Nothing(rows, i) ==
    rows

Disable(rows, i) ==
    IF i \in DOMAIN rows THEN [rows EXCEPT ![i].status = "disabled"] ELSE rows

\* Fault: only proposed rules are disabled, approved ones are not.
DisableRules_Proposed(rules, i) ==
    [r \in DOMAIN rules |->
        IF rules[r].pattern = i /\ rules[r].status = "pr-ready"
        THEN [rules[r] EXCEPT !.status = "disabled"] ELSE rules[r]]

DisableRules(rules, i) ==
    [r \in DOMAIN rules |->
        IF rules[r].pattern = i THEN [rules[r] EXCEPT !.status = "disabled"] ELSE rules[r]]

Inherit(rules, i, owner) ==
    [r \in DOMAIN rules |->
        IF rules[r].pattern = i THEN [rules[r] EXCEPT !.pattern = owner] ELSE rules[r]]

\* The first action list takes over the legacy row, if it has no row and the
\* legacy row is still there.
Reuse(rows, i, first, counts) ==
    IF RowsOf(rows, first) = {} /\ i \in DOMAIN rows
    THEN [rows EXCEPT ![i] = Row(first, counts[Qualified(first)], "pending")]
    ELSE rows

\* Each other list without a row gets one of its own, in order.
Regroup(rows, order, counts) ==
    Insert(rows, [k \in DOMAIN order |->
                    Row(order[k], counts[Qualified(order[k])], "pending")])

\* The rest of the transaction, for the legacy row with id i, with the
\* incidents counted as of now: its rule is disabled, and it is split by
\* actions.  When the first list had a row already, that one inherits the
\* rules of the legacy row, and the legacy row is deleted.
Split(i, counts) ==
    LET disabled == Disable(patterns, i)
        rules == DisableRules(catalog, i)
        groups == {a \in Actions : counts[Qualified(a)] > 0}
    IN  IF groups = {} THEN patterns' = disabled /\ catalog' = rules
        ELSE \E first \in groups :
               LET reused == Reuse(disabled, i, first, counts)
                   owners == RowsOf(disabled, first) \ {i}
                   missing == {a \in groups \ {first} : RowsOf(reused, a) = {}}
               IN  \E order \in SetToSeqs(missing) :
                     IF owners = {}
                     THEN patterns' = Regroup(reused, order, counts) /\ catalog' = rules
                     ELSE /\ patterns' = Without(Regroup(reused, order, counts), i)
                          /\ catalog' = Inherit(rules, i, CHOOSE o \in owners : TRUE)

Opened(p) == proc' = [proc EXCEPT ![p] = Ready] /\ opened' = TRUE

\* Incidents were found to migrate: they and the patterns, in one transaction.
Migrate(p) ==
    /\ proc[p].pc = "migrate"
    /\ incidents' = Migrated
    /\ IF RowsOf(patterns, Broad) = {} THEN UNCHANGED <<patterns, catalog>>
       ELSE \E i \in RowsOf(patterns, Broad) : Split(i, Migrated)
    /\ Opened(p)
    /\ UNCHANGED gates

\* None was found, so no transaction is open when the patterns are read.
ReadPatterns(p) ==
    /\ proc[p].pc = "look"
    /\ IF RowsOf(patterns, Broad) = {} THEN Opened(p)
       ELSE /\ \E i \in RowsOf(patterns, Broad) :
                  proc' = [proc EXCEPT ![p].pc = "split", ![p].legacy = i]
            /\ UNCHANGED opened
    /\ UNCHANGED <<incidents, patterns, catalog, gates>>

SplitRead(p) ==
    /\ proc[p].pc = "split"
    /\ Split(proc[p].legacy, incidents)
    /\ Opened(p)
    /\ UNCHANGED <<incidents, gates>>

(***************************************************************************)
(* A gate run: run_full_evolution_loop.                                    *)
(***************************************************************************)
RecordRun(p) ==
    /\ proc[p].pc = "ready" /\ gates < MaxGates
    /\ gates' = gates + 1
    /\ proc' = [proc EXCEPT ![p].pc = "record"]
    /\ UNCHANGED <<incidents, patterns, catalog, opened>>

\* One row and one transaction for each risky change; a change without
\* actions has the hash of the old version.
RecordIncident(p) ==
    /\ proc[p].pc = "record"
    /\ \E a \in Hash :
         /\ Total(LAMBDA k : TRUE) < MaxIncidents
         /\ incidents' = [incidents EXCEPT ![Qualified(a)] = @ + 1]
    /\ UNCHANGED <<patterns, catalog, proc, gates, opened>>

\* analyze_incidents reads the recurring hashes with their counts ...
CountIncidents(p) ==
    /\ proc[p].pc = "record"
    /\ LET recurring == {h \in Hash : Count(h) >= MinIncidents} IN
       proc' = [proc EXCEPT ![p] = [@ EXCEPT
                  !.pc = "find", !.found = [h \in recurring |-> Count(h)], !.todo = recurring]]
    /\ UNCHANGED <<incidents, patterns, catalog, gates, opened>>

\* ... and for each of them looks for its row ...
FindPattern(p, h) ==
    /\ proc[p].pc = "find" /\ h \in proc[p].todo
    /\ proc' = [proc EXCEPT ![p] = [@ EXCEPT
                  !.pc = h, !.exists = RowsOf(patterns, h) # {}]]
    /\ UNCHANGED <<incidents, patterns, catalog, gates, opened>>

\* Fault: an existing pattern's count is increased by the number counted.
WritePattern_Accumulates(p, h) ==
    /\ proc[p].pc = h
    /\ patterns' = IF proc[p].exists
                   THEN [i \in DOMAIN patterns |->
                           IF patterns[i].hash # h THEN patterns[i]
                           ELSE [patterns[i] EXCEPT !.count = @ + proc[p].found[h]]]
                   ELSE Insert(patterns, <<Row(h, proc[p].found[h], "pending")>>)
    /\ proc' = [proc EXCEPT ![p].pc = "find", ![p].todo = @ \ {h}]
    /\ UNCHANGED <<incidents, catalog, gates, opened>>

\* ... to update its count, or to insert it.  By then another process may have
\* deleted the row, and the UPDATE changes nothing, or inserted it.
WritePattern(p, h) ==
    /\ proc[p].pc = h
    /\ proc[p].exists \/ RowsOf(patterns, h) = {}
    /\ patterns' = IF proc[p].exists
                   THEN [i \in DOMAIN patterns |->
                           IF patterns[i].hash # h THEN patterns[i]
                           ELSE [patterns[i] EXCEPT !.count = proc[p].found[h]]]
                   ELSE Insert(patterns, <<Row(h, proc[p].found[h], "pending")>>)
    /\ proc' = [proc EXCEPT ![p].pc = "find", ![p].todo = @ \ {h}]
    /\ UNCHANGED <<incidents, catalog, gates, opened>>

\* UNIQUE refuses the second row: the gate run fails with its incidents recorded.
InsertFails(p, h) ==
    /\ proc[p].pc = h
    /\ ~proc[p].exists /\ RowsOf(patterns, h) # {}
    /\ proc' = [proc EXCEPT ![p] = Ready]
    /\ UNCHANGED <<incidents, patterns, catalog, gates, opened>>

\* Candidates are made for the recurring hashes that name their actions.
AnalyzeWithAgents(p) ==
    /\ proc[p].pc = "find" /\ proc[p].todo = {}
    /\ proc' = [proc EXCEPT ![p].pc = "save", ![p].todo = DOMAIN proc[p].found \ {Broad}]
    /\ UNCHANGED <<incidents, patterns, catalog, gates, opened>>

\* A score of 70 proposes the rule; the catalog gets a new row, if the
\* pattern's row is still there.
SaveEvolvedRule(p, h, s) ==
    /\ proc[p].pc = "save" /\ h \in proc[p].todo
    /\ LET rows == RowsOf(patterns, h) IN
       IF rows = {} THEN UNCHANGED <<patterns, catalog>>
       ELSE \E i \in rows :
              /\ patterns' = [patterns EXCEPT ![i].status = s]
              /\ catalog' = Append(catalog, [pattern |-> i, code |-> h, status |-> s])
    /\ proc' = [proc EXCEPT ![p].todo = @ \ {h}]
    /\ UNCHANGED <<incidents, gates, opened>>

Finish(p) ==
    /\ proc[p].pc = "save" /\ proc[p].todo = {}
    /\ proc' = [proc EXCEPT ![p] = Ready]
    /\ UNCHANGED <<incidents, patterns, catalog, gates, opened>>

\* The transaction of approve_rule (RuleApproval has the rest of it): the
\* pattern and its latest rule go from pr-ready to approved together.
ApproveRule(h) ==
    \E i \in RowsOf(patterns, h) :
        LET rules == {r \in DOMAIN catalog : catalog[r].pattern = i} IN
        /\ h # Broad
        /\ patterns[i].status = "pr-ready"
        /\ rules # {} /\ catalog[Max(rules)].status = "pr-ready"
        /\ patterns' = [patterns EXCEPT ![i].status = "approved"]
        /\ catalog' = [catalog EXCEPT ![Max(rules)].status = "approved"]
        /\ UNCHANGED <<incidents, proc, gates, opened>>

\* A process dies; what it had not committed is lost, and it may start again.
Die(p) ==
    /\ proc[p].pc # "absent"
    /\ proc' = [proc EXCEPT ![p] = Absent]
    /\ UNCHANGED <<incidents, patterns, catalog, gates, opened>>

Next ==
    \/ \E p \in Process :
         \/ ReadIncidents(p) \/ Migrate(p) \/ ReadPatterns(p) \/ SplitRead(p)
         \/ RecordRun(p) \/ RecordIncident(p) \/ CountIncidents(p)
         \/ AnalyzeWithAgents(p) \/ Finish(p) \/ Die(p)
         \/ \E h \in Hash : FindPattern(p, h) \/ WritePattern(p, h) \/ InsertFails(p, h)
         \/ \E h \in Actions, s \in {"pr-ready", "disabled"} : SaveEvolvedRule(p, h, s)
    \/ \E h \in Hash : ApproveRule(h)

Spec == Init /\ [][Next]_vars

(***************************************************************************)
(* Properties.                                                             *)
(***************************************************************************)
\* The type invariant.  The rows of both tables keep the columns of the schema,
\* and a process writes, or makes a candidate for, only what it has counted.
Doing(counted) ==
    [pc: Step \union counted, legacy: Nat, found: [counted -> Nat],
     todo: SUBSET counted, exists: BOOLEAN]

TypeOK ==
    /\ incidents \in [Kind -> Nat]
    /\ \A i \in DOMAIN patterns :
          i \in Nat \ {0} /\ patterns[i] \in [hash: Hash, count: Nat, status: Status]
    /\ catalog \in Seq([pattern: Nat, code: Hash, status: Status])
    /\ proc = [p \in Process |-> proc[p]]
    /\ \A p \in Process : \E counted \in SUBSET Hash : proc[p] \in Doing(counted)
    /\ gates \in 0..MaxGates
    /\ opened \in BOOLEAN

\* Once any process has started, no rule made for a hash without actions is
\* proposed or approved, and none ever is again: the quarantine of the
\* migration holds against processes that read the database before it.
LegacyQuarantined ==
    opened =>
        /\ \A i \in RowsOf(patterns, Broad) : patterns[i].status \notin Live
        /\ \A r \in DOMAIN catalog : catalog[r].code = Broad => catalog[r].status \notin Live

\* A proposed or approved rule hangs on a pattern with the hash it was made
\* for, although rows are renamed and deleted and their ids given again.
LiveRuleHasItsPattern ==
    \A r \in DOMAIN catalog :
        catalog[r].status \in Live =>
            /\ catalog[r].pattern \in DOMAIN patterns
            /\ patterns[catalog[r].pattern].hash = catalog[r].code

\* A pattern never claims more incidents than were recorded with its hash,
\* whichever of two stale counts is written last.
CountIsWitnessed ==
    opened => \A i \in DOMAIN patterns : patterns[i].count <= Count(patterns[i].hash)
=============================================================================
