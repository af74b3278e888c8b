----------------------------- MODULE StateInput -----------------------------
(***************************************************************************)
(* A Terraform state, its two representations, and what the state adapter  *)
(* (adapters/terraform_state.py) reports of each: `terraform show -json',  *)
(* where a mask says which attributes are sensitive, and the raw snapshot, *)
(* where a list of paths does, of which the adapter reads those of bare    *)
(* keys and not those of step objects.  Values that are marked, or whose   *)
(* key sounds like a secret, should not reach the rules, which quote what  *)
(* they read.                                                              *)
(*                                                                         *)
(* The state changes by what Terraform does between two snapshots.         *)
(***************************************************************************)
EXTENDS RuleTables

CONSTANT MaxStateSteps     \* bound: steps between the first and the last snapshot

VARIABLE state

\* The leaves of an attribute tree: a key that sounds like a secret (_SECRET_KEY)
\* or not, at either level.
Keys == {"plain", "secret"}
Leaves == Keys \X Keys
Prefixes == Leaves \union {<<k>> : k \in Keys}

\* Fault: only the last key of a path is looked at.
SecretLike_Leaf(path) == path[Len(path)] = "secret"

SecretLike(path) == \E i \in DOMAIN path : path[i] = "secret"

\* Fault: a mark covers the attribute it names, not what is inside.
Covered_Exactly(path, marks) == path \in marks

\* _sensitivity_at, _path_is_sensitive: a mark covers what is below it.
Covered(path, marks) == path \in marks \/ SubSeq(path, 1, 1) \in marks

\* An instance of a resource is current or deposed, and may be tainted; `marks' is
\* what its provider declares sensitive; a database has postures.
Postures == {"public", "unencrypted", "unprotected"}

\* How the raw snapshot writes the path of a mark: the keys, or a step object for
\* each of them ({"type": "get_attr", "value": ...}).
PathForms == {"keys", "steps"}

NoState == [used |-> FALSE, instances |-> <<>>, paths |-> "keys", outputs |-> {},
            check |-> "pass", steps |-> 0]

\* Fault: of a path only a first key is read.
RawMarks_Outer(i, paths) == IF paths = "keys" THEN {m \in i.marks : Len(m) = 1} ELSE {}

\* _raw_sensitive_paths: a path is kept if every item of it is a key.
RawMarks(i, paths) == IF paths = "keys" THEN i.marks ELSE {}

\* The state as the adapter finds it in the raw snapshot.
AsRaw(s) ==
    [s EXCEPT !.instances = [k \in DOMAIN s.instances |->
        [s.instances[k] EXCEPT !.marks = RawMarks(s.instances[k], s.paths)]]]

\* The attributes a rule gets to see, with their values: the rest is redacted.
Shown(i) == {l \in i.values : ~Covered(l, i.marks) /\ ~SecretLike(l)}

UnmarkedSecrets(i) == {l \in i.values : SecretLike(l) /\ ~Covered(l, i.marks)}

Found(kind, risk) == [kind |-> kind, risk |-> risk]
When(condition, findings) == IF condition THEN findings ELSE {}

\* Fault: only what is reachable from outside is looked at.
CurrentPosture_Public(i) == When("public" \in i.posture, {Found("posture", "dangerous")})

\* _current_posture_changes reads the values before they are redacted.
CurrentPosture(i) ==
    {Found(w, IF w = "unprotected" THEN "review" ELSE "dangerous") : w \in i.posture}

\* Findings of one instance that both representations lead to.
InstanceFindings(i) ==
    {Found("managed_resource", "review")}
      \union CurrentPosture(i)
      \union When(UnmarkedSecrets(i) # {},
                  {Found("unmarked_sensitive_attribute", "dangerous")})
      \union When(i.marks # {}, {Found("sensitive_attributes", "review")})

\* An object that is deposed has the address of the one that took its place.
Duplicate(s) == Len(s.instances) > 1

OutputFindings(s) ==
    UNION { {Found(IF o.sensitive THEN "sensitive_output" ELSE "output", "review")}
              \union When(o.secret /\ ~o.sensitive,
                          {Found("unmarked_sensitive_output", "dangerous")}) : o \in s.outputs }

CommonFindings(s) ==
    {Found("state_snapshot", "review"), Found("state_boundary", "review")}
      \union OutputFindings(s)
      \union (UNION { InstanceFindings(s.instances[k]) : k \in DOMAIN s.instances })
      \union When(Duplicate(s), {Found("duplicate_resource_binding", "dangerous")})

\* Fault: what a check of an instance says is not looked at.
CheckFindings_Outer(s) == When(s.check = "unknown", {Found("unknown_check", "review")})

\* _check_changes: the worst status counts.
CheckFindings(s) ==
    When(s.check \in {"fail", "error"}, {Found("failed_check", "dangerous")})
      \union When(s.check = "unknown", {Found("unknown_check", "review")})

ShowFindings(s) == CommonFindings(s) \union CheckFindings(s)

\* Fault: an instance that is tainted is taken for any other.
RawInstanceFindings_Untainted(i) ==
    When(i.deposed, {Found("deposed_instance", "dangerous")})

RawInstanceFindings(i) ==
    When(i.tainted, {Found("tainted_instance", "dangerous")})
      \union When(i.deposed, {Found("deposed_instance", "dangerous")})

\* The raw snapshot's check results are not read.
RawFindings(s) ==
    CommonFindings(AsRaw(s)) \union {Found("unstable_raw_format", "review")}
      \union UNION { RawInstanceFindings(s.instances[k]) : k \in DOMAIN s.instances }

RiskOf(findings) == Highest({f.risk : f \in findings})

-----------------------------------------------------------------------------
\* What a provider declares: nothing, an attribute, or a whole block.
Schemas == {{}, {<<"plain", "secret">>}, {<<"secret">>}, {<<"plain">>, <<"secret">>}}

Fresh(marks, values) ==
    [marks |-> marks, values |-> values, posture |-> {}, tainted |-> FALSE,
     deposed |-> FALSE]

StateInit ==
    \E m \in Schemas, v \in SUBSET Leaves, p \in PathForms :
      state = [NoState EXCEPT !.used = TRUE, !.instances = <<Fresh(m, v)>>, !.paths = p]

StateStep(s) ==
    /\ state.used
    /\ state.steps < MaxStateSteps
    /\ state' = [s EXCEPT !.steps = @ + 1]

\* An apply that changes the settings of a database.
Expose == \E k \in DOMAIN state.instances, w \in Postures :
            StateStep([state EXCEPT !.instances[k].posture = @ \union {w}])

\* An apply that fails while it creates leaves the object tainted.
Taint == \E k \in DOMAIN state.instances :
           StateStep([state EXCEPT !.instances[k].tainted = TRUE])

\* A replacement that creates first and cannot delete leaves a deposed object.
Depose ==
    /\ Len(state.instances) = 1
    /\ StateStep([state EXCEPT !.instances =
                    <<Fresh(state.instances[1].marks, state.instances[1].values),
                      [state.instances[1] EXCEPT !.deposed = TRUE]>>])

AddOutput == \E secret, sensitive \in BOOLEAN :
               StateStep([state EXCEPT !.outputs =
                            @ \union {[secret |-> secret, sensitive |-> sensitive]}])

RunChecks == \E status \in {"pass", "fail", "error", "unknown"} :
               StateStep([state EXCEPT !.check = status])

StateNext == Expose \/ Taint \/ Depose \/ AddOutput \/ RunChecks
=============================================================================
