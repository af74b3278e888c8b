--------------------------- MODULE WorkloadInputs ---------------------------
(***************************************************************************)
(* What the workload adapters (adapters/workloads.py, nomad_job.py) report *)
(* of a service of a Docker Compose file, of a Nomad plan and of a Nomad   *)
(* job specification: findings, each with its own risk, which no rule      *)
(* looks at again.                                                         *)
(*                                                                         *)
(* A service is the set of things it asks for.  A Nomad plan has counters, *)
(* what the scheduler has to say, and a diff, a tree of which one path is  *)
(* modelled: job, task group, task, and an object of the task.  So is a    *)
(* job specification, in HCL or in JSON, with one task group and one task. *)
(***************************************************************************)
EXTENDS RuleTables

CONSTANT MaxWorkloadSteps    \* bound: things asked for, or planned

VARIABLES service, nomad, jobspec

-----------------------------------------------------------------------------
\* Docker Compose
ReviewedInCompose ==
    {"pinned image", "capability", "mount", "env_file", "extends", "local port"}
Hardening == {"drops capabilities", "read-only root"}
DangerousInCompose ==
    {"image", "build", "command", "privileged", "host namespace", "api socket",
     "powerful capability", "sensitive mount", "device", "secret", "credential",
     "public port", "unconfined"}
ServiceFacts == ReviewedInCompose \union Hardening \union DangerousInCompose

\* Fault: an option that hardens a service is taken for its risk.
ServiceFindings_Last(facts) ==
    IF facts \intersect Hardening # {} THEN {"safe"}
    ELSE IF facts = {} THEN {"review"}
    ELSE {"dangerous"}

\* A service of which nothing is recognized is for review.
ServiceFindings(facts) ==
    {"dangerous" : f \in facts \intersect DangerousInCompose}
      \union {"review" : f \in facts \intersect ReviewedInCompose}
      \union {"safe" : f \in facts \intersect Hardening}
      \union IF facts = {} THEN {"review"} ELSE {}

-----------------------------------------------------------------------------
\* Nomad
Levels == 1..4      \* job, TaskGroups, Tasks, Objects
Counters == {"DestructiveUpdate", "Stop", "Migrate", "Place", "InPlaceUpdate"}
NodeTypes == {"none", "edited", "added", "deleted"}
Fields == {"count", "host driver", "privileged", "secret", "image", "pinned image",
           "command"}

\* _field_change, by the first test that a field passes.
FieldRisk(field) == IF field \in {"count", "pinned image"} THEN "review" ELSE "dangerous"

NodeRisk(type) ==
    CASE type = "deleted" -> {"dangerous"}
      [] type \in {"added", "edited"} -> {"review"}
      [] OTHER -> {}

\* Fault: the diff is followed down to the tasks only.
WalkDiff_ToTasks(diff) ==
    UNION { NodeRisk(diff[l].type) \union {FieldRisk(f) : f \in diff[l].fields} : l \in 1..3 }

WalkDiff(diff) ==
    UNION { NodeRisk(diff[l].type) \union {FieldRisk(f) : f \in diff[l].fields} : l \in Levels }

\* DesiredTGUpdates: a counter that is zero says nothing.
CounterRisk(counters) ==
    {IF c \in {"DestructiveUpdate", "Stop"} THEN "dangerous" ELSE "review" : c \in counters}

SchedulerRisk(plan) == IF plan.warnings \/ plan.failed THEN {"dangerous"} ELSE {}

NomadFindings(plan) ==
    LET found == SchedulerRisk(plan) \union CounterRisk(plan.counters) \union WalkDiff(plan.diff)
    IN IF found = {} THEN {"safe"} ELSE found

-----------------------------------------------------------------------------
\* Nomad job specifications
DangerousInJob ==
    {"system job", "every datacenter", "any namespace", "literal secret", "host network",
     "host volume", "host driver", "image", "command", "driver option", "remote data",
     "template function", "absolute destination", "template environment", "change action",
     "vault", "exposed identity", "insecure artifact"}

JobFacts == {"system job", "every datacenter", "any namespace", "periodic", "literal secret"}
Volumes == {"host volume", "csi volume"}
Ports == {"static port", "dynamic port"}
GroupFacts ==
    Volumes \union Ports \union {"host network", "service", "update", "literal secret"}

\* What a task ought to say, and what it may ask for.
Settling == {"driver", "user", "checksum", "ttl"}
TaskFacts ==
    Settling \union
    {"host driver", "image", "pinned image", "command", "driver option", "artifact",
     "insecure artifact", "source template", "remote data", "template function",
     "absolute destination", "template environment", "change action", "vault", "consul",
     "identity", "exposed identity", "lifecycle", "secret reference", "literal secret"}

\* _labeled_blocks: the volumes of a JSON job are one object, which is taken for a
\* single volume without a type when it has several members.
VolumesRead(spec) ==
    LET volumes == spec.group \intersect Volumes
    IN IF spec.json /\ volumes = Volumes THEN {"csi volume"} ELSE volumes

\* The ports of a network: in JSON those that are static are a list of their own, which
\* is read only where there is none of the others.
PortsRead(spec) ==
    IF spec.json /\ "dynamic port" \in spec.group THEN {}
    ELSE spec.group \intersect {"static port"}

GroupRead(spec) ==
    (spec.group \ (Volumes \union Ports)) \union VolumesRead(spec) \union PortsRead(spec)

Judged(facts) == {IF f \in DangerousInJob THEN "dangerous" ELSE "review" : f \in facts}

\* Fault: only the driver's configuration is searched for secrets.
TaskRisks_NoSecrets(task) ==
    Judged((task \ Settling) \ {"literal secret", "secret reference"})
      \union IF "driver" \in task THEN {"review"} ELSE {}

\* What is missing is dangerous: a driver, a user, and what makes an artifact or an
\* identity less than trusted blindly.
TaskRisks(task) ==
    Judged(task \ Settling)
      \union (IF "driver" \in task THEN {"review"} ELSE {})
      \union (IF \/ {"driver", "host driver"} \intersect task = {}
                 \/ "user" \notin task
                 \/ "artifact" \in task /\ "checksum" \notin task
                 \/ "identity" \in task /\ "ttl" \notin task
              THEN {"dangerous"} ELSE {})

\* Fault: task groups are looked for under the name they have in HCL.
HasGroups_InHcl(spec) == spec.depth > 1 /\ ~spec.json

HasGroups(spec) == spec.depth > 1

\* A last finding says what a static analysis cannot know.
Findings(spec) ==
    {"review"} \union Judged(spec.job)
      \union (IF HasGroups(spec) THEN Judged(GroupRead(spec)) ELSE {"dangerous"})
      \union (IF HasGroups(spec) /\ spec.depth > 2 THEN TaskRisks(spec.task) ELSE {})

\* Fault: what is null is taken for a list without blocks.
JobFindings_NullIsEmpty(spec) == IF spec.null THEN {"review"} ELSE Findings(spec)

\* NomadJobInputError in the middle of the analysis: there are no findings to judge.
JobFindings(spec) == IF spec.null THEN {} ELSE Findings(spec)

-----------------------------------------------------------------------------
NoService == [used |-> FALSE, facts |-> {}]
NothingPlanned ==
    [used |-> FALSE, warnings |-> FALSE, failed |-> FALSE, counters |-> {},
     diff |-> [l \in Levels |-> [type |-> "none", fields |-> {}]], steps |-> 0]

\* null: one of the lists of blocks of a JSON job (TaskGroups, Tasks, Volumes,
\* DynamicPorts) is null, as Nomad prints a list that is empty.
NoJob ==
    [used |-> FALSE, json |-> FALSE, null |-> FALSE, depth |-> 1,
     job |-> {}, group |-> {}, task |-> {}]

ServiceInit == service = [NoService EXCEPT !.used = TRUE]
NomadInit == nomad = [NothingPlanned EXCEPT !.used = TRUE]

\* A job, its task group, or an ordinary task in it.
JobInit ==
    \E json \in BOOLEAN, depth \in 1..3 :
        jobspec = [NoJob EXCEPT !.used = TRUE, !.json = json, !.depth = depth,
                                !.task = IF depth = 3 THEN {"driver", "user"} ELSE {}]

AskFor(fact) ==
    /\ service.used
    /\ Cardinality(service.facts) < MaxWorkloadSteps
    /\ service' = [service EXCEPT !.facts = @ \union {fact}]

PlanJob(plan) ==
    /\ nomad.used
    /\ nomad.steps < MaxWorkloadSteps
    /\ nomad' = [plan EXCEPT !.steps = @ + 1]

\* What the scheduler adds to a plan.
Warn == PlanJob([nomad EXCEPT !.warnings = TRUE])
FailToPlace == PlanJob([nomad EXCEPT !.failed = TRUE])
Schedule(counter) == PlanJob([nomad EXCEPT !.counters = @ \union {counter}])

\* A change at one level is an edit of the levels above.
Touched(level) ==
    [l \in Levels |-> IF l < level /\ nomad.diff[l].type = "none"
                      THEN [nomad.diff[l] EXCEPT !.type = "edited"] ELSE nomad.diff[l]]
ChangeNode(level, type) ==
    PlanJob([nomad EXCEPT !.diff = [Touched(level) EXCEPT ![level].type = type]])
ChangeField(level, field) ==
    PlanJob([nomad EXCEPT !.diff =
        [Touched(level) EXCEPT ![level].fields = @ \union {field},
                               ![level].type = IF @ = "none" THEN "edited" ELSE @]])

\* Edits of a specification, all but those of its ordinary task counted.
EditJob(edited) ==
    /\ jobspec.used /\ ~jobspec.null
    /\ Cardinality(jobspec.job) + Cardinality(jobspec.group)
         + Cardinality(jobspec.task \ {"driver", "user"}) < MaxWorkloadSteps
    /\ jobspec' = edited
Require(fact) == EditJob([jobspec EXCEPT !.job = @ \union {fact}])
InGroup(fact) == jobspec.depth > 1 /\ EditJob([jobspec EXCEPT !.group = @ \union {fact}])
InTask(fact) == jobspec.depth > 2 /\ EditJob([jobspec EXCEPT !.task = @ \union {fact}])
Forget(fact) == jobspec.depth > 2 /\ EditJob([jobspec EXCEPT !.task = @ \ {fact}])

LeaveNull == jobspec.json /\ EditJob([jobspec EXCEPT !.null = TRUE])

JobNext ==
    \/ LeaveNull
    \/ \E f \in JobFacts \ jobspec.job : Require(f)
    \/ \E f \in GroupFacts \ jobspec.group : InGroup(f)
    \/ \E f \in TaskFacts \ jobspec.task : InTask(f)
    \/ \E f \in {"driver", "user"} \intersect jobspec.task : Forget(f)

NomadNext ==
    \/ Warn \/ FailToPlace
    \/ \E c \in Counters : Schedule(c)
    \/ \E l \in Levels : \/ \E t \in NodeTypes \ {"none"} : ChangeNode(l, t)
                         \/ \E f \in Fields : ChangeField(l, f)
=============================================================================
