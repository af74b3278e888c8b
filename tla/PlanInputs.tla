----------------------------- MODULE PlanInputs -----------------------------
(***************************************************************************)
(* The inputs a verdict may come from: a Terraform plan as the analyzer    *)
(* and the browser classify it (Verdicts), the same change as the other    *)
(* planning tools report it (ToolAdapters), manifests (KubernetesInput), a *)
(* Terraform state (StateInput), a Compose service, a Nomad plan or job    *)
(* specification (WorkloadInputs), and the pipeline of a CI system         *)
(* (PipelineInputs).  A behaviour revises one input, step by step.         *)
(***************************************************************************)
EXTENDS Verdicts, ToolAdapters, KubernetesInput, StateInput, WorkloadInputs,
        PipelineInputs

workloads == <<service, nomad, jobspec, pipeline>>
inputs == <<vars, manifests, state, workloads>>

NoChange == [type |-> "acme_widget", action |-> "create", facts |-> {}, respelled |-> {}]
NoPlan == change = NoChange /\ verdicts = Verdict(NoChange)
NoSnapshot == manifests = NoManifests /\ state = NoState
NoWorkload ==
    /\ service = NoService /\ nomad = NothingPlanned
    /\ jobspec = NoJob /\ pipeline = NoPipeline
Terraform == NoSnapshot /\ NoWorkload

WorkloadInit ==
    \/ ServiceInit /\ nomad = NothingPlanned /\ jobspec = NoJob /\ pipeline = NoPipeline
    \/ NomadInit /\ service = NoService /\ jobspec = NoJob /\ pipeline = NoPipeline
    \/ JobInit /\ service = NoService /\ nomad = NothingPlanned /\ pipeline = NoPipeline
    \/ PipelineInit /\ service = NoService /\ nomad = NothingPlanned /\ jobspec = NoJob

InputsInit ==
    \/ Init /\ Terraform
    \/ ManifestsInit /\ state = NoState /\ NoPlan /\ NoWorkload
    \/ StateInit /\ manifests = NoManifests /\ NoPlan /\ NoWorkload
    \/ WorkloadInit /\ NoPlan /\ NoSnapshot

InputsNext ==
    \/ Terraform /\ Next /\ UNCHANGED <<manifests, state, workloads>>
    \/ ManifestsNext /\ UNCHANGED <<vars, state, workloads>>
    \/ StateNext /\ UNCHANGED <<vars, manifests, workloads>>
    \/ /\ UNCHANGED <<vars, manifests, state>>
       /\ \/ (\E f \in ServiceFacts : AskFor(f)) /\ UNCHANGED <<nomad, jobspec, pipeline>>
          \/ NomadNext /\ UNCHANGED <<service, jobspec, pipeline>>
          \/ JobNext /\ UNCHANGED <<service, nomad, pipeline>>
          \/ pipeline.used /\ PipelineNext /\ UNCHANGED <<service, nomad, jobspec>>

InputsSpec == InputsInit /\ [][InputsNext]_inputs

-----------------------------------------------------------------------------
(***************************************************************************)
(* Planning tools                                                          *)
(***************************************************************************)
\* BaseAdapter.analyze: the rules start from the adapter's risk and actions.
Analyze(means, type, facts) ==
    Highest({means.risk} \union UNION { Results(r, means.action, facts) : r \in PythonRules[type] })

CloudFormationVerdict(op, type, facts) ==
    Analyze(CloudFormationMeans(op), type, CloudFormationSees(type, facts))
PulumiVerdict(op, type, facts) ==
    Analyze(PulumiMeans(op), type, PulumiSees(type, facts))
AzureVerdict(op, potential, type, facts) ==
    Analyze(AzureMeans(op, potential), type, AzureSees(op, type, facts))

\* What the operations of the tools do, in Terraform's terms.
Does ==
    [create |-> [cfn |-> {"Add", TemplateDiffOperation("absent", "kept")},
                 pulumi |-> {"create"}, azure |-> {"create"}],
     update |-> [cfn |-> {"Modify", TemplateDiffOperation("kept", "edited")},
                 pulumi |-> {"update", "diff"},
                 azure |-> {"modify", "deploy"}],
     replace |-> [cfn |-> {"Replace"}, azure |-> {},
                  pulumi |-> {"replace", "create-replacement", "delete-replaced"}],
     delete |-> [cfn |-> {"Remove", TemplateDiffOperation("kept", "absent")},
                 pulumi |-> {"delete"}, azure |-> {"delete"}],
     read |-> [cfn |-> {}, pulumi |-> {"read", "same"}, azure |-> {"nochange"}],
     unknown |-> [cfn |-> {"Dynamic"}, pulumi |-> {"unknown"}, azure |-> {"unsupported"}]]

\* A change is judged by whatever tool reports it as by Terraform's plan, with all that
\* its attributes show, whether the rules look for it at the top or deep in the shape the
\* tool reports it in.  But nothing shows in what CloudFormation reports, in names that no
\* rule reads; nor in Azure's types from Pulumi, which have it at the top; nor in what
\* Azure only says to deploy: these are judged as if nothing showed.  A change that is
\* only potential is never safe (adapters/base.py 34-77, azure.py 54-73, pulumi.py 87-141).
PlannersAgree ==
    change.action \in DOMAIN Does =>
      LET type == change.type
          facts == change.facts
          JudgedOn(shown) == PythonRisk(type, change.action, shown)
          ofAzure == {"azurerm_storage_account", "azurerm_role_assignment",
                      "azurerm_network_security_group"}
      IN /\ type \in CloudFormationTypes => \A op \in Does[change.action].cfn :
              CloudFormationVerdict(op, type, facts) = JudgedOn({})
         /\ type \in PulumiTypes => \A op \in Does[change.action].pulumi :
              PulumiVerdict(op, type, facts) = JudgedOn(IF type \in ofAzure THEN {} ELSE facts)
         /\ type \in AzureTypes => \A op \in Does[change.action].azure :
              /\ AzureVerdict(op, FALSE, type, facts)
                   = JudgedOn(IF op = "deploy" THEN {} ELSE facts)
              /\ Rank(AzureVerdict(op, TRUE, type, facts))
                   >= Rank(AzureVerdict(op, FALSE, type, facts))
              /\ AzureVerdict(op, TRUE, type, facts) # "safe"

-----------------------------------------------------------------------------
(***************************************************************************)
(* Manifests                                                               *)
(***************************************************************************)
RulesOf(reported) ==
    LET type == NormalizeResourceType(reported.kind, reported.group)
    IN IF type \in Types
       THEN UNION { Results(r, ActionOf(reported), {}) : r \in PythonRules[type] } ELSE {}

ManifestRisk(report) ==
    Highest({"safe"} \union {BaselineOf(c) : c \in report}
              \union UNION {RulesOf(c) : c \in report})

\* What a cluster takes for one object, but for the group that serves it: the
\* namespace does not count for the kinds that have none.
ClusterWide == {"ClusterRole", "MutatingWebhookConfiguration"}
SameObject(r, s) ==
    /\ r.kind = s.kind /\ r.name = s.name
    /\ r.kind \in ClusterWide \/ r.namespace = s.namespace
SomeIn(list, r) == \E i \in DOMAIN list : SameObject(list[i], r)

\* The report explains what a revision does to the objects of a cluster.  What
\* goes is irreversible, and nothing is said to go that stays; a change of compared
\* content is reported, and dangerous for what extends the control plane; no change
\* is reported where there is none.  A report that tells objects apart by less than
\* the cluster does is given up for a review, and only then (kubernetes.py 426-540).
ReportExplainsDiff ==
    manifests.used =>
      LET old == manifests.old
          new == manifests.new
          report == ExtractFromDiff(old, new)
          risk == ManifestRisk(report)
          Unclear(list) ==
            \/ \E i \in DOMAIN list : list[i].kind = "" \/ list[i].name = ""
            \/ \E i, j \in DOMAIN list : i # j /\ SameObject(list[i], list[j])
          gone == {i \in DOMAIN old : ~SomeIn(new, old[i])}
          come == {j \in DOMAIN new : ~SomeIn(old, new[j])}
          changed == {j \in DOMAIN new : \E i \in DOMAIN old :
                        SameObject(old[i], new[j]) /\ old[i].compared # new[j].compared}
      IN IF Unclear(old) \/ Unclear(new)
         THEN report = {MalformedInputChange} /\ risk = "review"
         ELSE /\ Cardinality(report)
                   = Cardinality(gone) + Cardinality(come) + Cardinality(changed)
              /\ gone # {} <=> \E c \in report : c.action = "Remove"
              /\ gone # {} => risk = "irreversible"
              /\ changed # {} => Rank(risk) >= Rank("review")
              /\ (\E j \in changed \union come : new[j].kind \in SensitiveControlPlaneKinds)
                   => Rank(risk) >= Rank("dangerous")
              /\ {c \in report : c.action = "Add"} \subseteq ExtractFromSingle(new)

-----------------------------------------------------------------------------
(***************************************************************************)
(* States and workloads                                                    *)
(***************************************************************************)
\* What is called a secret, at any depth, is not among the attributes the rules read,
\* and where its mark is missing the verdict says so.  What is only marked is not
\* either, but for a raw snapshot that writes paths as step objects, whose marks are
\* all taken for missing.  But for that, and for what only one representation has,
\* taint and checks, both lead to one verdict (terraform_state.py 148-255, 366-600).
SnapshotIsReported ==
    state.used =>
      LET Secret(l) == "secret" \in {l[1], l[2]}
          Marked(i, l) == {l, <<l[1]>>} \intersect i.marks # {}
          some == \E k \in DOMAIN state.instances : LET i == state.instances[k] IN
                    \/ i.deposed
                    \/ {"public", "unencrypted"} \intersect i.posture # {}
                    \/ \E l \in i.values : Secret(l) /\ ~Marked(i, l)
          lost == state.paths = "steps"
          missed == /\ lost
                    /\ \E k \in DOMAIN state.instances : LET i == state.instances[k] IN
                         \E l \in i.values : Secret(l) /\ Marked(i, l)
          tainted == \E k \in DOMAIN state.instances : state.instances[k].tainted
          failed == state.check \in {"fail", "error"}
          raw == RiskOf(RawFindings(state))
          show == RiskOf(ShowFindings(state))
      IN /\ \A k \in DOMAIN state.instances : LET i == state.instances[k] IN
              /\ \A l \in Shown(i) : ~Secret(l) /\ ~Marked(i, l)
              /\ \A l \in Shown(AsRaw(state).instances[k]) :
                   ~Secret(l) /\ (Marked(i, l) => lost)
         /\ some => raw = "dangerous" /\ show = "dangerous"
         /\ tainted => raw = "dangerous"
         /\ failed => show = "dangerous"
         /\ ~tainted /\ ~failed => raw = IF missed THEN "dangerous" ELSE show

\* A Nomad plan is safe only if it changes nothing, and what it takes away, or makes
\* a task able to do, is dangerous at whatever depth of the diff.
PlanIsReported ==
    LET risk == Highest(NomadFindings(nomad))
        Bad(node) == node.type = "deleted" \/ node.fields \ {"count", "pinned image"} # {}
    IN /\ risk = "safe" <=> nomad = [NothingPlanned EXCEPT !.used = TRUE]
       /\ (\E l \in Levels : Bad(nomad.diff[l])) => risk = "dangerous"
       /\ {"Stop", "DestructiveUpdate"} \intersect nomad.counters # {} => risk = "dangerous"

\* A job specification gets a verdict unless a list of blocks is null, which is never
\* safe, is the same in HCL as in JSON but for several volumes, names a secret at every
\* level, and gets better only for what the job settles.
JobIsReported ==
    LET RiskWith(spec) == Highest(JobFindings(spec))
        risk == RiskWith(jobspec)
        Less(fact) == RiskWith([jobspec EXCEPT !.task = @ \ {fact}])
    IN /\ JobFindings(jobspec) = {} <=> jobspec.null
       /\ ~jobspec.null =>
            /\ risk # "safe"
            /\ ~(Volumes \subseteq jobspec.group)
                 => risk = RiskWith([jobspec EXCEPT !.json = ~@])
            /\ "literal secret" \in jobspec.job \union jobspec.group \union jobspec.task
                 => risk = "dangerous"
            /\ \A fact \in jobspec.task \ (Settling \union {"host driver"}) :
                 Rank(Less(fact)) <= Rank(risk)

\* What a pipeline runs, and what is passed to it, is dangerous wherever it stands, but
\* for the places an adapter does not walk; nothing that runs is ever safe.
NotWalked ==
    {"hidden job", "commands", "matrix", "clone", "on_error", "when", "template expression"}
PipelineIsReported ==
    LET adapter == Adapter[pipeline.ci]
        risk == Highest(PipelineFindings(pipeline))
        bad == pipeline.asks \intersect adapter.step.dangerous
        nesting == {pipeline.nesting[k] : k \in DOMAIN pipeline.nesting}
    IN /\ risk = "safe" => pipeline.asks \subseteq adapter.step.safe
       /\ (/\ ({pipeline.place} \union nesting) \intersect NotWalked = {}
           /\ bad # {} /\ ~(IsTemplate(pipeline) /\ bad = {"secret"})) => risk = "dangerous"
       /\ pipeline.declares \intersect adapter.document.dangerous # {} => risk = "dangerous"

\* What deploys or runs something else than infrastructure is reported for what it asks,
\* however deep it is nested, but for the exceptions named above; what hardens a Compose
\* service never hides what exposes it (workloads.py 145-602, nomad_job.py 99-554,
\* pipelines.py 139-2650).
WorkloadsAreReported ==
    /\ nomad.used => PlanIsReported
    /\ jobspec.used => JobIsReported
    /\ pipeline.used => PipelineIsReported
    /\ service.used /\ service.facts \ Hardening # {} =>
         Highest(ServiceFindings(service.facts))
           = Highest(ServiceFindings(service.facts \ Hardening))
=============================================================================
