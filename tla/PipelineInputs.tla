--------------------------- MODULE PipelineInputs ---------------------------
(***************************************************************************)
(* What the adapters of CI systems (adapters/pipelines.py) report of a     *)
(* pipeline.  Every system has its own syntax: where a document holds      *)
(* steps, what steps may be nested in, what a step and the document around *)
(* it may ask for.  An adapter walks a document in one way, and what it    *)
(* does not walk it does not report.                                       *)
(*                                                                         *)
(* A pipeline here has one step (a job, where a system has no steps), in   *)
(* one place of the document, nested in others.                            *)
(***************************************************************************)
EXTENDS RuleTables

CONSTANT MaxPipelineSteps    \* bound: what a pipeline asks for, and its nesting

VARIABLE pipeline

-----------------------------------------------------------------------------
(***************************************************************************)
(* An adapter: what it says of the things that a document or a step asks   *)
(* for, where it looks for steps, which nestings it follows and what it    *)
(* says of them, what it says in any case, and the directives of which a   *)
(* step must have one in order not to be reported as unresolved.           *)
(***************************************************************************)
Say(safe, review, dangerous) == [safe |-> safe, review |-> review, dangerous |-> dangerous]
Nothing == Say({}, {}, {})

Asks(table) == table.safe \union table.review \union table.dangerous
Said(table, asked) ==
    {risk \in {"safe", "review", "dangerous"} : table[risk] \intersect asked # {}}

GitHubActions ==
    [document |-> Say({"read-only token"}, {}, {"write token"}),
     step |-> Say({}, {"pinned action", "environment", "pinned workflow"},
                  {"run", "action", "workflow", "secret"}),
     walks |-> {"jobs"}, nests |-> Nothing, always |-> {},
     resolved |-> {"run", "action", "pinned action", "workflow", "pinned workflow"}]

\* Jobs whose name begins with a dot are templates for others.
GitLabCI ==
    [document |-> Say({}, {"include"}, {"remote include"}),
     step |-> Say({}, {"pinned image", "trigger", "environment"}, {"script", "image", "secret"}),
     walks |-> {"jobs"}, nests |-> Nothing, always |-> {},
     resolved |-> {"script", "trigger"}]

CircleCI ==
    [document |-> Say({}, {"pinned orb", "machine", "pinned image"}, {"orb", "image"}),
     step |-> Say({"checkout", "store_artifacts"}, {"command"},
                  {"run", "add_ssh_keys", "setup_remote_docker"}),
     walks |-> {"jobs"}, nests |-> Nothing, always |-> {}, resolved |-> {}]

AzureDocument ==
    Say({}, {"pinned repository", "pinned container", "trigger", "managed pool", "template"},
        {"repository", "container", "service connection", "pool", "remote template",
         "variable group", "inline secret"})
AzureStep ==
    Say({}, {"task", "checkout", "download", "publish", "template step"},
        {"script", "infrastructure task", "connected task", "persistent credentials",
         "secret", "remote template step"})
AzurePipelines ==
    [document |-> AzureDocument, step |-> AzureStep,
     walks |-> {"steps", "jobs", "stages", "strategy"}, nests |-> Nothing,
     always |-> {"review"},
     resolved |-> Asks(AzureStep) \ {"secret"}]

BitbucketDocument ==
    Say({}, {"clone", "export", "cache", "custom variable", "pinned service", "pinned import"},
        {"service", "docker service", "secret variable", "import", "image credentials"})
BitbucketStep ==
    Say({}, {"pinned pipe", "pinned image", "deployment", "child pipeline", "manual",
             "condition", "artifacts", "cloud runner"},
        {"script", "pipe", "after-script", "image", "secret", "oidc", "self-hosted runner",
         "docker"})
BitbucketPipelines ==
    [document |-> BitbucketDocument, step |-> BitbucketStep,
     walks |-> {"default", "branches"},
     nests |-> Say({}, {"parallel", "parallel steps", "stage"}, {}),
     always |-> {"review"}, resolved |-> {"script", "pipe", "pinned pipe", "child pipeline"}]

BuildkiteStep ==
    Say({"wait"}, {"pinned plugin", "env", "approval", "artifacts", "retry"},
        {"command", "pipeline upload", "plugin", "secret", "trigger", "soft_fail"})
Buildkite ==
    [document |-> Say({}, {"agents"}, {"env"}), step |-> BuildkiteStep,
     walks |-> {"steps"}, nests |-> Say({}, {"group"}, {}), always |-> {"review"},
     resolved |-> {}]

\* A scope is the document or one of its jobs.
TravisScope ==
    Say({}, {"pinned import", "service", "env", "cache", "addons", "condition", "notification"},
        {"script", "deploy", "sudo", "docker", "import", "secret"})
TravisCI ==
    [document |-> Say({}, {}, {"allow_failures"}), step |-> TravisScope,
     walks |-> {"document", "jobs"}, nests |-> Nothing, always |-> {"review"}, resolved |-> {}]

\* Drone and Woodpecker.
ContainerDocument ==
    Say({"signature"}, {"trigger", "runner", "clone", "workspace", "volume"},
        {"exec runner", "host volume", "secret document"})
Container ==
    Say({}, {"pinned image", "settings", "environment", "detached", "condition"},
        {"commands", "image", "privileged", "secret", "ignored failure", "device",
         "network mode", "host volume"})
ContainerPipeline ==
    [document |-> ContainerDocument, step |-> Container, walks |-> {"steps", "services"},
     nests |-> Nothing, always |-> {"review"},
     resolved |-> {"image", "pinned image", "commands", "settings"}]

ConcourseDocument ==
    Say({}, {"resource", "scheduling"},
        {"resource type", "public resource", "secret source", "var source", "public job"})
ConcourseStep ==
    Say({}, {"get", "file", "execution policy", "pinned image"},
        {"task", "privileged", "put", "set_pipeline", "load_var", "image", "command", "secret"})

\* Fault: of the two forms of in_parallel the adapter knows the list.
ConcourseNests_List ==
    Say({}, {"do", "in_parallel", "on_success", "on_failure", "on_abort", "ensure"}, {"try"})

\* A hook is followed without a finding of its own; "review" is said in any case.
ConcourseNests ==
    Say({}, {"do", "in_parallel", "in_parallel steps", "on_success", "on_failure", "on_abort",
             "ensure"}, {"try"})

Concourse ==
    [document |-> ConcourseDocument, step |-> ConcourseStep,
     walks |-> {"plan", "on_success", "on_failure", "on_abort", "ensure"},
     nests |-> ConcourseNests, always |-> {"review"}, resolved |-> {}]

BambooJob ==
    Say({"test-parser"}, {"artifact-download", "artifacts", "requirements"},
        {"script", "secret", "clean-working-dir", "job docker"})
Bamboo ==
    [document |-> Say({}, {"plan", "triggers", "variables", "repositories"},
                      {"deployment", "permissions", "secret variable", "docker"}),
     step |-> BambooJob,
     walks |-> {"tasks", "final-tasks", "environment"}, nests |-> Nothing,
     always |-> {"review"}, resolved |-> {}]

Adapter ==
    [github |-> GitHubActions, gitlab |-> GitLabCI, circleci |-> CircleCI,
     azure |-> AzurePipelines, bitbucket |-> BitbucketPipelines, buildkite |-> Buildkite,
     travis |-> TravisCI, drone |-> ContainerPipeline, woodpecker |-> ContainerPipeline,
     concourse |-> Concourse, bamboo |-> Bamboo]

-----------------------------------------------------------------------------
(***************************************************************************)
(* What the systems run: the places of a document that hold steps, and     *)
(* what steps may be nested in.                                            *)
(***************************************************************************)
Hooks == {"on_success", "on_failure", "on_abort", "on_error", "ensure"}

Places ==
    [github |-> {"jobs"}, gitlab |-> {"jobs", "hidden job"}, circleci |-> {"jobs", "commands"},
     azure |-> {"steps", "jobs", "stages", "strategy"}, bitbucket |-> {"default", "branches"},
     buildkite |-> {"steps"}, travis |-> {"document", "jobs", "matrix"},
     drone |-> {"steps", "services"}, woodpecker |-> {"steps", "services", "clone"},
     concourse |-> {"plan"} \union Hooks, bamboo |-> {"tasks", "final-tasks", "environment"}]

Nestings ==
    [ci \in DOMAIN Places |->
        CASE ci = "circleci" -> {"when"}
          [] ci = "azure" -> {"template expression"}
          [] ci = "bitbucket" -> {"parallel", "parallel steps", "stage"}
          [] ci = "buildkite" -> {"group"}
          [] ci = "concourse" -> {"do", "in_parallel", "in_parallel steps", "try"} \union Hooks
          [] OTHER -> {}]

\* Systems in which a step has one directive.
OneDirective == {"github", "gitlab", "azure"}

-----------------------------------------------------------------------------
(***************************************************************************)
(* The walk                                                                *)
(***************************************************************************)
\* How far in the nesting the adapter follows, from the outside.
Followed(p) ==
    LET nests == Asks(Adapter[p.ci].nests)
    IN {k \in DOMAIN p.nesting : \A i \in 1..k : p.nesting[i] \in nests}

Reached(p) ==
    /\ p.place \in Adapter[p.ci].walks
    /\ Followed(p) = DOMAIN p.nesting

\* A step that stands for others is reported without what it passes to them.
Templates ==
    [github |-> {"workflow", "pinned workflow"},
     azure |-> {"template step", "remote template step"}]
IsTemplate(p) == p.ci \in DOMAIN Templates /\ p.asks \intersect Templates[p.ci] # {}

\* A step without a directive the adapter knows.
Unresolved(p) ==
    Adapter[p.ci].resolved # {} /\ p.asks \intersect Adapter[p.ci].resolved = {}

\* Fault: an entry the adapter cannot follow is taken for harmless.
Cut_Harmless(p) == {"safe"}

\* What is said where the walk ends early: the job that uses a template or a
\* command, or the entry that cannot be followed, is for review.
Cut(p) == {"review"}

\* Permissions of the token that nobody declares.
Defaults(p) ==
    IF p.ci = "github" /\ p.declares = {} THEN {"review"} ELSE {}

PipelineFindings(p) ==
    LET adapter == Adapter[p.ci]
    IN adapter.always \union Defaults(p) \union Said(adapter.document, p.declares)
         \union (IF p.place \in adapter.walks
                 THEN Said(adapter.nests, {p.nesting[k] : k \in Followed(p)}) ELSE {})
         \union (IF ~Reached(p) THEN Cut(p)
                 ELSE Said(adapter.step, IF IsTemplate(p) THEN p.asks \ {"secret"} ELSE p.asks)
                        \union (IF Unresolved(p) THEN {"review"} ELSE {}))

-----------------------------------------------------------------------------
NoPipeline ==
    [used |-> FALSE, ci |-> "github", place |-> "jobs", nesting |-> <<>>,
     declares |-> {}, asks |-> {}]

PipelineInit ==
    \E ci \in DOMAIN Adapter : \E place \in Places[ci] :
        \E fact \in Asks(Adapter[ci].step) :
            pipeline = [NoPipeline EXCEPT !.used = TRUE, !.ci = ci, !.place = place,
                                          !.asks = {fact}]

EditPipeline(edited) ==
    /\ pipeline.used
    /\ Len(pipeline.nesting) + Cardinality(pipeline.declares) + Cardinality(pipeline.asks)
         < MaxPipelineSteps
    /\ pipeline' = edited

Declare(fact) == EditPipeline([pipeline EXCEPT !.declares = @ \union {fact}])
AddToStep(fact) ==
    /\ LET directives == Adapter[pipeline.ci].resolved
       IN (pipeline.ci \in OneDirective /\ fact \in directives)
            => pipeline.asks \intersect directives = {}
    /\ EditPipeline([pipeline EXCEPT !.asks = @ \union {fact}])
Nest(in) == EditPipeline([pipeline EXCEPT !.nesting = <<in>> \o @])

PipelineNext ==
    \/ \E f \in Asks(Adapter[pipeline.ci].document) \ pipeline.declares : Declare(f)
    \/ \E f \in Asks(Adapter[pipeline.ci].step) \ pipeline.asks : AddToStep(f)
    \/ \E n \in Nestings[pipeline.ci] : Nest(n)
=============================================================================
