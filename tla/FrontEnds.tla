----------------------------- MODULE FrontEnds -----------------------------
(***************************************************************************)
(* What the command line (cli.py) and the tools of the MCP server          *)
(* (mcp_server.py) do with one file and the framework it is held to: what  *)
(* a command takes, which handler it reaches, which adapter the handler    *)
(* asks for and how the adapter is chosen, as tables; the control flow all *)
(* handlers, and all tools, share, as operators.                           *)
(*                                                                         *)
(* A content is a record: kind ("file", "missing", "pipe" or "link"),      *)
(* readable, fits (the adapters that recognise it once parsed), object (it *)
(* parses as a JSON object) and verdict (the gate's risk).  A framework is *)
(* "none" (not asked for), "loads" or "fails" (unknown, or a broken        *)
(* catalog).  Exit statuses, error codes, messages and the printed report  *)
(* are left out: the project scan accepts every status.                    *)
(***************************************************************************)
EXTENDS Naturals, Sequences, TLC

OneFile == {"input", "framework"}
Command(handler, takes) == [handler |-> handler, takes |-> takes]
SelfNamed(S) == [c \in S |-> Command(c, OneFile)]
AllTo(handler, S) == [c \in S |-> Command(handler, OneFile)]

(***************************************************************************)
(* Commands: the handler of set_defaults, and the arguments they take.     *)
(***************************************************************************)
CoreCommands ==
    "analyze" :> Command("analyze", OneFile \union
                     {"format", "no-rules", "fail-on", "rules-file", "evidence", "agent-id",
                      "reviewer-id", "reviewer-kind", "run-id", "sign", "oidc-issuer",
                      "rekor-url", "mode"})
      @@ "scan" :> Command("scan", OneFile \union {"exclude", "max-files", "max-file-bytes"})
      @@ "agent-gate" :> Command("agent-gate", OneFile \union {"mode"})

ProvisioningCommands ==
    SelfNamed({"cloudformation", "cdk", "azure", "bicep", "kubernetes", "pulumi",
               "pulumi-project", "ansible"})

ProjectCommands ==
    SelfNamed({"ansible-project", "jenkins", "teamcity", "jenkins-jcasc", "jenkins-project", "chef",
               "chef-project", "inspec", "puppet", "puppet-project"})
      @@ AllTo("pipeline", {"github-actions"})

DeliveryCommands ==
    AllTo("pipeline", {"gitlab-ci", "circleci", "azure-pipelines", "bitbucket-pipelines",
                       "buildkite", "travis-ci", "drone-ci", "woodpecker-ci", "concourse",
                       "bamboo"})
      @@ AllTo("cloud-ci", {"codebuild", "cloud-build", "codepipeline"})
      @@ AllTo("workload", {"docker-compose", "nomad"})
      @@ SelfNamed({"atlantis", "packer", "skaffold"})

PolicyCommands ==
    AllTo("jsonnet", {"jsonnet", "tanka"})
      @@ AllTo("carvel", {"ytt", "vendir", "kbld", "imgpkg", "kapp"})
      @@ SelfNamed({"devspace", "tilt", "cue", "helmfile", "terramate", "spacelift", "salt",
                    "salt-project", "nix", "dsc", "cfengine", "opa"})

ServiceCommands ==
    AllTo("proxy-config", {"nginx", "haproxy"})
      @@ AllTo("hashicorp", {"vault", "consul"})
      @@ SelfNamed({"terraform-config", "sentinel", "sops", "vagrant", "systemd", "envoy",
                    "traefik", "grafana", "loki", "caddy", "terraform-stack", "terraform-lock"})

SystemCommands ==
    AllTo("terraform-config", {"terragrunt"})
      @@ AllTo("serverless-source", {"serverless", "sam"})
      @@ AllTo("monitoring", {"prometheus", "alertmanager"})
      @@ SelfNamed({"terraform-state", "helm", "kustomize", "crossplane", "otel-collector",
                    "cloud-init", "docker-bake", "dockerfile"})
      @@ "verify" :> Command("verify", {"input", "certificate-identity",
                                        "certificate-oidc-issuer", "rekor-url"})
      @@ "mcp" :> Command("mcp", {})

EvolutionCommands ==
    "evolution" :> Command("evolution", {"action"})
      @@ "evolve" :> Command("evolve", {"action", "rule-id"})

Commands ==
    CoreCommands @@ ProvisioningCommands @@ ProjectCommands @@ DeliveryCommands
      @@ PolicyCommands @@ ServiceCommands @@ SystemCommands @@ EvolutionCommands

(***************************************************************************)
(* Handlers.  One asks either the registry, which answers with the first   *)
(* adapter that recognises the input, or its own adapter.                  *)
(***************************************************************************)
Registry(adapters) == [by |-> "registry", adapters |-> adapters]
RegistryEach(S) == [h \in S |-> Registry({h})]
OwnEach(S) == [h \in S |-> [by |-> "own", adapters |-> {h}]]

PlanHandlers ==
    RegistryEach({"cloudformation", "kubernetes"})
      @@ OwnEach({"cdk"})

ProvisioningHandlers ==
    RegistryEach({"azure", "pulumi"})
      @@ OwnEach({"bicep", "ansible", "ansible-project"})

ControllerHandlers ==
    RegistryEach({"jenkins", "teamcity"})
      @@ OwnEach({"pulumi-project", "jenkins-jcasc", "jenkins-project"})

ConvergenceHandlers ==
    RegistryEach({"puppet"})
      @@ OwnEach({"chef", "chef-project", "inspec", "puppet-project"})

PipelineHandlers ==
    "pipeline" :> Registry({"github-actions", "gitlab-ci", "circleci", "azure-pipelines",
                            "bitbucket-pipelines", "buildkite", "travis-ci", "drone-ci",
                            "woodpecker-ci", "concourse", "bamboo"})
      @@ "cloud-ci" :> Registry({"codebuild", "cloud-build", "codepipeline"})
      @@ RegistryEach({"atlantis"})

WorkloadHandlers ==
    "workload" :> Registry({"docker-compose", "nomad"})
      @@ RegistryEach({"packer", "skaffold", "devspace", "tilt"})

TemplateHandlers == RegistryEach({"cue", "jsonnet", "helmfile", "terramate", "carvel"})

StateHandlers ==
    RegistryEach({"spacelift", "salt"})
      @@ OwnEach({"salt-project", "nix", "dsc"})

PolicyHandlers ==
    RegistryEach({"vagrant"})
      @@ OwnEach({"cfengine", "opa", "sentinel", "sops"})

DaemonHandlers ==
    "hashicorp" :> Registry({"vault", "consul"})
      @@ RegistryEach({"cloud-init", "systemd", "traefik", "grafana"})

TerraformHandlers ==
    "terraform-config" :> Registry({"terraform-config", "terragrunt"})
      @@ RegistryEach({"loki", "caddy"})
      @@ OwnEach({"terraform-lock", "terraform-state"})

ChartHandlers ==
    "serverless-source" :> Registry({"serverless", "sam"})
      @@ RegistryEach({"helm", "kustomize", "crossplane", "otel-collector"})

EdgeHandlers ==
    "monitoring" :> Registry({"prometheus", "alertmanager"})
      @@ "proxy-config" :> Registry({"nginx", "haproxy"})
      @@ RegistryEach({"envoy"})
      @@ OwnEach({"docker-bake", "terraform-stack"})

ImageHandlers == RegistryEach({"dockerfile"})

Handlers ==
    PlanHandlers @@ ProvisioningHandlers @@ ControllerHandlers @@ ConvergenceHandlers
      @@ PipelineHandlers @@ WorkloadHandlers @@ TemplateHandlers @@ StateHandlers
      @@ PolicyHandlers @@ DaemonHandlers @@ TerraformHandlers @@ ChartHandlers
      @@ EdgeHandlers @@ ImageHandlers

(***************************************************************************)
(* Recognition.  Most parsers wrap the document under a key that only one  *)
(* adapter claims; the four raw formats go to the registry as they are, so *)
(* a document may be claimed by an adapter registered earlier.             *)
(***************************************************************************)
RawOrder == <<"cloudformation", "kubernetes", "pulumi", "azure">>
RawAdapters == {"cloudformation", "kubernetes", "pulumi", "azure"}

Detected(adapter, c) ==
    LET claims == IF adapter \in RawAdapters THEN c.fits \intersect RawAdapters
                                             ELSE c.fits \intersect {adapter}
        first == {a \in claims : \A b \in claims :
                      \A i, j \in DOMAIN RawOrder :
                          RawOrder[i] = a /\ RawOrder[j] = b => i <= j}
    IN  first

\* The adapter a command's handler expects: its only one, or the one named like
\* the command.
Expected(command) ==
    LET h == Handlers[Commands[command].handler]
    IN  IF command \in h.adapters THEN command ELSE CHOOSE a \in h.adapters : TRUE

Recognises(command, c) ==
    LET wanted == Expected(command)
    IN  /\ wanted \in c.fits
        /\ Handlers[Commands[command].handler].by = "registry" => wanted \in Detected(wanted, c)

Gives(outcome, risk) == [outcome |-> outcome, risk |-> risk]

\* A handler reads the file, parses and recognises it, loads the catalog of the
\* framework if one is asked for, and prints a gate; agent-gate loads it first.
CliOutcome(command, framework, c) ==
    LET given == IF framework = "none" THEN {"input"} ELSE OneFile
        taken == command \in DOMAIN Commands /\ given \subseteq Commands[command].takes
        read == c.kind \notin {"missing", "pipe"} /\ c.readable
        known == IF command = "agent-gate" THEN "terraform" \in c.fits
                                           ELSE Recognises(command, c)
    IN  IF ~taken THEN Gives("usage", "none")
        ELSE IF read /\ known /\ framework # "fails" THEN Gives("gate", c.verdict)
        ELSE Gives("error", "none")

(***************************************************************************)
(* Tools of the MCP server: those it serves and the parameters it serves   *)
(* them with; and which handler takes which ecosystem, from which          *)
(* parameters, and how it chooses its adapter: "own", "registry", or       *)
(* "none" where the document is analysed without asking.                   *)
(***************************************************************************)
Kinds == OneFile \union {"ecosystem"}
Serves(takes, S) == {[tool |-> t, takes |-> takes] : t \in S}

ServedPlans ==
    Serves(OneFile, {"analyze-plan", "terraform", "cloudformation", "cdk", "azure", "bicep",
                     "kubernetes", "pulumi", "pulumi-project"})
      \union Serves(OneFile \union {"excludes", "max-files", "max-file-bytes"}, {"project"})
      \union Serves(Kinds, {"pipeline"})

ServedDelivery ==
    Serves(OneFile, {"atlantis", "packer", "skaffold", "devspace", "tilt", "cue", "jsonnet",
                     "helmfile", "terramate", "carvel"})
      \union Serves(Kinds, {"workload"})

ServedPolicies ==
    Serves(OneFile, {"spacelift", "salt", "nix", "dsc", "cfengine", "opa", "sentinel", "sops",
                     "vagrant", "cloud-init", "systemd"})

ServedServices ==
    Serves(OneFile, {"traefik", "otel-collector", "grafana", "vault", "consul", "loki", "caddy",
                     "terraform-config", "terraform-lock", "terraform-state", "terragrunt",
                     "helm", "kustomize", "crossplane", "serverless", "sam"})

ServedSystems ==
    Serves(OneFile, {"envoy", "docker-bake", "terraform-stack", "dockerfile"})
      \union Serves(Kinds, {"monitoring", "proxy-config", "configuration-management"})
      \union Serves({}, {"evolution-status", "evolution-dashboard", "evolution-patterns"})

Served == ServedPlans \union ServedDelivery \union ServedPolicies \union ServedServices
              \union ServedSystems

Takes(tool, by, ecosystems) ==
    {[ecosystem |-> e, tool |-> tool, by |-> by, given |-> OneFile] : e \in ecosystems}
OwnTools(S) == {[ecosystem |-> e, tool |-> e, by |-> "own", given |-> OneFile] : e \in S}

\* A tool that must be told the ecosystem of its input.
Told(tool, by, ecosystems) ==
    {[ecosystem |-> e, tool |-> tool, by |-> by, given |-> Kinds] : e \in ecosystems}

PlanTools ==
    Takes("cloudformation", "none", {"cloudformation"}) \union OwnTools({"terraform", "cdk"})

ManifestTools == OwnTools({"azure", "bicep"}) \union Takes("kubernetes", "none", {"kubernetes"})

ProgramTools == OwnTools({"pulumi", "pulumi-project"})

\* Fault: the providers' own services have no tool.
PipelineTools_NoServices ==
    Told("pipeline", "registry",
          {"github-actions", "gitlab-ci", "circleci", "azure-pipelines", "bitbucket-pipelines",
           "buildkite", "travis-ci", "drone-ci", "woodpecker-ci", "concourse", "bamboo"})
      \union OwnTools({"atlantis"})

PipelineTools ==
    Told("pipeline", "registry",
          {"github-actions", "gitlab-ci", "circleci", "azure-pipelines", "bitbucket-pipelines",
           "buildkite", "travis-ci", "drone-ci", "woodpecker-ci", "concourse", "bamboo",
           "codebuild", "cloud-build", "codepipeline"})
      \union OwnTools({"atlantis"})

WorkloadTools ==
    Told("workload", "registry", {"docker-compose", "nomad"})
      \union OwnTools({"packer", "skaffold"})

DevelopmentTools ==
    OwnTools({"devspace", "tilt", "cue"}) \union Takes("jsonnet", "own", {"jsonnet", "tanka"})

CarvelTools ==
    Takes("carvel", "own", {"ytt", "vendir", "kbld", "imgpkg", "kapp"})
      \union OwnTools({"helmfile", "terramate"})

StateTools == OwnTools({"spacelift", "salt", "nix", "dsc"})

PolicyTools == OwnTools({"cfengine", "opa", "sentinel", "sops"})

HostTools == OwnTools({"vagrant", "cloud-init", "systemd", "traefik"})

DaemonTools == OwnTools({"grafana", "vault", "consul", "loki"})

TerraformTools == OwnTools({"caddy", "terraform-config", "terraform-lock"})

ChartTools == OwnTools({"terraform-state", "terragrunt", "helm", "kustomize"})

SourceTools == OwnTools({"crossplane", "serverless", "sam", "otel-collector"})

EdgeTools ==
    Told("monitoring", "own", {"prometheus", "alertmanager"})
      \union Told("proxy-config", "own", {"nginx", "haproxy"})
      \union OwnTools({"envoy"})

ImageTools == OwnTools({"docker-bake", "terraform-stack", "dockerfile"})

ConfigurationTools ==
    Told("configuration-management", "own",
          {"ansible", "ansible-project", "jenkins", "jenkins-jcasc", "jenkins-project", "chef",
           "chef-project", "inspec", "puppet", "puppet-project", "salt-project", "dsc", "cfengine",
           "teamcity"})

McpTools ==
    PlanTools \union ManifestTools \union ProgramTools \union PipelineTools \union WorkloadTools
      \union DevelopmentTools \union CarvelTools \union StateTools \union PolicyTools
      \union HostTools \union DaemonTools \union TerraformTools \union ChartTools
      \union SourceTools \union EdgeTools \union ImageTools \union ConfigurationTools

\* The server passes a tool's arguments on to its handler by name.
Callable(t) == \E served \in Served : served.tool = t.tool /\ t.given = served.takes

\* A tool reads the file, parses and recognises it, loads the catalog of the
\* framework if one is asked for, and answers with a gate or with a code of its
\* own; agent_gate loads it first.  A tool that does not ask an adapter finds no
\* changes in a JSON object it cannot read.
McpOutcome(ecosystem, framework, c) ==
    LET adapter == IF ecosystem = "terraform" THEN ecosystem ELSE Expected(ecosystem)
        takers == {t \in McpTools : t.ecosystem = ecosystem /\ Callable(t)}
        read == c.kind \notin {"missing", "pipe"} /\ c.readable
        unasked == c.object /\ \E t \in takers : t.by = "none"
    IN  IF takers = {} THEN Gives("unknown tool", "none")
        ELSE IF ~read \/ framework = "fails" THEN Gives("error", "none")
        ELSE IF adapter \in c.fits THEN Gives("gate", c.verdict)
        ELSE IF unasked THEN Gives("gate", "safe")
        ELSE Gives("error", "none")
=============================================================================
