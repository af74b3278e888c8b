----------------------------- MODULE Discovery -----------------------------
(***************************************************************************)
(* Which analyzer a file of a repository is sent to (project_scan.py,      *)
(* identify_project_input and the content hints), as tables of rows in the *)
(* order of the code: the first row that matches decides.                  *)
(*                                                                         *)
(* A file is a record: its name and suffix (spelling variants such as      *)
(* .yml for .yaml are one member), the directories above it, the marks its *)
(* path and the files around it have, and what its content looks like.     *)
(***************************************************************************)
EXTENDS Naturals, Sequences

CONSTANT PrefixBytes   \* how much of a file its content hint is taken from

Row(tool, names, suffixes, dirs, marks) ==
    [tool |-> tool, names |-> names, suffixes |-> suffixes, dirs |-> dirs, marks |-> marks]

\* An empty set of names, suffixes or directories leaves the row open to any.
Matches(row, f) ==
    /\ row.names = {} \/ f.name \in row.names
    /\ row.suffixes = {} \/ f.suffix \in row.suffixes
    /\ row.dirs = {} \/ row.dirs \intersect f.dirs # {}
    /\ row.marks \subseteq f.marks

FirstTool(rows, f) ==
    LET hits == {k \in DOMAIN rows : Matches(rows[k], f)}
    IN  IF hits = {} THEN "none" ELSE rows[CHOOSE k \in hits : \A j \in hits : k <= j].tool

Yaml == {".yaml"}
YamlJson == {".yaml", ".json"}

TerraformNames == <<
    Row("terraform-lock", {".terraform.lock.hcl"}, {}, {}, {}),
    Row("terraform-state", {}, {}, {}, {"ends .tfstate"}),
    Row("terraform-stack", {}, {}, {}, {"ends .tfdeploy.hcl"}),
    Row("terragrunt", {}, {}, {}, {"ends terragrunt.hcl"}),
    Row("terramate", {}, {}, {}, {"ends .tm.hcl"}),
    Row("spacelift", {"config.yaml"}, {}, {".spacelift"}, {}),
    Row("cdk", {"manifest.json"}, {}, {"cdk.out"}, {}),
    Row("cdk", {}, {}, {"cdk.out"}, {"ends .assets.json"}),
    Row("pulumi-project", {"pulumi.yaml", "pulumipolicy.yaml"}, {}, {}, {}),
    Row("pulumi-project", {}, Yaml, {}, {"starts pulumi."}) >>

\* The implementation language of a Bolt task without a suffix, and the kind of
\* an external fact without one, are known from the content only.
BoltNames == <<
    Row("puppet-project", {"bolt-project.yaml"}, {}, {}, {}),
    Row("puppet-project", {"inventory.yaml"}, {}, {"bolt", ".puppetlabs"}, {}),
    Row("puppet-project", {"inventory.yaml"}, {}, {}, {"beside bolt-project"}),
    Row("puppet-project", {}, Yaml, {"plans"}, {"bolt content"}),
    Row("puppet-project", {}, {".json"}, {"tasks"}, {"bolt content"}),
    Row("puppet-project", {}, {}, {"tasks"}, {"bolt content", "task language by suffix"}),
    Row("puppet-project", {}, {""}, {"tasks"}, {"bolt content", "read", "looks like a task"}),
    Row("puppet-project", {}, {}, {}, {"puppet ruby path"}),
    Row("puppet-project", {}, {}, {}, {"external fact path"}),
    Row("puppet-project", {}, {}, {"facts.d"}, {"read", "looks like a fact"}) >>

AnsibleNames == <<
    Row("ansible-project", {}, {}, {}, {"ansible code path", "ansible code context"}),
    Row("ansible-project", {"ansible.cfg"}, {}, {}, {}),
    Row("ansible", {}, Yaml, {}, {"ansible role content"}),
    Row("ansible-project", {".ansible-lint", "ansible-lint.yaml", "galaxy.yaml"}, {}, {}, {}),
    Row("ansible-project", {"argument_specs.yaml", "runtime.yaml"}, {}, {}, {"in meta"}),
    Row("ansible-project", {"main.yaml"}, {}, {}, {"in meta", "role around"}),
    Row("ansible-project", {"main.yaml"}, {}, {"roles"}, {"in meta"}),
    Row("ansible-project", {"molecule.yaml"}, {}, {}, {}),
    Row("ansible-project", {"config.yaml"}, {}, {"molecule"}, {}),
    Row("ansible-project", {"execution-environment.yaml", "ansible-navigator.yaml"}, {}, {}, {}),
    Row("ansible-project", {"controller-export.json", "awx-export.json", "tower-export.json"},
        {}, {}, {}),
    Row("ansible-project", {"resources.json"}, {},
        {"aap", "ansible-controller", "automation-controller", "awx", "tower"}, {}),
    Row("ansible-project", {"hosts", "hosts.yaml", "inventory", "inventory.yaml"}, {}, {}, {}),
    Row("ansible-project", {}, Yaml, {}, {"ends with an inventory plugin"}),
    Row("ansible-project", {"requirements.yaml"}, {}, {"ansible", "collections", "roles"}, {}),
    Row("ansible-project", {"rulebook.yaml"}, {}, {}, {}),
    Row("ansible-project", {}, Yaml, {"rulebooks"}, {}),
    Row("ansible-project", {}, Yaml, {}, {"rulebook in name"}),
    Row("ansible", {"playbook.yaml"}, {}, {}, {}),
    Row("ansible", {}, Yaml, {}, {"starts playbook-"}) >>

JenkinsNames == <<
    Row("jenkins", {}, {}, {}, {"variant of jenkinsfile"}),
    Row("jenkins-project", {"jenkins-plugins.txt", "jenkins-plugins.yaml"}, {}, {}, {}),
    Row("jenkins-project", {"jenkins-jobs.yaml", "jjb.yaml"}, {}, {}, {}),
    Row("jenkins-project", {}, YamlJson, {".jjb", "jenkins-job-builder", "jenkins-jobs", "jjb"}, {}),
    Row("jenkins-project", {"plugins.txt"}, {}, {}, {"at root"}),
    Row("jenkins-project", {"plugins.txt", "plugins.yaml"}, {},
        {"jenkins", ".jenkins", "jenkins_home"}, {}),
    Row("jenkins-project", {"init.groovy", "boot-failure.groovy"}, {}, {}, {}),
    Row("jenkins-project", {}, {".groovy"}, {"init.groovy.d", "boot-failure.groovy.d"}, {}),
    Row("jenkins-project", {}, {".groovy"}, {}, {"in vars"}),
    Row("jenkins-project", {}, {".groovy"}, {"src"}, {"library around"}),
    Row("teamcity", {}, {".kt"}, {".teamcity"}, {}),
    Row("jenkins-jcasc", {"jenkins.yaml"}, {}, {"jenkins", "jcasc", "casc_configs"}, {}) >>

\* identify_project_input reads a Ruby file to find an Ohai plugin.
ChefNames == <<
    Row("chef-project", {".kitchen.yaml", "kitchen.yaml", "berksfile", "policyfile.rb",
                         "policyfile.lock.json"}, {}, {}, {}),
    Row("chef-project", {"plan.sh", "plan.ps1"}, {}, {}, {}),
    Row("chef-project", {}, {}, {"hooks"}, {"habitat hook", "habitat around"}),
    Row("inspec", {"inspec.yaml", "inspec.lock"}, {}, {}, {}),
    Row("inspec", {}, {".rb"}, {"controls", "libraries"}, {"profile around"}),
    Row("inspec", {}, {".yaml", ".json", ".csv"}, {"waivers"}, {}),
    Row("inspec", {}, {".yaml", ".json", ".csv"}, {}, {"waiver in name"}),
    Row("chef-project", {"chef-server.rb", "knife.rb"}, {}, {}, {}),
    Row("chef-project", {"client.rb", "solo.rb"}, {}, {}, {"at root"}),
    Row("chef-project", {"client.rb", "solo.rb"}, {}, {".chef", "chef", "opscode"}, {}),
    Row("chef-project", {"config.rb"}, {}, {".chef", "chef", "workstation"}, {}),
    Row("chef-project", {}, {".rb"}, {"client.d", "config.d", "solo.d"}, {}),
    Row("chef-project", {"metadata.rb"}, {}, {}, {"at root"}),
    Row("chef-project", {"metadata.rb"}, {}, {"chef", "cookbooks"}, {}),
    Row("chef", {}, {}, {}, {"cookbook content"}),
    Row("chef", {}, {".rb"}, {}, {"read", "looks like Ohai"}),
    Row("chef", {}, {".rb"}, {"recipes"}, {}) >>

PolicyNames == <<
    Row("puppet-project", {"environment.conf", "hiera.yaml", "puppet.conf", "puppetdb.conf",
                           "puppetfile", "puppetserver.conf", "r10k.yaml", "web-routes.conf"},
        {}, {}, {}),
    Row("puppet-project", {"auth.conf", "ca.conf", "webserver.conf"}, {}, {}, {"puppet around"}),
    Row("puppet", {}, {".pp"}, {}, {}),
    Row("salt", {}, {".sls"}, {}, {}),
    Row("salt-project", {"master", "minion", "roster"}, {}, {"salt", "saltstack"}, {}),
    Row("nix", {}, {".nix"}, {}, {}),
    Row("nix", {"flake.lock"}, {}, {}, {}),
    Row("dsc", {}, {}, {}, {"ends .dsc.yaml"}),
    Row("dsc", {}, {".ps1"}, {}, {"dsc in name"}),
    Row("cfengine", {}, {".cf"}, {}, {}),
    Row("opa", {}, {".rego"}, {}, {}),
    Row("opa", {"conftest.toml"}, {}, {}, {}),
    Row("sentinel", {}, {".sentinel"}, {}, {}),
    Row("sentinel", {"sentinel.hcl", "sentinel.json"}, {}, {}, {}),
    Row("sops", {".sops.yaml"}, {}, {}, {}),
    Row("sops", {}, {".yaml", ".json", ".env", ".ini"}, {}, {".sops. in name"}),
    Row("vagrant", {}, {}, {}, {"variant of vagrantfile"}),
    Row("docker-bake", {"docker-bake.hcl", "docker-bake.json"}, {}, {}, {}),
    Row("dockerfile", {}, {}, {}, {"variant of dockerfile"}),
    Row("docker-compose", {"compose.yaml", "docker-compose.yaml"}, {}, {}, {}) >>

PipelineNames == <<
    Row("gitlab-ci", {".gitlab-ci.yaml"}, {}, {}, {}),
    Row("travis-ci", {".travis.yaml"}, {}, {}, {}),
    Row("drone-ci", {".drone.yaml"}, {}, {}, {}),
    Row("woodpecker-ci", {".woodpecker.yaml"}, {}, {}, {}),
    Row("woodpecker-ci", {}, Yaml, {".woodpecker"}, {}),
    Row("github-actions", {}, Yaml, {}, {"in .github/workflows"}),
    Row("circleci", {"config.yaml"}, {}, {".circleci"}, {"one below root"}),
    Row("azure-pipelines", {"azure-pipelines.yaml"}, {}, {}, {}),
    Row("bitbucket-pipelines", {"bitbucket-pipelines.yaml"}, {}, {}, {}),
    Row("buildkite", {"pipeline.yaml"}, {}, {".buildkite"}, {}),
    Row("bamboo", {"bamboo.yaml"}, {}, {"bamboo-specs"}, {"one below root"}),
    Row("concourse", {"concourse.yaml"}, {}, {}, {}),
    Row("concourse", {}, Yaml, {".concourse"}, {}),
    Row("codebuild", {}, Yaml, {}, {"starts buildspec"}),
    Row("cloud-build", {}, YamlJson, {}, {"starts cloudbuild"}),
    Row("codepipeline", {}, YamlJson, {}, {"starts codepipeline"}),
    Row("atlantis", {"atlantis.yaml"}, {}, {}, {}),
    Row("atlantis", {"repos.yaml"}, {}, {".atlantis", "atlantis"}, {}) >>

DeliveryNames == <<
    Row("helm", {"chart.yaml"}, {}, {}, {}),
    Row("helm", {}, Yaml, {"templates"}, {}),
    Row("kustomize", {"kustomization.yaml"}, {}, {}, {}),
    Row("helmfile", {}, {".yaml", ".gotmpl", ".lock"}, {}, {"starts helmfile"}),
    Row("skaffold", {}, Yaml, {}, {"starts skaffold"}),
    Row("devspace", {}, Yaml, {}, {"starts devspace"}),
    Row("tilt", {}, {}, {}, {"variant of tiltfile"}),
    Row("cue", {}, {".cue"}, {}, {}),
    Row("tanka", {"spec.json", "main.jsonnet"}, {}, {"environments"}, {}),
    Row("jsonnet", {}, {".jsonnet"}, {}, {}),
    Row("jsonnet", {"jsonnetfile.json", "jsonnetfile.lock.json"}, {}, {}, {}),
    Row("vendir", {"vendir.yaml", "vendir.lock.yaml"}, {}, {}, {}),
    Row("kbld", {"kbld.yaml"}, {}, {}, {}),
    Row("kapp", {"kapp-config.yaml"}, {}, {}, {}),
    Row("serverless", {"serverless.yaml"}, {}, {}, {}),
    Row("nomad", {}, {}, {}, {"ends .nomad.hcl"}),
    Row("packer", {}, {}, {}, {"ends .pkr.hcl"}),
    Row("bicep", {}, {".bicep"}, {}, {}) >>

ServiceNames == <<
    Row("systemd", {}, {".service", ".socket", ".timer", ".mount", ".automount",
                      ".path", ".slice", ".target", ".swap"}, {}, {}),
    Row("cloud-init", {"cloud-init.yaml", "user-data.yaml"}, {}, {}, {}),
    Row("nginx", {"nginx.conf"}, {}, {}, {}),
    Row("haproxy", {"haproxy.cfg"}, {}, {}, {}),
    Row("envoy", {"envoy.yaml", "envoy.json"}, {}, {}, {}),
    Row("traefik", {"traefik.yaml", "traefik.toml"}, {}, {}, {}),
    Row("caddy", {"Caddyfile", "caddy.json"}, {}, {}, {}),
    Row("grafana", {"grafana.ini"}, {}, {}, {}),
    Row("grafana", {}, YamlJson, {"provisioning"}, {"grafana section above"}),
    Row("loki", {"loki.yaml"}, {}, {}, {}),
    Row("vault", {"vault.hcl", "vault.json"}, {}, {}, {}),
    Row("consul", {"consul.hcl", "consul.json"}, {}, {}, {}),
    Row("prometheus", {"prometheus.yaml"}, {}, {}, {}),
    Row("alertmanager", {"alertmanager.yaml"}, {}, {}, {}),
    Row("otel-collector", {"otel-collector.yaml"}, {}, {}, {}),
    Row("terraform-config", {}, {".tf"}, {}, {}),
    Row("terraform-config", {}, {}, {}, {"ends .tf.json"}) >>

NameTable ==
    TerraformNames \o BoltNames \o AnsibleNames \o JenkinsNames \o ChefNames
      \o PolicyNames \o PipelineNames \o DeliveryNames \o ServiceNames

(***************************************************************************)
(* Content hints.  A look is one signature; a row asks for all of its own. *)
(* "json" says that the bytes that were read parse as JSON.                *)
(***************************************************************************)
Hint(tool, suffixes, looks) == Row(tool, {}, suffixes, {}, looks)

SopsHints == <<
    Hint("sops", {".yaml", ".json", ".env", ".ini"}, {"ENC[AES256_GCM"}),
    Hint("sops", Yaml, {"sops:"}),
    Hint("sops", {".env"}, {"sops_mac="}),
    Hint("sops", {".ini"}, {"[sops]"}),
    Hint("none", {".env", ".ini"}, {}) >>

YamlHints == <<
    Hint("sam", Yaml, {"Transform:", "AWS::Serverless"}),
    Hint("serverless", Yaml, {"service:", "provider:", "functions:"}),
    Hint("jenkins-jcasc", Yaml, {"jenkins:", "jcasc setting"}),
    Hint("ytt", Yaml, {"#@"}),
    Hint("vendir", Yaml, {"vendir.k14s.io"}), Hint("kbld", Yaml, {"kbld.k14s.io"}),
    Hint("imgpkg", Yaml, {"imgpkg.carvel.dev"}), Hint("kapp", Yaml, {"kapp.k14s.io"}),
    Hint("crossplane", Yaml, {"apiVersion and kind", "crossplane.io"}),
    Hint("crossplane", Yaml, {"apiVersion and kind", "forProvider"}),
    Hint("kubernetes", Yaml, {"apiVersion and kind"}),
    Hint("ansible-project", Yaml, {"hosts, sources and rules"}),
    Hint("ansible", Yaml, {"hosts and tasks"}),
    Hint("ansible-project", Yaml, {"inventory plugin"}),
    Hint("ansible-project", Yaml, {"inventory structure"}),
    Hint("concourse", Yaml, {"jobs with plans"}),
    Hint("none", Yaml, {}) >>

\* A prefix that is cut off no longer parses: only two hints are left then.
JsonHints == <<
    Hint("pulumi", {}, {"json", "list of events"}),
    Hint("sops", {}, {"json", "sops object"}),
    Hint("terraform-state", {}, {"json", "values without changes"}),
    Hint("terraform-state", {}, {"json", "lineage"}),
    Hint("docker-bake", {}, {"json", "target"}),
    Hint("terraform", {}, {"json", "resource_changes"}),
    Hint("cloudformation", {}, {"json", "Changes"}),
    Hint("pulumi", {}, {"json", "steps with urn"}),
    Hint("azure", {}, {"json", "changeType"}),
    Hint("codepipeline", {}, {"json", "stages"}),
    Hint("cloud-build", {}, {"json", "steps with name"}),
    Hint("none", {}, {"json"}),
    Hint("pulumi", {}, {"resourcePreEvent"}),
    Hint("terraform", {}, {"plan prefix"}) >>

HintTable == SopsHints \o YamlHints \o JsonHints

\* The suffixes whose content is looked at, by the scan and by the MCP tool.
HintSuffixes == {".yaml", ".json", ".env", ".ini"}
McpHintSuffixes == {".yaml", ".json"}

ToolByName(f, read) ==
    FirstTool(NameTable,
              [f EXCEPT !.marks = @ \union (IF read THEN {"read"} \union f.looks ELSE {})])

\* Only the first PrefixBytes are looked at: a document that is longer no longer
\* parses as JSON, and one cut within a character is not text at all.
ToolByContent(f) ==
    LET cut == f.size > PrefixBytes
        seen == IF cut THEN f.looks \ {"json"} ELSE f.looks
    IN  IF f.suffix \notin HintSuffixes \/ (cut /\ "cut character" \in f.looks)
        THEN "none"
        ELSE FirstTool(HintTable, [f EXCEPT !.marks = seen])

Tools == { NameTable[k].tool : k \in DOMAIN NameTable }
           \union { HintTable[k].tool : k \in DOMAIN HintTable }
=============================================================================
