-------------------------- MODULE ProjectScanProofs --------------------------
(***************************************************************************)
(* Proofs about ProjectScan, for any trees, changes and limits: a scan     *)
(* that proceeds has passed everything it discovered, the MCP tool         *)
(* analyses what it measured and, unless the tree changes, finds what the  *)
(* command finds; both decide as the abstract gate does.  These hold       *)
(* whatever the tables of names and commands hold; the types and the       *)
(* agreement of the single tools are of the tables' rows.                  *)
(***************************************************************************)
EXTENDS ProjectScan, WellFoundedInduction, TLAPS

-----------------------------------------------------------------------------
(* Sequences whose elements have no type, and the first of a set of places *)

IsSeq(s) == s \in Seq({s[i] : i \in DOMAIN s})

\* t is s with e after it.
Appended(t, s, e) ==
    /\ IsSeq(t)
    /\ Len(t) = Len(s) + 1
    /\ t[Len(s) + 1] = e
    /\ \A i \in 1..Len(s) : t[i] = s[i]

LEMMA Appending ==
    ASSUME NEW s, IsSeq(s), NEW e
    PROVE  Appended(Append(s, e), s, e)
<1> DEFINE S == {s[i] : i \in DOMAIN s} \union {e}
           T == {Append(s, e)[i] : i \in DOMAIN Append(s, e)}
<1>1. s \in Seq(S) /\ e \in S
  BY DEF IsSeq
<1>2. /\ Len(Append(s, e)) = Len(s) + 1
      /\ DOMAIN Append(s, e) = 1..(Len(s) + 1)
      /\ DOMAIN s = 1..Len(s)
      /\ Len(s) \in Nat
      /\ Append(s, e)[Len(s) + 1] = e
      /\ \A i \in 1..Len(s) : Append(s, e)[i] = s[i]
  BY <1>1
<1>3. s \in Seq(T) /\ e \in T
  <2>1. \A i \in DOMAIN s : s[i] \in T
    BY <1>2
  <2>2. e \in T
    BY <1>2
  <2>3. {s[i] : i \in DOMAIN s} \subseteq T
    BY <2>1
  <2> HIDE DEF T
  <2> QED BY <2>2, <2>3 DEF IsSeq
<1> HIDE DEF T
<1>4. Append(s, e) \in Seq(T)
  BY <1>3
<1> QED BY <1>2, <1>4 DEF Appended, IsSeq, T

LEMMA LengthOf ==
    ASSUME NEW s, IsSeq(s)
    PROVE  Len(s) \in Nat /\ DOMAIN s = 1..Len(s)
BY DEF IsSeq

LEMMA Room ==
    ASSUME NEW a \in Nat, NEW b \in Nat, NEW c \in Nat
    PROVE  /\ a + b < c => a + b + 1 \in 1..c /\ (a + 1) + b <= c /\ a + (b + 1) <= c
           /\ a + b <= c => a + b <= c + 1
OBVIOUS

LEMMA FirstIsListed ==
    ASSUME NEW todo \in SUBSET Nat, todo # {}
    PROVE  First(todo) \in todo
<1> DEFINE R == {ss \in Nat \X Nat : ss[1] < ss[2]}
<1>1. IsWellFoundedOn(R, Nat)
  BY NatLessThanWellFounded, Zenon DEF OpToRel
<1> HIDE DEF R
<1>2. PICK k \in todo : \A j \in todo : ~(<<j, k>> \in R)
  BY <1>1, WFMin
<1>3. \A j \in todo : k <= j
  <2>1. \A j \in todo : j \in Nat /\ k \in Nat
    OBVIOUS
  <2>2. \A j \in todo : ~(j < k)
    BY <1>2, <2>1 DEF R
  <2> QED BY <2>1, <2>2
<1> QED BY <1>3 DEF First

-----------------------------------------------------------------------------
(* The records of a scan, one field and several fields at a time           *)

IsRecord(s) ==
    s = [pc |-> s.pc, todo |-> s.todo, at |-> s.at, found |-> s.found,
         results |-> s.results, errors |-> s.errors, decision |-> s.decision]

LEMMA SetPc ==
    ASSUME NEW s, IsRecord(s), NEW x, NEW t, t = [s EXCEPT !.pc = x]
    PROVE  /\ IsRecord(t) /\ t.pc = x
           /\ t.todo = s.todo /\ t.at = s.at /\ t.found = s.found
           /\ t.results = s.results /\ t.errors = s.errors /\ t.decision = s.decision
BY DEF IsRecord

LEMMA SetTodo ==
    ASSUME NEW s, IsRecord(s), NEW x, NEW t, t = [s EXCEPT !.todo = x]
    PROVE  /\ IsRecord(t) /\ t.todo = x
           /\ t.pc = s.pc /\ t.at = s.at /\ t.found = s.found
           /\ t.results = s.results /\ t.errors = s.errors /\ t.decision = s.decision
BY DEF IsRecord

LEMMA SetAt ==
    ASSUME NEW s, IsRecord(s), NEW x, NEW t, t = [s EXCEPT !.at = x]
    PROVE  /\ IsRecord(t) /\ t.at = x
           /\ t.pc = s.pc /\ t.todo = s.todo /\ t.found = s.found
           /\ t.results = s.results /\ t.errors = s.errors /\ t.decision = s.decision
BY DEF IsRecord

LEMMA SetFound ==
    ASSUME NEW s, IsRecord(s), NEW x, NEW t, t = [s EXCEPT !.found = x]
    PROVE  /\ IsRecord(t) /\ t.found = x
           /\ t.pc = s.pc /\ t.todo = s.todo /\ t.at = s.at
           /\ t.results = s.results /\ t.errors = s.errors /\ t.decision = s.decision
BY DEF IsRecord

LEMMA SetResults ==
    ASSUME NEW s, IsRecord(s), NEW x, NEW t, t = [s EXCEPT !.results = x]
    PROVE  /\ IsRecord(t) /\ t.results = x
           /\ t.pc = s.pc /\ t.todo = s.todo /\ t.at = s.at
           /\ t.found = s.found /\ t.errors = s.errors /\ t.decision = s.decision
BY DEF IsRecord

LEMMA SetErrors ==
    ASSUME NEW s, IsRecord(s), NEW x, NEW t, t = [s EXCEPT !.errors = x]
    PROVE  /\ IsRecord(t) /\ t.errors = x
           /\ t.pc = s.pc /\ t.todo = s.todo /\ t.at = s.at
           /\ t.found = s.found /\ t.results = s.results /\ t.decision = s.decision
BY DEF IsRecord

LEMMA SetDecision ==
    ASSUME NEW s, IsRecord(s), NEW x, NEW t, t = [s EXCEPT !.decision = x]
    PROVE  /\ IsRecord(t) /\ t.decision = x
           /\ t.pc = s.pc /\ t.todo = s.todo /\ t.at = s.at
           /\ t.found = s.found /\ t.results = s.results /\ t.errors = s.errors
BY DEF IsRecord

PcTodoSet(t, s, pc, todo) == t = [s EXCEPT !.pc = pc, !.todo = todo]

LEMMA SetPcTodo ==
    ASSUME NEW s, IsRecord(s), NEW pc, NEW todo, NEW t, PcTodoSet(t, s, pc, todo)
    PROVE  /\ IsRecord(t) /\ t.pc = pc /\ t.todo = todo /\ t.at = s.at /\ t.found = s.found
           /\ t.results = s.results /\ t.errors = s.errors /\ t.decision = s.decision
<1>1. PICK a : a = [s EXCEPT !.pc = pc]
  OBVIOUS
<1>2. PICK b : b = [a EXCEPT !.todo = todo]
  OBVIOUS
<1>3. t = b
  BY <1>1, <1>2 DEF PcTodoSet
<1>4. /\ IsRecord(a) /\ a.pc = pc /\ a.at = s.at /\ a.found = s.found
      /\ a.results = s.results /\ a.errors = s.errors /\ a.decision = s.decision
  BY <1>1, SetPc
<1>5. /\ IsRecord(b) /\ b.pc = pc /\ b.todo = todo /\ b.at = s.at /\ b.found = s.found
      /\ b.results = s.results /\ b.errors = s.errors /\ b.decision = s.decision
  BY <1>2, <1>4, SetTodo
<1> QED BY <1>3, <1>5

PcDecisionSet(t, s, pc, decision) == t = [s EXCEPT !.pc = pc, !.decision = decision]

LEMMA SetPcDecision ==
    ASSUME NEW s, IsRecord(s), NEW pc, NEW decision,
           NEW t, PcDecisionSet(t, s, pc, decision)
    PROVE  /\ IsRecord(t) /\ t.pc = pc /\ t.todo = s.todo /\ t.at = s.at /\ t.found = s.found
           /\ t.results = s.results /\ t.errors = s.errors /\ t.decision = decision
<1>1. PICK a : a = [s EXCEPT !.pc = pc]
  OBVIOUS
<1>2. PICK b : b = [a EXCEPT !.decision = decision]
  OBVIOUS
<1>3. t = b
  BY <1>1, <1>2 DEF PcDecisionSet
<1>4. /\ IsRecord(a) /\ a.pc = pc /\ a.todo = s.todo /\ a.at = s.at /\ a.found = s.found
      /\ a.results = s.results /\ a.errors = s.errors
  BY <1>1, SetPc
<1>5. /\ IsRecord(b) /\ b.pc = pc /\ b.todo = s.todo /\ b.at = s.at /\ b.found = s.found
      /\ b.results = s.results /\ b.errors = s.errors /\ b.decision = decision
  BY <1>2, <1>4, SetDecision
<1> QED BY <1>3, <1>5

FoundTodoAtSet(t, s, found, todo, at) == t = [s EXCEPT !.found = found, !.todo = todo, !.at = at]

LEMMA SetFoundTodoAt ==
    ASSUME NEW s, IsRecord(s), NEW found, NEW todo, NEW at,
           NEW t, FoundTodoAtSet(t, s, found, todo, at)
    PROVE  /\ IsRecord(t) /\ t.pc = s.pc /\ t.todo = todo /\ t.at = at /\ t.found = found
           /\ t.results = s.results /\ t.errors = s.errors /\ t.decision = s.decision
<1>1. PICK a : a = [s EXCEPT !.found = found]
  OBVIOUS
<1>2. PICK b : b = [a EXCEPT !.todo = todo]
  OBVIOUS
<1>3. PICK c : c = [b EXCEPT !.at = at]
  OBVIOUS
<1>4. t = c
  BY <1>1, <1>2, <1>3 DEF FoundTodoAtSet
<1>5. /\ IsRecord(a) /\ a.pc = s.pc /\ a.found = found
      /\ a.results = s.results /\ a.errors = s.errors /\ a.decision = s.decision
  BY <1>1, SetFound
<1>6. /\ IsRecord(b) /\ b.pc = s.pc /\ b.todo = todo /\ b.found = found
      /\ b.results = s.results /\ b.errors = s.errors /\ b.decision = s.decision
  BY <1>2, <1>5, SetTodo
<1>7. /\ IsRecord(c) /\ c.pc = s.pc /\ c.todo = todo /\ c.at = at /\ c.found = found
      /\ c.results = s.results /\ c.errors = s.errors /\ c.decision = s.decision
  BY <1>3, <1>6, SetAt
<1> QED BY <1>4, <1>7

-----------------------------------------------------------------------------
(* The tables                                                              *)

\* The ecosystems: every tool a table names is one, and a tool of the server takes it.
Ecosystems ==
    {"alertmanager", "ansible", "ansible-project", "atlantis", "azure", "azure-pipelines",
     "bamboo", "bicep", "bitbucket-pipelines", "buildkite", "caddy", "cdk", "cfengine",
     "chef", "chef-project", "circleci", "cloud-build", "cloud-init", "cloudformation",
     "codebuild", "codepipeline", "concourse", "consul", "crossplane", "cue", "devspace",
     "docker-bake", "docker-compose", "dockerfile", "drone-ci", "dsc", "envoy",
     "github-actions", "gitlab-ci", "grafana", "haproxy", "helm", "helmfile", "imgpkg",
     "inspec", "jenkins", "jenkins-jcasc", "jenkins-project", "jsonnet", "kapp", "kbld",
     "kubernetes", "kustomize", "loki", "nginx", "nix", "nomad", "opa", "otel-collector",
     "packer", "prometheus", "pulumi", "pulumi-project", "puppet", "puppet-project", "salt",
     "salt-project", "sam", "sentinel", "serverless", "skaffold", "sops", "spacelift",
     "systemd", "tanka", "teamcity", "terraform", "terraform-config", "terraform-lock",
     "terraform-stack", "terraform-state", "terragrunt", "terramate", "tilt", "traefik",
     "travis-ci", "vagrant", "vault", "vendir", "woodpecker-ci", "ytt"}

Known == {"none"} \union Ecosystems

RowsKnown(rows) == IsSeq(rows) /\ \A k \in DOMAIN rows : rows[k].tool \in Known

LEMMA RowsOfTable ==
    ASSUME NEW s, NEW n \in Nat, DOMAIN s = 1..n, s = [k \in 1..n |-> s[k]],
           \A k \in 1..n : s[k].tool \in Known
    PROVE  RowsKnown(s)
BY DEF RowsKnown, IsSeq

LEMMA RowsJoin ==
    ASSUME NEW s, NEW t, RowsKnown(s), RowsKnown(t)
    PROVE  RowsKnown(s \o t)
<1> DEFINE S == {s[i] : i \in DOMAIN s} \union {t[i] : i \in DOMAIN t}
           u == s \o t
<1>1. s \in Seq(S) /\ t \in Seq(S)
  BY DEF RowsKnown, IsSeq
<1>2. \A x \in S : x.tool \in Known
  BY DEF RowsKnown
<1> HIDE DEF S
<1>3. u \in Seq(S)
  BY <1>1
<1> HIDE DEF u
<1>4. u \in Seq({u[i] : i \in DOMAIN u}) /\ \A i \in DOMAIN u : u[i] \in S
  BY <1>3
<1> QED BY <1>2, <1>4 DEF RowsKnown, IsSeq, u

LEMMA RowsTerraformNames == RowsKnown(TerraformNames)
<1> DEFINE t(k) == TerraformNames[k].tool
<1>1. DOMAIN TerraformNames = 1..10 /\ TerraformNames = [k \in 1..10 |-> TerraformNames[k]]
  BY DEF TerraformNames
<1>2. /\ t(1) = "terraform-lock" /\ t(2) = "terraform-state" /\ t(3) = "terraform-stack"
      /\ t(4) = "terragrunt" /\ t(5) = "terramate" /\ t(6) = "spacelift" /\ t(7) = "cdk"
      /\ t(8) = "cdk" /\ t(9) = "pulumi-project" /\ t(10) = "pulumi-project"
  BY DEF TerraformNames, Row, Hint
<1> HIDE DEF t
<1>3. \A k \in 1..10 : t(k) \in Known
  BY <1>2 DEF Known, Ecosystems
<1> QED BY <1>1, <1>3, RowsOfTable DEF t

LEMMA RowsBoltNames == RowsKnown(BoltNames)
<1> DEFINE t(k) == BoltNames[k].tool
<1>1. DOMAIN BoltNames = 1..10 /\ BoltNames = [k \in 1..10 |-> BoltNames[k]]
  BY DEF BoltNames
<1>2. /\ t(1) = "puppet-project" /\ t(2) = "puppet-project" /\ t(3) = "puppet-project"
      /\ t(4) = "puppet-project" /\ t(5) = "puppet-project" /\ t(6) = "puppet-project"
      /\ t(7) = "puppet-project" /\ t(8) = "puppet-project" /\ t(9) = "puppet-project"
      /\ t(10) = "puppet-project"
  BY DEF BoltNames, Row, Hint
<1> HIDE DEF t
<1>3. \A k \in 1..10 : t(k) \in Known
  BY <1>2 DEF Known, Ecosystems
<1> QED BY <1>1, <1>3, RowsOfTable DEF t

LEMMA RowsAnsibleNames == RowsKnown(AnsibleNames)
<1> DEFINE t(k) == AnsibleNames[k].tool
<1>1. DOMAIN AnsibleNames = 1..20 /\ AnsibleNames = [k \in 1..20 |-> AnsibleNames[k]]
  BY DEF AnsibleNames
<1>2. /\ t(1) = "ansible-project" /\ t(2) = "ansible-project" /\ t(3) = "ansible"
      /\ t(4) = "ansible-project" /\ t(5) = "ansible-project" /\ t(6) = "ansible-project"
      /\ t(7) = "ansible-project" /\ t(8) = "ansible-project" /\ t(9) = "ansible-project"
      /\ t(10) = "ansible-project" /\ t(11) = "ansible-project"
      /\ t(12) = "ansible-project" /\ t(13) = "ansible-project"
      /\ t(14) = "ansible-project" /\ t(15) = "ansible-project"
      /\ t(16) = "ansible-project" /\ t(17) = "ansible-project"
      /\ t(18) = "ansible-project" /\ t(19) = "ansible" /\ t(20) = "ansible"
  BY DEF AnsibleNames, Row, Hint
<1> HIDE DEF t
<1>3. \A k \in 1..20 : t(k) \in Known
  BY <1>2 DEF Known, Ecosystems
<1> QED BY <1>1, <1>3, RowsOfTable DEF t

LEMMA RowsJenkinsNames == RowsKnown(JenkinsNames)
<1> DEFINE t(k) == JenkinsNames[k].tool
<1>1. DOMAIN JenkinsNames = 1..12 /\ JenkinsNames = [k \in 1..12 |-> JenkinsNames[k]]
  BY DEF JenkinsNames
<1>2. /\ t(1) = "jenkins" /\ t(2) = "jenkins-project" /\ t(3) = "jenkins-project"
      /\ t(4) = "jenkins-project" /\ t(5) = "jenkins-project" /\ t(6) = "jenkins-project"
      /\ t(7) = "jenkins-project" /\ t(8) = "jenkins-project" /\ t(9) = "jenkins-project"
      /\ t(10) = "jenkins-project" /\ t(11) = "teamcity" /\ t(12) = "jenkins-jcasc"
  BY DEF JenkinsNames, Row, Hint
<1> HIDE DEF t
<1>3. \A k \in 1..12 : t(k) \in Known
  BY <1>2 DEF Known, Ecosystems
<1> QED BY <1>1, <1>3, RowsOfTable DEF t

LEMMA RowsChefNames == RowsKnown(ChefNames)
<1> DEFINE t(k) == ChefNames[k].tool
<1>1. DOMAIN ChefNames = 1..17 /\ ChefNames = [k \in 1..17 |-> ChefNames[k]]
  BY DEF ChefNames
<1>2. /\ t(1) = "chef-project" /\ t(2) = "chef-project" /\ t(3) = "chef-project"
      /\ t(4) = "inspec" /\ t(5) = "inspec" /\ t(6) = "inspec" /\ t(7) = "inspec"
      /\ t(8) = "chef-project" /\ t(9) = "chef-project" /\ t(10) = "chef-project"
      /\ t(11) = "chef-project" /\ t(12) = "chef-project" /\ t(13) = "chef-project"
      /\ t(14) = "chef-project" /\ t(15) = "chef" /\ t(16) = "chef" /\ t(17) = "chef"
  BY DEF ChefNames, Row, Hint
<1> HIDE DEF t
<1>3. \A k \in 1..17 : t(k) \in Known
  BY <1>2 DEF Known, Ecosystems
<1> QED BY <1>1, <1>3, RowsOfTable DEF t

LEMMA RowsPolicyNames == RowsKnown(PolicyNames)
<1> DEFINE t(k) == PolicyNames[k].tool
<1>1. DOMAIN PolicyNames = 1..20 /\ PolicyNames = [k \in 1..20 |-> PolicyNames[k]]
  BY DEF PolicyNames
<1>2. /\ t(1) = "puppet-project" /\ t(2) = "puppet-project" /\ t(3) = "puppet"
      /\ t(4) = "salt" /\ t(5) = "salt-project" /\ t(6) = "nix" /\ t(7) = "nix"
      /\ t(8) = "dsc" /\ t(9) = "dsc" /\ t(10) = "cfengine" /\ t(11) = "opa"
      /\ t(12) = "opa" /\ t(13) = "sentinel" /\ t(14) = "sentinel" /\ t(15) = "sops"
      /\ t(16) = "sops" /\ t(17) = "vagrant" /\ t(18) = "docker-bake"
      /\ t(19) = "dockerfile" /\ t(20) = "docker-compose"
  BY DEF PolicyNames, Row, Hint
<1> HIDE DEF t
<1>3. \A k \in 1..20 : t(k) \in Known
  BY <1>2 DEF Known, Ecosystems
<1> QED BY <1>1, <1>3, RowsOfTable DEF t

LEMMA RowsPipelineNames == RowsKnown(PipelineNames)
<1> DEFINE t(k) == PipelineNames[k].tool
<1>1. DOMAIN PipelineNames = 1..18 /\ PipelineNames = [k \in 1..18 |-> PipelineNames[k]]
  BY DEF PipelineNames
<1>2. /\ t(1) = "gitlab-ci" /\ t(2) = "travis-ci" /\ t(3) = "drone-ci"
      /\ t(4) = "woodpecker-ci" /\ t(5) = "woodpecker-ci" /\ t(6) = "github-actions"
      /\ t(7) = "circleci" /\ t(8) = "azure-pipelines" /\ t(9) = "bitbucket-pipelines"
      /\ t(10) = "buildkite" /\ t(11) = "bamboo" /\ t(12) = "concourse"
      /\ t(13) = "concourse" /\ t(14) = "codebuild" /\ t(15) = "cloud-build"
      /\ t(16) = "codepipeline" /\ t(17) = "atlantis" /\ t(18) = "atlantis"
  BY DEF PipelineNames, Row, Hint
<1> HIDE DEF t
<1>3. \A k \in 1..18 : t(k) \in Known
  BY <1>2 DEF Known, Ecosystems
<1> QED BY <1>1, <1>3, RowsOfTable DEF t

LEMMA RowsDeliveryNames == RowsKnown(DeliveryNames)
<1> DEFINE t(k) == DeliveryNames[k].tool
<1>1. DOMAIN DeliveryNames = 1..18 /\ DeliveryNames = [k \in 1..18 |-> DeliveryNames[k]]
  BY DEF DeliveryNames
<1>2. /\ t(1) = "helm" /\ t(2) = "helm" /\ t(3) = "kustomize" /\ t(4) = "helmfile"
      /\ t(5) = "skaffold" /\ t(6) = "devspace" /\ t(7) = "tilt" /\ t(8) = "cue"
      /\ t(9) = "tanka" /\ t(10) = "jsonnet" /\ t(11) = "jsonnet" /\ t(12) = "vendir"
      /\ t(13) = "kbld" /\ t(14) = "kapp" /\ t(15) = "serverless" /\ t(16) = "nomad"
      /\ t(17) = "packer" /\ t(18) = "bicep"
  BY DEF DeliveryNames, Row, Hint
<1> HIDE DEF t
<1>3. \A k \in 1..18 : t(k) \in Known
  BY <1>2 DEF Known, Ecosystems
<1> QED BY <1>1, <1>3, RowsOfTable DEF t

LEMMA RowsServiceNames == RowsKnown(ServiceNames)
<1> DEFINE t(k) == ServiceNames[k].tool
<1>1. DOMAIN ServiceNames = 1..17 /\ ServiceNames = [k \in 1..17 |-> ServiceNames[k]]
  BY DEF ServiceNames
<1>2. /\ t(1) = "systemd" /\ t(2) = "cloud-init" /\ t(3) = "nginx" /\ t(4) = "haproxy"
      /\ t(5) = "envoy" /\ t(6) = "traefik" /\ t(7) = "caddy" /\ t(8) = "grafana"
      /\ t(9) = "grafana" /\ t(10) = "loki" /\ t(11) = "vault" /\ t(12) = "consul"
      /\ t(13) = "prometheus" /\ t(14) = "alertmanager" /\ t(15) = "otel-collector"
      /\ t(16) = "terraform-config" /\ t(17) = "terraform-config"
  BY DEF ServiceNames, Row, Hint
<1> HIDE DEF t
<1>3. \A k \in 1..17 : t(k) \in Known
  BY <1>2 DEF Known, Ecosystems
<1> QED BY <1>1, <1>3, RowsOfTable DEF t

LEMMA RowsSopsHints == RowsKnown(SopsHints)
<1> DEFINE t(k) == SopsHints[k].tool
<1>1. DOMAIN SopsHints = 1..5 /\ SopsHints = [k \in 1..5 |-> SopsHints[k]]
  BY DEF SopsHints
<1>2. /\ t(1) = "sops" /\ t(2) = "sops" /\ t(3) = "sops" /\ t(4) = "sops" /\ t(5) = "none"
  BY DEF SopsHints, Row, Hint
<1> HIDE DEF t
<1>3. \A k \in 1..5 : t(k) \in Known
  BY <1>2 DEF Known, Ecosystems
<1> QED BY <1>1, <1>3, RowsOfTable DEF t

LEMMA RowsYamlHints == RowsKnown(YamlHints)
<1> DEFINE t(k) == YamlHints[k].tool
<1>1. DOMAIN YamlHints = 1..17 /\ YamlHints = [k \in 1..17 |-> YamlHints[k]]
  BY DEF YamlHints
<1>2. /\ t(1) = "sam" /\ t(2) = "serverless" /\ t(3) = "jenkins-jcasc" /\ t(4) = "ytt"
      /\ t(5) = "vendir" /\ t(6) = "kbld" /\ t(7) = "imgpkg" /\ t(8) = "kapp"
      /\ t(9) = "crossplane" /\ t(10) = "crossplane" /\ t(11) = "kubernetes"
      /\ t(12) = "ansible-project" /\ t(13) = "ansible" /\ t(14) = "ansible-project"
      /\ t(15) = "ansible-project" /\ t(16) = "concourse" /\ t(17) = "none"
  BY DEF YamlHints, Row, Hint
<1> HIDE DEF t
<1>3. \A k \in 1..17 : t(k) \in Known
  BY <1>2 DEF Known, Ecosystems
<1> QED BY <1>1, <1>3, RowsOfTable DEF t

LEMMA RowsJsonHints == RowsKnown(JsonHints)
<1> DEFINE t(k) == JsonHints[k].tool
<1>1. DOMAIN JsonHints = 1..14 /\ JsonHints = [k \in 1..14 |-> JsonHints[k]]
  BY DEF JsonHints
<1>2. /\ t(1) = "pulumi" /\ t(2) = "sops" /\ t(3) = "terraform-state"
      /\ t(4) = "terraform-state" /\ t(5) = "docker-bake" /\ t(6) = "terraform"
      /\ t(7) = "cloudformation" /\ t(8) = "pulumi" /\ t(9) = "azure"
      /\ t(10) = "codepipeline" /\ t(11) = "cloud-build" /\ t(12) = "none"
      /\ t(13) = "pulumi" /\ t(14) = "terraform"
  BY DEF JsonHints, Row, Hint
<1> HIDE DEF t
<1>3. \A k \in 1..14 : t(k) \in Known
  BY <1>2 DEF Known, Ecosystems
<1> QED BY <1>1, <1>3, RowsOfTable DEF t

LEMMA NamesAreKnown == RowsKnown(NameTable)
BY RowsJoin, RowsTerraformNames, RowsBoltNames, RowsAnsibleNames, RowsJenkinsNames,
   RowsChefNames, RowsPolicyNames, RowsPipelineNames, RowsDeliveryNames, RowsServiceNames
   DEF NameTable

LEMMA HintsAreKnown == RowsKnown(HintTable)
BY RowsJoin, RowsSopsHints, RowsYamlHints, RowsJsonHints DEF HintTable

LEMMA FirstToolIsKnown ==
    ASSUME NEW rows, RowsKnown(rows), NEW f, FirstTool(rows, f) # "none"
    PROVE  /\ FirstTool(rows, f) \in Ecosystems
           /\ FirstTool(rows, f) \in {rows[k].tool : k \in DOMAIN rows}
<1> DEFINE hits == {k \in DOMAIN rows : Matches(rows[k], f)}
<1>1. hits # {} /\ FirstTool(rows, f) = rows[First(hits)].tool
  BY DEF FirstTool, First
<1>2. DOMAIN rows \subseteq Nat
  BY LengthOf DEF RowsKnown
<1>3. First(hits) \in DOMAIN rows
  <2>1. hits \in SUBSET Nat
    BY <1>2
  <2>2. First(hits) \in hits
    BY <1>1, <2>1, FirstIsListed
  <2> QED BY <2>2
<1> HIDE DEF hits
<1> QED BY <1>1, <1>3 DEF RowsKnown, Known

\* The tools that are served with the given parameters.
ServedWith(takes) == {s.tool : s \in {s \in Served : s.takes = takes}}

LEMMA ServedEach ==
    ASSUME NEW S, NEW takes, Serves(takes, S) \subseteq Served
    PROVE  S \subseteq ServedWith(takes)
<1> SUFFICES ASSUME NEW t \in S PROVE t \in ServedWith(takes)
  OBVIOUS
<1>1. PICK s : s = [tool |-> t, takes |-> takes]
  OBVIOUS
<1>2. s \in Serves(takes, S) /\ s.tool = t /\ s.takes = takes
  BY <1>1 DEF Serves
<1> QED BY <1>2 DEF ServedWith

PlanFileTools ==
    {"analyze-plan", "terraform", "cloudformation", "cdk", "azure", "bicep", "kubernetes",
     "pulumi", "pulumi-project"}
DeliveryFileTools ==
    {"atlantis", "packer", "skaffold", "devspace", "tilt", "cue", "jsonnet", "helmfile",
     "terramate", "carvel"}
PolicyFileTools ==
    {"spacelift", "salt", "nix", "dsc", "cfengine", "opa", "sentinel", "sops", "vagrant",
     "cloud-init", "systemd"}
ServiceFileTools ==
    {"traefik", "otel-collector", "grafana", "vault", "consul", "loki", "caddy",
     "terraform-config", "terraform-lock", "terraform-state", "terragrunt", "helm", "kustomize",
     "crossplane", "serverless", "sam"}
SystemFileTools == {"envoy", "docker-bake", "terraform-stack", "dockerfile"}

LEMMA FilesAreServed ==
    /\ PlanFileTools \subseteq ServedWith(OneFile)
    /\ DeliveryFileTools \subseteq ServedWith(OneFile)
    /\ PolicyFileTools \subseteq ServedWith(OneFile)
    /\ ServiceFileTools \subseteq ServedWith(OneFile)
    /\ SystemFileTools \subseteq ServedWith(OneFile)
<1>1. /\ Serves(OneFile, PlanFileTools) \subseteq Served
      /\ Serves(OneFile, DeliveryFileTools) \subseteq Served
      /\ Serves(OneFile, PolicyFileTools) \subseteq Served
      /\ Serves(OneFile, ServiceFileTools) \subseteq Served
      /\ Serves(OneFile, SystemFileTools) \subseteq Served
  BY DEF Served, ServedPlans, ServedDelivery, ServedPolicies, ServedServices, ServedSystems,
         PlanFileTools, DeliveryFileTools, PolicyFileTools, ServiceFileTools, SystemFileTools
<1> QED BY <1>1, ServedEach

LEMMA KindsAreServed ==
    {"pipeline", "workload", "monitoring", "proxy-config", "configuration-management"}
        \subseteq ServedWith(Kinds)
<1>1. /\ Serves(Kinds, {"pipeline"}) \subseteq Served
      /\ Serves(Kinds, {"workload"}) \subseteq Served
      /\ Serves(Kinds, {"monitoring", "proxy-config", "configuration-management"})
            \subseteq Served
  BY DEF Served, ServedPlans, ServedDelivery, ServedSystems
<1> QED BY <1>1, ServedEach

\* The ecosystems that some tool takes and the server can pass on to it.
TakenBy(tools) == {t.ecosystem : t \in {t \in tools : Callable(t)}}

LEMMA OwnToolsTake ==
    ASSUME NEW S, NEW tools, OwnTools(S) \subseteq tools, S \subseteq ServedWith(OneFile)
    PROVE  S \subseteq TakenBy(tools)
<1> SUFFICES ASSUME NEW e \in S PROVE e \in TakenBy(tools)
  OBVIOUS
<1>1. PICK t : t = [ecosystem |-> e, tool |-> e, by |-> "own", given |-> OneFile]
  OBVIOUS
<1>2. t \in OwnTools(S) /\ t.tool = e /\ t.ecosystem = e /\ t.given = OneFile
  BY <1>1 DEF OwnTools
<1>3. Callable(t)
  BY <1>2 DEF Callable, ServedWith
<1> QED BY <1>2, <1>3 DEF TakenBy

LEMMA OneToolTakes ==
    ASSUME NEW S, NEW tool \in ServedWith(OneFile), NEW by, NEW tools,
           Takes(tool, by, S) \subseteq tools
    PROVE  S \subseteq TakenBy(tools)
<1> SUFFICES ASSUME NEW e \in S PROVE e \in TakenBy(tools)
  OBVIOUS
<1>1. PICK t : t = [ecosystem |-> e, tool |-> tool, by |-> by, given |-> OneFile]
  OBVIOUS
<1>2. t \in Takes(tool, by, S) /\ t.tool = tool /\ t.ecosystem = e /\ t.given = OneFile
  BY <1>1 DEF Takes
<1>3. Callable(t)
  BY <1>2 DEF Callable, ServedWith
<1> QED BY <1>2, <1>3 DEF TakenBy

LEMMA ToldToolTakes ==
    ASSUME NEW S, NEW tool \in ServedWith(Kinds), NEW by, NEW tools,
           Told(tool, by, S) \subseteq tools
    PROVE  S \subseteq TakenBy(tools)
<1> SUFFICES ASSUME NEW e \in S PROVE e \in TakenBy(tools)
  OBVIOUS
<1>1. PICK t : t = [ecosystem |-> e, tool |-> tool, by |-> by, given |-> Kinds]
  OBVIOUS
<1>2. t \in Told(tool, by, S) /\ t.tool = tool /\ t.ecosystem = e /\ t.given = Kinds
  BY <1>1 DEF Told
<1>3. Callable(t)
  BY <1>2 DEF Callable, ServedWith
<1> QED BY <1>2, <1>3 DEF TakenBy

LEMMA EcosystemsAreTaken == Ecosystems \subseteq TakenBy(McpTools)
<1>1. {"cloudformation", "terraform", "cdk"} \subseteq TakenBy(PlanTools)
  <2>1. {"cdk", "cloudformation", "terraform"} \subseteq ServedWith(OneFile)
    BY FilesAreServed DEF PlanFileTools
  <2> QED BY <2>1, OwnToolsTake, OneToolTakes DEF PlanTools
<1>2. {"azure", "bicep", "kubernetes"} \subseteq TakenBy(ManifestTools)
  <2>1. {"azure", "bicep", "kubernetes"} \subseteq ServedWith(OneFile)
    BY FilesAreServed DEF PlanFileTools
  <2> QED BY <2>1, OwnToolsTake, OneToolTakes DEF ManifestTools
<1>3. {"pulumi", "pulumi-project"} \subseteq TakenBy(ProgramTools)
  BY FilesAreServed, OwnToolsTake DEF ProgramTools, PlanFileTools
<1>4. {"github-actions", "gitlab-ci", "circleci", "azure-pipelines", "bitbucket-pipelines",
       "buildkite", "travis-ci", "drone-ci", "woodpecker-ci", "concourse", "bamboo",
       "codebuild", "cloud-build", "codepipeline", "atlantis"}
         \subseteq TakenBy(PipelineTools)
  <2>1. /\ {"atlantis"} \subseteq ServedWith(OneFile)
        /\ {"pipeline"} \subseteq ServedWith(Kinds)
    BY FilesAreServed, KindsAreServed DEF DeliveryFileTools
  <2> QED BY <2>1, OwnToolsTake, ToldToolTakes DEF PipelineTools
<1>5. {"docker-compose", "nomad", "packer", "skaffold"}
         \subseteq TakenBy(WorkloadTools)
  <2>1. /\ {"packer", "skaffold"} \subseteq ServedWith(OneFile)
        /\ {"workload"} \subseteq ServedWith(Kinds)
    BY FilesAreServed, KindsAreServed DEF DeliveryFileTools
  <2> QED BY <2>1, OwnToolsTake, ToldToolTakes DEF WorkloadTools
<1>6. {"devspace", "tilt", "cue", "jsonnet", "tanka"} \subseteq TakenBy(DevelopmentTools)
  <2>1. {"cue", "devspace", "jsonnet", "tilt"} \subseteq ServedWith(OneFile)
    BY FilesAreServed DEF DeliveryFileTools
  <2> QED BY <2>1, OwnToolsTake, OneToolTakes DEF DevelopmentTools
<1>7. {"ytt", "vendir", "kbld", "imgpkg", "kapp", "helmfile", "terramate"}
         \subseteq TakenBy(CarvelTools)
  <2>1. {"carvel", "helmfile", "terramate"} \subseteq ServedWith(OneFile)
    BY FilesAreServed DEF DeliveryFileTools
  <2> QED BY <2>1, OwnToolsTake, OneToolTakes DEF CarvelTools
<1>8. {"spacelift", "salt", "nix", "dsc"} \subseteq TakenBy(StateTools)
  BY FilesAreServed, OwnToolsTake DEF StateTools, PolicyFileTools
<1>9. {"cfengine", "opa", "sentinel", "sops"} \subseteq TakenBy(PolicyTools)
  BY FilesAreServed, OwnToolsTake DEF PolicyTools, PolicyFileTools
<1>10. {"vagrant", "cloud-init", "systemd", "traefik"} \subseteq TakenBy(HostTools)
  BY FilesAreServed, OwnToolsTake DEF HostTools, PolicyFileTools, ServiceFileTools
<1>11. {"grafana", "vault", "consul", "loki"} \subseteq TakenBy(DaemonTools)
  BY FilesAreServed, OwnToolsTake DEF DaemonTools, ServiceFileTools
<1>12. {"caddy", "terraform-config", "terraform-lock"} \subseteq TakenBy(TerraformTools)
  BY FilesAreServed, OwnToolsTake DEF TerraformTools, ServiceFileTools
<1>13. {"terraform-state", "terragrunt", "helm", "kustomize"}
         \subseteq TakenBy(ChartTools)
  BY FilesAreServed, OwnToolsTake DEF ChartTools, ServiceFileTools
<1>14. {"crossplane", "serverless", "sam", "otel-collector"}
         \subseteq TakenBy(SourceTools)
  BY FilesAreServed, OwnToolsTake DEF SourceTools, ServiceFileTools
<1>15. {"prometheus", "alertmanager", "nginx", "haproxy", "envoy"}
         \subseteq TakenBy(EdgeTools)
  <2>1. /\ {"envoy"} \subseteq ServedWith(OneFile)
        /\ {"monitoring", "proxy-config"} \subseteq ServedWith(Kinds)
    BY FilesAreServed, KindsAreServed DEF SystemFileTools
  <2> QED BY <2>1, OwnToolsTake, ToldToolTakes DEF EdgeTools
<1>16. {"docker-bake", "terraform-stack", "dockerfile"}
         \subseteq TakenBy(ImageTools)
  BY FilesAreServed, OwnToolsTake DEF ImageTools, SystemFileTools
<1>17. {"ansible", "ansible-project", "jenkins", "jenkins-jcasc", "jenkins-project", "chef",
       "chef-project", "inspec", "puppet", "puppet-project", "salt-project", "dsc",
       "cfengine", "teamcity"} \subseteq TakenBy(ConfigurationTools)
  <2>1. {"configuration-management"} \subseteq ServedWith(Kinds)
    BY KindsAreServed
  <2> QED BY <2>1, ToldToolTakes DEF ConfigurationTools
<1>18. \A tools \in SUBSET McpTools : TakenBy(tools) \subseteq TakenBy(McpTools)
  BY Zenon DEF TakenBy
<1>19. {PlanTools, ManifestTools, ProgramTools, PipelineTools, WorkloadTools, DevelopmentTools,
        CarvelTools, StateTools, PolicyTools, HostTools, DaemonTools, TerraformTools,
        ChartTools, SourceTools, EdgeTools, ImageTools, ConfigurationTools} \subseteq SUBSET McpTools
  BY DEF McpTools
<1> QED
  BY <1>1, <1>2, <1>3, <1>4, <1>5, <1>6, <1>7, <1>8, <1>9, <1>10, <1>11, <1>12, <1>13,
     <1>14, <1>15, <1>16, <1>17, <1>18, <1>19 DEF Ecosystems

\* What a scan recognises is the tool of a row of the tables.
ToolOf(f, entry) == IF f = "cli" THEN CliTool(entry) ELSE McpTool(entry)

LEMMA ToolsAreKnown ==
    ASSUME NEW f, NEW entry, ToolOf(f, entry) # "none"
    PROVE  ToolOf(f, entry) \in Ecosystems /\ ToolOf(f, entry) \in Tools
<1>1. ASSUME NEW g, NEW read, ToolByName(g, read) # "none"
      PROVE  ToolByName(g, read) \in Ecosystems /\ ToolByName(g, read) \in Tools
  BY <1>1, NamesAreKnown, FirstToolIsKnown DEF ToolByName, Tools
<1>2. ASSUME NEW g, ToolByContent(g) # "none"
      PROVE  ToolByContent(g) \in Ecosystems /\ ToolByContent(g) \in Tools
  BY <1>2, HintsAreKnown, FirstToolIsKnown DEF ToolByContent, Tools
<1>3. CASE f = "cli"
  BY <1>1, <1>2, <1>3 DEF ToolOf, CliTool
<1>4. CASE f # "cli"
  BY <1>1, <1>2, <1>4 DEF ToolOf, McpTool
<1> QED BY <1>3, <1>4

\* A content that the command of an ecosystem gives a gate for gets the same gate
\* from the tool of the server.
LEMMA SameGate ==
    ASSUME NEW e \in Ecosystems, NEW c, CliOutcome(CommandFor(e), Framework, c).outcome = "gate"
    PROVE  McpOutcome(e, Framework, c) = CliOutcome(CommandFor(e), Framework, c)
<1>1. \E t \in McpTools : t.ecosystem = e /\ Callable(t)
  BY EcosystemsAreTaken DEF TakenBy
<1>2. /\ c.kind \notin {"missing", "pipe"} /\ c.readable /\ Framework # "fails"
      /\ CliOutcome(CommandFor(e), Framework, c) = Gives("gate", c.verdict)
      /\ IF CommandFor(e) = "agent-gate" THEN "terraform" \in c.fits
                                        ELSE Recognises(CommandFor(e), c)
  BY DEF CliOutcome, Gives
<1>3. (IF e = "terraform" THEN e ELSE Expected(e)) \in c.fits
  <2>1. CASE e = "terraform"
    BY <1>2, <2>1 DEF CommandFor
  <2>2. CASE e # "terraform"
    <3>1. e # "agent-gate"
      BY DEF Ecosystems
    <3> QED BY <1>2, <2>2, <3>1 DEF CommandFor, Recognises
  <2> QED BY <2>1, <2>2
<1> QED BY <1>1, <1>2, <1>3 DEF McpOutcome

-----------------------------------------------------------------------------
(* The steps of a scan, by what they do to its record                      *)

Records == scan = [f \in Fronts |-> scan[f]] /\ \A f \in Fronts : IsRecord(scan[f])

SizeOf(f, c) ==
    IF c.kind = "missing" \/ (f = "mcp" /\ ~c.readable) THEN -1
    ELSE IF f = "mcp" /\ c.size > MaxFileBytes THEN MaxFileBytes + 1 ELSE c.size

\* What is noted of the place p that is found to be a tool's.
ItemOf(f, p, tool) ==
    [place |-> p, tool |-> tool, size |-> SizeOf(f, tree[p].is), copy |-> tree[p].is]

\* What is noted of the analysis of an item.
EntryOf(f, item) ==
    LET answer == CliOutcome(CommandFor(item.tool), Framework, Input(f, item))
    IN  [place |-> item.place, tool |-> item.tool, code |-> ErrorCode(item, answer),
         risk |-> answer.risk, input |-> Input(f, item)]

Listed == {k \in DOMAIN tree : tree[k].is.kind # "missing" /\ ~tree[k].at.excluded}

\* It is scan f's turn, and its record becomes s.
Turn(f, s) ==
    /\ f \in Fronts /\ IsRecord(s)
    /\ scan' = [scan EXCEPT ![f] = s]
    /\ UNCHANGED <<tree, changes>>

SameAccount(s, old) ==
    /\ s.found = old.found /\ s.results = old.results
    /\ s.errors = old.errors /\ s.decision = old.decision

Walked(f, s) ==
    /\ Turn(f, s) /\ SameAccount(s, scan[f])
    /\ scan[f].pc = "walk" /\ s.pc = "look"
    /\ s.todo = Listed /\ s.at = scan[f].at

\* A place that is looked at ends the scan, is passed over or is recognised.
Looked(f, s) ==
    LET old == scan[f]
        entry == tree[First(old.todo)]
    IN  /\ Turn(f, s) /\ SameAccount(s, old)
        /\ old.pc = "look" /\ old.todo # {} /\ old.at = Nothing
        /\ \/ f = "mcp" /\ s.pc = "failed" /\ s.todo = old.todo /\ s.at = old.at
           \/ /\ ToolOf(f, entry) = "none"
              /\ s.pc = old.pc /\ s.todo = old.todo \ {First(old.todo)} /\ s.at = old.at
           \/ /\ ToolOf(f, entry) # "none"
              /\ s.pc = old.pc /\ s.todo = old.todo /\ s.at = [tool |-> ToolOf(f, entry)]
              /\ f = "mcp" => ~Refused(entry) /\ ~(Len(old.found) >= MaxFiles)

\* A place that was recognised is measured or copied.
Took(f, s) ==
    LET old == scan[f]
        p == First(old.todo)
    IN  /\ Turn(f, s)
        /\ old.pc = "look" /\ old.at # Nothing
        /\ Appended(s.found, old.found, ItemOf(f, p, old.at.tool))
        /\ s.todo = old.todo \ {p} /\ s.at = Nothing
        /\ s.results = old.results /\ s.errors = old.errors /\ s.decision = old.decision
        /\ s.pc = IF f = "cli" /\ Len(s.found) > MaxFiles THEN "failed" ELSE "look"

Ended(f, s) ==
    /\ Turn(f, s) /\ SameAccount(s, scan[f])
    /\ scan[f].pc = "look" /\ scan[f].todo = {} /\ scan[f].at = Nothing
    /\ s.pc = "analyse" /\ s.todo = scan[f].todo /\ s.at = scan[f].at

Answered(f, s) ==
    LET old == scan[f]
        entry == EntryOf(f, old.found[Analysed(f) + 1])
    IN  /\ Turn(f, s)
        /\ old.pc = "analyse" /\ Analysed(f) < Len(old.found)
        /\ s.pc = old.pc /\ s.todo = old.todo /\ s.at = old.at
        /\ s.found = old.found /\ s.decision = old.decision
        /\ \/ entry.code = "none" /\ Appended(s.results, old.results, entry)
                /\ s.errors = old.errors
           \/ entry.code # "none" /\ Appended(s.errors, old.errors, entry)
                /\ s.results = old.results

Concluded(f, s) ==
    /\ Turn(f, s)
    /\ scan[f].pc = "analyse" /\ Analysed(f) = Len(scan[f].found)
    /\ s.pc = "done" /\ s.todo = scan[f].todo /\ s.at = scan[f].at
    /\ s.found = scan[f].found /\ s.results = scan[f].results /\ s.errors = scan[f].errors
    /\ s.decision = IF scan[f].found = <<>> THEN "warn" ELSE DecisionFor(RanksHeard(scan[f]))

OneTurn(f, s) ==
    \/ Walked(f, s) \/ Looked(f, s) \/ Took(f, s)
    \/ Ended(f, s) \/ Answered(f, s) \/ Concluded(f, s)

LEMMA WalkIsTurn ==
    ASSUME Records, NEW f \in Fronts, Walk(f)
    PROVE  \E s : Walked(f, s)
<1>1. PICK s : PcTodoSet(s, scan[f], "look", Listed)
  BY DEF PcTodoSet
<1>2. scan' = [scan EXCEPT ![f] = s] /\ UNCHANGED <<tree, changes>>
  BY <1>1 DEF Walk, PcTodoSet, Listed
<1>3. /\ IsRecord(s) /\ s.pc = "look" /\ s.todo = Listed /\ s.at = scan[f].at
      /\ SameAccount(s, scan[f])
  BY <1>1, SetPcTodo DEF Records, SameAccount
<1>4. scan[f].pc = "walk"
  BY DEF Walk
<1>5. Walked(f, s)
  BY <1>2, <1>3, <1>4 DEF Walked, Turn
<1> QED BY <1>5

LEMMA DiscoveredIsTurn ==
    ASSUME Records, NEW f \in Fronts, Discovered(f)
    PROVE  \E s : Ended(f, s)
<1>1. PICK s : s = [scan[f] EXCEPT !.pc = "analyse"]
  OBVIOUS
<1>2. scan' = [scan EXCEPT ![f] = s] /\ UNCHANGED <<tree, changes>>
  BY <1>1 DEF Discovered
<1>3. /\ IsRecord(s) /\ s.pc = "analyse" /\ s.todo = scan[f].todo /\ s.at = scan[f].at
      /\ SameAccount(s, scan[f])
  BY <1>1, SetPc DEF Records, SameAccount
<1>4. scan[f].pc = "look" /\ scan[f].todo = {} /\ scan[f].at = Nothing
  BY DEF Discovered
<1>5. Ended(f, s)
  BY <1>2, <1>3, <1>4 DEF Ended, Turn
<1> QED BY <1>5

LEMMA LookCliIsTurn ==
    ASSUME Records, LookCli
    PROVE  \E s : Looked("cli", s)
<1> DEFINE old == scan["cli"]
           p == First(old.todo)
           tool == CliTool(tree[p])
<1>1. /\ "cli" \in Fronts /\ IsRecord(old)
      /\ old.pc = "look" /\ old.todo # {} /\ old.at = Nothing
      /\ UNCHANGED <<tree, changes>>
  BY DEF Records, LookCli, Fronts
<1>2. PICK s : /\ scan' = [scan EXCEPT !["cli"] = s]
               /\ \/ tool = "none" /\ s = [old EXCEPT !.todo = @ \ {p}]
                  \/ tool # "none" /\ s = [old EXCEPT !.at = [tool |-> tool]]
  BY DEF LookCli
<1>3. ToolOf("cli", tree[p]) = tool
  BY DEF ToolOf
<1> HIDE DEF tool
<1>4. CASE tool = "none" /\ s = [old EXCEPT !.todo = @ \ {p}]
  <2>1. /\ IsRecord(s) /\ s.todo = old.todo \ {p} /\ s.pc = old.pc /\ s.at = old.at
        /\ SameAccount(s, old)
    BY <1>1, <1>4, SetTodo DEF SameAccount
  <2>2. Looked("cli", s)
    BY <1>1, <1>2, <1>3, <1>4, <2>1 DEF Looked, Turn
  <2> QED BY <2>2
<1>5. CASE tool # "none" /\ s = [old EXCEPT !.at = [tool |-> tool]]
  <2>1. /\ IsRecord(s) /\ s.pc = old.pc /\ s.todo = old.todo /\ s.at = [tool |-> tool]
        /\ SameAccount(s, old)
    BY <1>1, <1>5, SetAt DEF SameAccount
  <2>2. Looked("cli", s)
    BY <1>1, <1>2, <1>3, <1>5, <2>1 DEF Looked, Turn
  <2> QED BY <2>2
<1> QED BY <1>2, <1>4, <1>5

LEMMA LookMcpIsTurn ==
    ASSUME Records, LookMcp
    PROVE  \E s : Looked("mcp", s)
<1> DEFINE old == scan["mcp"]
           p == First(old.todo)
           tool == McpTool(tree[p])
           full == Len(old.found) >= MaxFiles
<1>1. /\ "mcp" \in Fronts /\ IsRecord(old)
      /\ old.pc = "look" /\ old.todo # {} /\ old.at = Nothing
      /\ UNCHANGED <<tree, changes>>
  BY DEF Records, LookMcp, Fronts
<1>2. PICK s : /\ scan' = [scan EXCEPT !["mcp"] = s]
               /\ \/ s = [old EXCEPT !.pc = "failed"]
                  \/ tool = "none" /\ s = [old EXCEPT !.todo = @ \ {p}]
                  \/ /\ tool # "none" /\ s = [old EXCEPT !.at = [tool |-> tool]]
                     /\ ~Refused(tree[p]) /\ ~full
  BY DEF LookMcp
<1>3. ToolOf("mcp", tree[p]) = tool
  BY DEF ToolOf
<1> HIDE DEF tool
<1>4. CASE s = [old EXCEPT !.pc = "failed"]
  <2>1. /\ IsRecord(s) /\ s.pc = "failed" /\ s.todo = old.todo /\ s.at = old.at
        /\ SameAccount(s, old)
    BY <1>1, <1>4, SetPc DEF SameAccount
  <2>2. Looked("mcp", s)
    BY <1>1, <1>2, <2>1 DEF Looked, Turn
  <2> QED BY <2>2
<1>5. CASE tool = "none" /\ s = [old EXCEPT !.todo = @ \ {p}]
  <2>1. /\ IsRecord(s) /\ s.todo = old.todo \ {p} /\ s.pc = old.pc /\ s.at = old.at
        /\ SameAccount(s, old)
    BY <1>1, <1>5, SetTodo DEF SameAccount
  <2>2. Looked("mcp", s)
    BY <1>1, <1>2, <1>3, <1>5, <2>1 DEF Looked, Turn
  <2> QED BY <2>2
<1>6. CASE /\ tool # "none" /\ s = [old EXCEPT !.at = [tool |-> tool]]
           /\ ~Refused(tree[p]) /\ ~full
  <2>1. /\ IsRecord(s) /\ s.pc = old.pc /\ s.todo = old.todo /\ s.at = [tool |-> tool]
        /\ SameAccount(s, old)
    <3>1. s = [old EXCEPT !.at = [tool |-> tool]]
      BY <1>6
    <3> QED BY <1>1, <3>1, SetAt DEF SameAccount
  <2>2. /\ ToolOf("mcp", tree[p]) # "none" /\ s.at = [tool |-> ToolOf("mcp", tree[p])]
        /\ ~Refused(tree[p]) /\ ~(Len(old.found) >= MaxFiles)
    BY <1>3, <1>6, <2>1
  <2>3. Turn("mcp", s)
    BY <1>1, <1>2, <2>1 DEF Turn
  <2>4. Looked("mcp", s)
    BY <1>1, <2>1, <2>2, <2>3, Zenon DEF Looked
  <2> QED BY <2>4
<1> QED BY <1>2, <1>4, <1>5, <1>6

LEMMA MeasureIsTurn ==
    ASSUME Records, IsSeq(scan["cli"].found), Measure
    PROVE  \E s : Took("cli", s)
<1> DEFINE old == scan["cli"]
           p == First(old.todo)
           c == tree[p].is
           size == IF c.kind = "missing" THEN -1 ELSE c.size
<1>1. /\ "cli" \in Fronts /\ IsRecord(old)
      /\ old.pc = "look" /\ old.at # Nothing
      /\ UNCHANGED <<tree, changes>>
  BY DEF Records, Measure, Fronts
<1>2. PICK item : item = [place |-> p, tool |-> old.at.tool, size |-> size, copy |-> c]
  OBVIOUS
<1>3. PICK found : found = Append(old.found, item)
  OBVIOUS
<1>4. PICK pc : pc = IF Len(found) > MaxFiles THEN "failed" ELSE "look"
  OBVIOUS
<1>5. PICK s : s = [old EXCEPT !.found = found, !.todo = @ \ {p}, !.at = Nothing, !.pc = pc]
  OBVIOUS
<1>6. scan' = [scan EXCEPT !["cli"] = s]
  BY <1>2, <1>3, <1>4, <1>5 DEF Measure
<1>7. item = ItemOf("cli", p, old.at.tool)
  BY <1>2 DEF ItemOf, SizeOf
<1> HIDE DEF c, size
<1>8. PICK a : FoundTodoAtSet(a, old, found, old.todo \ {p}, Nothing)
  BY DEF FoundTodoAtSet
<1>9. PICK b : b = [a EXCEPT !.pc = pc]
  OBVIOUS
<1>10. s = b
  BY <1>5, <1>8, <1>9 DEF FoundTodoAtSet
<1>11. /\ IsRecord(a) /\ a.todo = old.todo \ {p} /\ a.at = Nothing /\ a.found = found
       /\ a.results = old.results /\ a.errors = old.errors /\ a.decision = old.decision
  BY <1>1, <1>8, SetFoundTodoAt
<1>12. /\ IsRecord(b) /\ b.todo = old.todo \ {p} /\ b.at = Nothing /\ b.found = found
       /\ b.results = old.results /\ b.errors = old.errors /\ b.decision = old.decision
       /\ b.pc = pc
  BY <1>9, <1>11, SetPc
<1>13. Appended(found, old.found, item)
  BY <1>3, Appending
<1>14. Took("cli", b)
  BY <1>1, <1>4, <1>6, <1>7, <1>10, <1>12, <1>13 DEF Took, Turn
<1> QED BY <1>14

LEMMA CopyIsTurn ==
    ASSUME Records, IsSeq(scan["mcp"].found), Copy
    PROVE  \E s : Took("mcp", s)
<1> DEFINE old == scan["mcp"]
           p == First(old.todo)
           c == tree[p].is
           size == IF c.kind = "missing" \/ ~c.readable THEN -1
                   ELSE IF c.size > MaxFileBytes THEN MaxFileBytes + 1 ELSE c.size
<1>1. /\ "mcp" \in Fronts /\ IsRecord(old)
      /\ old.pc = "look" /\ old.at # Nothing
      /\ UNCHANGED <<tree, changes>>
  BY DEF Records, Copy, Fronts
<1>2. PICK item : item = [place |-> p, tool |-> old.at.tool, size |-> size, copy |-> c]
  OBVIOUS
<1>3. PICK found : found = Append(old.found, item)
  OBVIOUS
<1>4. PICK s : FoundTodoAtSet(s, old, found, old.todo \ {p}, Nothing)
  BY DEF FoundTodoAtSet
<1>5. scan' = [scan EXCEPT !["mcp"] = s]
  BY <1>2, <1>3, <1>4 DEF Copy, FoundTodoAtSet
<1>6. item = ItemOf("mcp", p, old.at.tool)
  BY <1>2 DEF ItemOf, SizeOf
<1> HIDE DEF c, size
<1>7. /\ IsRecord(s) /\ s.pc = old.pc /\ s.todo = old.todo \ {p} /\ s.at = Nothing
      /\ s.found = found /\ s.results = old.results /\ s.errors = old.errors
      /\ s.decision = old.decision
  BY <1>1, <1>4, SetFoundTodoAt
<1>8. Appended(found, old.found, item)
  BY <1>3, Appending
<1>9. Took("mcp", s)
  BY <1>1, <1>5, <1>6, <1>7, <1>8 DEF Took, Turn
<1> QED BY <1>9

LEMMA AnalyseIsTurn ==
    ASSUME Records, NEW f \in Fronts, Analyse(f), IsSeq(scan[f].results), IsSeq(scan[f].errors)
    PROVE  \E s : Answered(f, s)
<1> DEFINE item == scan[f].found[Analysed(f) + 1]
<1>1. IsRecord(scan[f])
  BY DEF Records
<1>2. PICK entry : entry = EntryOf(f, item)
  OBVIOUS
<1>3. /\ scan[f].pc = "analyse" /\ Analysed(f) < Len(scan[f].found)
      /\ UNCHANGED <<tree, changes>>
  BY DEF Analyse
<1>4. scan' = IF entry.code = "none" THEN [scan EXCEPT ![f].results = Append(@, entry)]
              ELSE [scan EXCEPT ![f].errors = Append(@, entry)]
  BY <1>2 DEF Analyse, EntryOf
<1> HIDE DEF item
<1>5. CASE entry.code = "none"
  <2>1. PICK results : results = Append(scan[f].results, entry)
    OBVIOUS
  <2>2. PICK s : s = [scan[f] EXCEPT !.results = results]
    OBVIOUS
  <2>3. scan' = [scan EXCEPT ![f] = s]
    BY <1>4, <1>5, <2>1, <2>2
  <2>4. /\ IsRecord(s) /\ s.todo = scan[f].todo /\ s.at = scan[f].at /\ s.pc = scan[f].pc
        /\ s.found = scan[f].found /\ s.results = results
        /\ s.errors = scan[f].errors /\ s.decision = scan[f].decision
    BY <1>1, <2>2, SetResults
  <2>5. Appended(s.results, scan[f].results, entry)
    BY <2>1, <2>4, Appending
  <2>6. Answered(f, s)
    BY <1>2, <1>3, <1>5, <2>3, <2>4, <2>5 DEF Answered, Turn, item
  <2> QED BY <2>6
<1>6. CASE entry.code # "none"
  <2>1. PICK errors : errors = Append(scan[f].errors, entry)
    OBVIOUS
  <2>2. PICK s : s = [scan[f] EXCEPT !.errors = errors]
    OBVIOUS
  <2>3. scan' = [scan EXCEPT ![f] = s]
    BY <1>4, <1>6, <2>1, <2>2
  <2>4. /\ IsRecord(s) /\ s.todo = scan[f].todo /\ s.at = scan[f].at /\ s.pc = scan[f].pc
        /\ s.found = scan[f].found /\ s.results = scan[f].results
        /\ s.errors = errors /\ s.decision = scan[f].decision
    BY <1>1, <2>2, SetErrors
  <2>5. Appended(s.errors, scan[f].errors, entry)
    BY <2>1, <2>4, Appending
  <2>6. Answered(f, s)
    BY <1>2, <1>3, <1>6, <2>3, <2>4, <2>5 DEF Answered, Turn, item
  <2> QED BY <2>6
<1> QED BY <1>5, <1>6

LEMMA AggregateIsTurn ==
    ASSUME Records, NEW f \in Fronts, Aggregate(f)
    PROVE  \E s : Concluded(f, s)
<1>1. /\ IsRecord(scan[f])
      /\ scan[f].pc = "analyse" /\ Analysed(f) = Len(scan[f].found)
      /\ UNCHANGED <<tree, changes>>
  BY DEF Records, Aggregate
<1>2. PICK decision : decision = IF scan[f].found = <<>> THEN "warn"
                                 ELSE DecisionFor(RanksHeard(scan[f]))
  OBVIOUS
<1>3. PICK s : PcDecisionSet(s, scan[f], "done", decision)
  BY DEF PcDecisionSet
<1>4. scan' = [scan EXCEPT ![f] = s]
  BY <1>2, <1>3 DEF Aggregate, PcDecisionSet
<1>5. /\ IsRecord(s) /\ s.pc = "done" /\ s.todo = scan[f].todo /\ s.at = scan[f].at
      /\ s.found = scan[f].found /\ s.results = scan[f].results
      /\ s.errors = scan[f].errors /\ s.decision = decision
  BY <1>1, <1>3, SetPcDecision
<1>6. Concluded(f, s)
  BY <1>1, <1>2, <1>4, <1>5 DEF Concluded, Turn
<1> QED BY <1>6

LEMMA ScanIsTurns ==
    ASSUME Records,
           \A f \in Fronts :
               IsSeq(scan[f].found) /\ IsSeq(scan[f].results) /\ IsSeq(scan[f].errors),
           CliStep \/ McpStep
    PROVE  \E f, s : OneTurn(f, s)
<1>1. "cli" \in Fronts /\ "mcp" \in Fronts
  BY DEF Fronts
<1>2. ASSUME NEW f \in Fronts, ScanStep(f)
      PROVE  \E s : OneTurn(f, s)
  BY <1>2, WalkIsTurn, DiscoveredIsTurn, AnalyseIsTurn, AggregateIsTurn
     DEF ScanStep, OneTurn
<1>3. CASE CliStep
  BY <1>1, <1>2, <1>3, LookCliIsTurn, MeasureIsTurn DEF CliStep, OneTurn
<1>4. CASE McpStep
  BY <1>1, <1>2, <1>4, LookMcpIsTurn, CopyIsTurn DEF McpStep, OneTurn
<1> QED BY <1>3, <1>4

-----------------------------------------------------------------------------
(* The inductive invariant                                                 *)

TreeInv ==
    /\ DOMAIN tree \subseteq Nat
    /\ tree = [k \in DOMAIN tree |-> tree[k]]
    /\ \A k \in DOMAIN tree :
         /\ tree[k] = [at |-> tree[k].at, is |-> tree[k].is]
         /\ IsContent(tree[k].is)
         /\ \A c \in Contents(tree[k].at) : IsContent(c) /\ c.kind \in {"file", "missing"}

IsScan(s) ==
    /\ IsRecord(s)
    /\ IsSeq(s.found) /\ IsSeq(s.results) /\ IsSeq(s.errors)
    /\ Len(s.results) + Len(s.errors) <= Len(s.found)

\* What was measured is the size of the copy, unless it was too large or not
\* readable.
IsItem(f, item) ==
    /\ item.size \in Int
    /\ f = "mcp" =>
         /\ IsContent(item.copy) /\ item.copy.kind # "link"
         /\ item.size \in 0..MaxFileBytes => item.copy.readable /\ item.size = item.copy.size

\* r is the result of analysing an item.
IsResultOf(f, item, r) ==
    /\ r.place = item.place /\ r.tool = item.tool
    /\ item.size \in 0..MaxFileBytes
    /\ r.risk = r.input.verdict
    /\ f = "mcp" => r.input = item.copy /\ r.input.kind \notin {"missing", "pipe"}

\* Results are of items, and in their order as long as there are no errors.
AccountInv(f, s) ==
    /\ \A k \in 1..Len(s.found) : IsItem(f, s.found[k])
    /\ \A j \in 1..Len(s.results) : \E k \in 1..Len(s.found) :
           IsResultOf(f, s.found[k], s.results[j])
    /\ Len(s.errors) = 0 =>
         \A j \in 1..Len(s.results) : IsResultOf(f, s.found[j], s.results[j])

DecisionInv(s) ==
    /\ s.decision # "none" => s.pc = "done"
    /\ s.decision = "proceed" =>
         /\ s.found # <<>> /\ Len(s.errors) = 0 /\ Len(s.results) = Len(s.found)
         /\ \A j \in 1..Len(s.results) : s.results[j].risk = "safe"

ScanInv(f, s) == IsScan(s) /\ AccountInv(f, s) /\ DecisionInv(s)

\* The place in hand is listed, and the tool's is not a link.
PlaceInv(f, s) ==
    /\ s.todo \subseteq DOMAIN tree
    /\ s.at # Nothing => s.pc = "look" /\ s.todo # {}
    /\ s.at # Nothing /\ f = "mcp" => tree[First(s.todo)].is.kind # "link"

ProgressInv ==
    /\ TreeInv
    /\ scan = [f \in Fronts |-> scan[f]]
    /\ \A f \in Fronts : ScanInv(f, scan[f]) /\ PlaceInv(f, scan[f])

LEMMA InitProgress == Init => ProgressInv
<1> SUFFICES ASSUME Init PROVE ProgressInv
  OBVIOUS
<1>1. TreeInv
  BY TreesAssumption DEF Init, TreeInv
<1>2. IsSeq(<<>>)
  BY DEF IsSeq
<1>3. scan = [f \in Fronts |-> scan[f]]
  BY DEF Init
<1>4. ASSUME NEW f \in Fronts
      PROVE  ScanInv(f, scan[f]) /\ PlaceInv(f, scan[f])
  <2>1. /\ scan[f].pc \in {"walk", "failed"} /\ scan[f].todo = {} /\ scan[f].at = Nothing
        /\ scan[f].found = <<>> /\ scan[f].results = <<>> /\ scan[f].errors = <<>>
        /\ scan[f].decision = "none"
        /\ scan[f] = [pc |-> scan[f].pc, todo |-> scan[f].todo, at |-> scan[f].at,
                      found |-> scan[f].found, results |-> scan[f].results,
                      errors |-> scan[f].errors, decision |-> scan[f].decision]
    BY DEF Init
  <2> QED BY <1>2, <2>1 DEF ScanInv, IsScan, IsRecord, AccountInv, DecisionInv, PlaceInv
<1> QED BY <1>1, <1>3, <1>4 DEF ProgressInv

-----------------------------------------------------------------------------
(* Each step keeps the invariant                                           *)

LEMMA ProgressHasRecords ==
    ASSUME ProgressInv
    PROVE  /\ Records
           /\ \A f \in Fronts :
                  IsSeq(scan[f].found) /\ IsSeq(scan[f].results) /\ IsSeq(scan[f].errors)
BY DEF ProgressInv, ScanInv, IsScan, Records

\* A step of a scan leaves the tree alone and has only its own record to answer for.
LEMMA OneScanMoves ==
    ASSUME ProgressInv, NEW f, NEW s, Turn(f, s), ScanInv(f, s), PlaceInv(f, s)
    PROVE  ProgressInv'
<1>1. TreeInv'
  BY DEF ProgressInv, TreeInv, Turn
<1>2. /\ scan' = [g \in Fronts |-> scan'[g]]
      /\ scan'[f] = s
      /\ \A g \in Fronts \ {f} : scan'[g] = scan[g]
  BY DEF ProgressInv, Turn
<1>3. ASSUME NEW g \in Fronts
      PROVE  ScanInv(g, scan'[g])
  BY <1>2 DEF ProgressInv
<1>4. ASSUME NEW g \in Fronts
      PROVE  PlaceInv(g, scan[g])'
  BY <1>2 DEF ProgressInv, PlaceInv, Turn
<1> QED BY <1>1, <1>2, <1>3, <1>4 DEF ProgressInv

LEMMA WalkedProgress ==
    ASSUME ProgressInv, NEW f, NEW s, Walked(f, s)
    PROVE  ProgressInv'
<1>1. /\ Turn(f, s) /\ f \in Fronts /\ IsRecord(s) /\ SameAccount(s, scan[f])
      /\ scan[f].pc = "walk" /\ s.pc = "look" /\ s.todo = Listed /\ s.at = scan[f].at
  BY DEF Walked, Turn
<1>2. ScanInv(f, scan[f]) /\ PlaceInv(f, scan[f])
  BY <1>1 DEF ProgressInv
<1>3. ScanInv(f, s)
  BY <1>1, <1>2 DEF ScanInv, IsScan, AccountInv, DecisionInv, SameAccount
<1>4. PlaceInv(f, s)
  BY <1>1, <1>2 DEF PlaceInv, Listed
<1> QED BY <1>1, <1>3, <1>4, OneScanMoves

\* The tool does not recognise links.
LEMMA NoLinks ==
    ASSUME NEW entry, ToolOf("mcp", entry) # "none"
    PROVE  entry.is.kind # "link"
BY DEF ToolOf, McpTool

LEMMA LookedProgress ==
    ASSUME ProgressInv, NEW f, NEW s, Looked(f, s)
    PROVE  ProgressInv'
<1> DEFINE old == scan[f]
           p == First(old.todo)
<1>1. /\ Turn(f, s) /\ f \in Fronts /\ IsRecord(s) /\ SameAccount(s, old)
      /\ old.pc = "look" /\ old.todo # {} /\ old.at = Nothing
  BY DEF Looked, Turn
<1>2. ScanInv(f, old) /\ PlaceInv(f, old)
  BY <1>1 DEF ProgressInv
<1>3. ScanInv(f, s)
  BY <1>1, <1>2 DEF ScanInv, IsScan, AccountInv, DecisionInv, SameAccount
<1>4. PlaceInv(f, s)
  <2>1. CASE s.at = old.at /\ s.todo \subseteq old.todo
    BY <1>1, <1>2, <2>1 DEF PlaceInv
  <2>2. CASE ToolOf(f, tree[p]) # "none" /\ s.pc = old.pc /\ s.todo = old.todo
    BY <1>1, <1>2, <2>2, NoLinks DEF PlaceInv
  <2> QED BY <1>1, <2>1, <2>2 DEF Looked
<1> QED BY <1>1, <1>3, <1>4, OneScanMoves

\* A place is finished with once what was found there is appended.
LEMMA FindingProgress ==
    ASSUME NEW f, NEW old, ScanInv(f, old), NEW item, IsItem(f, item), NEW s,
           old.pc = "look", IsRecord(s), Appended(s.found, old.found, item),
           s.results = old.results, s.errors = old.errors,
           s.decision = old.decision
    PROVE  ScanInv(f, s)
<1>1. ScanInv(f, old)
  OBVIOUS
<1>2. /\ IsSeq(s.found)
      /\ Len(s.found) = Len(old.found) + 1
      /\ s.found[Len(old.found) + 1] = item
      /\ \A i \in 1..Len(old.found) : s.found[i] = old.found[i]
  BY DEF Appended
<1>3. /\ Len(old.found) \in Nat /\ Len(old.results) \in Nat
      /\ Len(old.errors) \in Nat
      /\ Len(old.results) + Len(old.errors) <= Len(old.found)
  BY <1>1, LengthOf DEF ScanInv, IsScan
<1>4. IsScan(s)
  <2>1. IsSeq(s.results) /\ IsSeq(s.errors)
    BY <1>1 DEF ScanInv, IsScan
  <2>2. Len(s.results) + Len(s.errors) <= Len(s.found)
    <3>1. Len(old.results) + Len(old.errors) <= Len(old.found) + 1
      BY <1>3, Room
    <3> QED BY <1>2, <3>1
  <2> QED BY <1>2, <2>1, <2>2, Zenon DEF IsScan
<1>5. \A k \in 1..Len(s.found) : IsItem(f, s.found[k])
  BY <1>1, <1>2, <1>3 DEF ScanInv, AccountInv
<1>6. \A j \in 1..Len(s.results) : \E k \in 1..Len(s.found) :
          IsResultOf(f, s.found[k], s.results[j])
  <2> TAKE j \in 1..Len(s.results)
  <2>1. PICK k \in 1..Len(old.found) :
            IsResultOf(f, old.found[k], old.results[j])
    BY <1>1 DEF ScanInv, AccountInv
  <2>2. k \in 1..Len(s.found) /\ s.found[k] = old.found[k]
    BY <1>2, <1>3
  <2> QED BY <2>1, <2>2
<1>7. Len(s.errors) = 0 =>
          \A j \in 1..Len(s.results) : IsResultOf(f, s.found[j], s.results[j])
  <2> SUFFICES ASSUME Len(s.errors) = 0, NEW j \in 1..Len(s.results)
               PROVE  IsResultOf(f, s.found[j], s.results[j])
    OBVIOUS
  <2>1. IsResultOf(f, old.found[j], old.results[j])
    BY <1>1 DEF ScanInv, AccountInv
  <2>2. s.found[j] = old.found[j]
    BY <1>2, <1>3
  <2> QED BY <2>1, <2>2
<1>8. AccountInv(f, s)
  BY <1>5, <1>6, <1>7 DEF AccountInv
<1>9. DecisionInv(s)
  BY <1>1 DEF ScanInv, DecisionInv
<1> QED BY <1>4, <1>8, <1>9 DEF ScanInv

\* The place in hand is a place of the tree.
LEMMA PlaceInHand ==
    ASSUME ProgressInv, NEW f \in Fronts, scan[f].at # Nothing
    PROVE  LET p == First(scan[f].todo)
           IN  /\ IsContent(tree[p].is)
               /\ f = "mcp" => tree[p].is.kind # "link"
<1>1. scan[f].todo \in SUBSET Nat /\ scan[f].todo # {} /\ scan[f].todo \subseteq DOMAIN tree
  BY DEF ProgressInv, TreeInv, PlaceInv
<1>2. First(scan[f].todo) \in DOMAIN tree
  BY <1>1, FirstIsListed
<1> QED BY <1>2 DEF ProgressInv, TreeInv, PlaceInv

LEMMA TookProgress ==
    ASSUME ProgressInv, NEW f, NEW s, Took(f, s)
    PROVE  ProgressInv'
<1> DEFINE old == scan[f]
           p == First(old.todo)
           item == ItemOf(f, p, old.at.tool)
<1>1. /\ Turn(f, s) /\ f \in Fronts /\ IsRecord(s)
      /\ old.pc = "look" /\ old.at # Nothing
      /\ Appended(s.found, old.found, item)
      /\ s.todo = old.todo \ {p} /\ s.at = Nothing
      /\ s.results = old.results /\ s.errors = old.errors /\ s.decision = old.decision
  BY DEF Took, Turn
<1>2. ScanInv(f, old) /\ PlaceInv(f, old)
  BY <1>1 DEF ProgressInv
<1>3. IsItem(f, item)
  <2>1. PICK c : c = tree[p].is
    OBVIOUS
  <2>2. IsContent(c) /\ (f = "mcp" => c.kind # "link")
    BY <1>1, <2>1, PlaceInHand
  <2>3. /\ SizeOf(f, c) \in Int
        /\ f = "mcp" /\ SizeOf(f, c) \in 0..MaxFileBytes => c.readable /\ SizeOf(f, c) = c.size
    BY <2>2, LimitAssumption DEF IsContent, SizeOf
  <2>4. item.size = SizeOf(f, c) /\ item.copy = c
    BY <2>1 DEF ItemOf
  <2> HIDE DEF item
  <2> QED BY <2>2, <2>3, <2>4 DEF IsItem
<1>4. ScanInv(f, s)
  BY <1>1, <1>2, <1>3, FindingProgress
<1>5. PlaceInv(f, s)
  BY <1>1, <1>2 DEF PlaceInv
<1> QED BY <1>1, <1>4, <1>5, OneScanMoves

LEMMA EndedProgress ==
    ASSUME ProgressInv, NEW f, NEW s, Ended(f, s)
    PROVE  ProgressInv'
<1>1. /\ Turn(f, s) /\ f \in Fronts /\ IsRecord(s) /\ SameAccount(s, scan[f])
      /\ scan[f].pc = "look" /\ scan[f].at = Nothing
      /\ s.pc = "analyse" /\ s.todo = scan[f].todo /\ s.at = scan[f].at
  BY DEF Ended, Turn
<1>2. ScanInv(f, scan[f]) /\ PlaceInv(f, scan[f])
  BY <1>1 DEF ProgressInv
<1>3. ScanInv(f, s)
  BY <1>1, <1>2 DEF ScanInv, IsScan, AccountInv, DecisionInv, SameAccount
<1>4. PlaceInv(f, s)
  BY <1>1, <1>2 DEF PlaceInv
<1> QED BY <1>1, <1>3, <1>4, OneScanMoves

\* A gate comes of a file that was read, and gives that file's risk.
LEMMA GateReads ==
    ASSUME NEW command, NEW c, CliOutcome(command, Framework, c).outcome = "gate"
    PROVE  /\ CliOutcome(command, Framework, c).risk = c.verdict
           /\ c.kind \notin {"missing", "pipe"} /\ c.readable
BY DEF CliOutcome, Gives

\* Adding a result of the next item.
LEMMA ResultProgress ==
    ASSUME NEW f, NEW old, ScanInv(f, old), NEW r, NEW s,
           old.pc = "analyse",
           Len(old.results) + Len(old.errors) < Len(old.found),
           IsResultOf(f, old.found[Len(old.results) + Len(old.errors) + 1], r),
           IsRecord(s), s.found = old.found,
           Appended(s.results, old.results, r), s.errors = old.errors,
           s.decision = old.decision
    PROVE  ScanInv(f, s)
<1>1. ScanInv(f, old)
  OBVIOUS
<1>2. /\ IsSeq(s.results)
      /\ Len(s.results) = Len(old.results) + 1
      /\ s.results[Len(old.results) + 1] = r
      /\ \A i \in 1..Len(old.results) : s.results[i] = old.results[i]
  BY DEF Appended
<1>3. /\ Len(old.found) \in Nat /\ Len(old.results) \in Nat
      /\ Len(old.errors) \in Nat
      /\ Len(old.results) + Len(old.errors) < Len(old.found)
  BY <1>1, LengthOf DEF ScanInv, IsScan
<1>4. IsScan(s)
  <2>1. IsSeq(s.found) /\ IsSeq(s.errors)
    BY <1>1 DEF ScanInv, IsScan
  <2>2. Len(s.results) + Len(s.errors) <= Len(s.found)
    <3>1. (Len(old.results) + 1) + Len(old.errors) <= Len(old.found)
      BY <1>3, Room
    <3> QED BY <1>2, <3>1
  <2> QED BY <1>2, <2>1, <2>2, Zenon DEF IsScan
<1>5. \A k \in 1..Len(s.found) : IsItem(f, s.found[k])
  BY <1>1 DEF ScanInv, AccountInv
<1>6. \A j \in 1..Len(s.results) : \E k \in 1..Len(s.found) :
          IsResultOf(f, s.found[k], s.results[j])
  <2> TAKE j \in 1..Len(s.results)
  <2>1. CASE j = Len(old.results) + 1
    <3>1. Len(old.results) + Len(old.errors) + 1 \in 1..Len(s.found)
      BY <1>3, Room
    <3>2. s.results[j] = r
      BY <1>2, <2>1
    <3> QED BY <3>1, <3>2
  <2>2. CASE j # Len(old.results) + 1
    <3>1. j \in 1..Len(old.results) /\ s.results[j] = old.results[j]
      BY <1>2, <1>3, <2>2
    <3> QED BY <1>1, <3>1 DEF ScanInv, AccountInv
  <2> QED BY <2>1, <2>2
<1>7. Len(s.errors) = 0 =>
          \A j \in 1..Len(s.results) : IsResultOf(f, s.found[j], s.results[j])
  <2> SUFFICES ASSUME Len(s.errors) = 0, NEW j \in 1..Len(s.results)
               PROVE  IsResultOf(f, s.found[j], s.results[j])
    OBVIOUS
  <2>1. CASE j = Len(old.results) + 1
    <3>1. j = Len(old.results) + Len(old.errors) + 1 /\ s.results[j] = r
      BY <1>2, <1>3, <2>1
    <3> QED BY <3>1
  <2>2. CASE j # Len(old.results) + 1
    <3>1. j \in 1..Len(old.results) /\ s.results[j] = old.results[j]
      BY <1>2, <1>3, <2>2
    <3> QED BY <1>1, <3>1 DEF ScanInv, AccountInv
  <2> QED BY <2>1, <2>2
<1>8. AccountInv(f, s)
  BY <1>5, <1>6, <1>7 DEF AccountInv
<1>9. DecisionInv(s)
  BY <1>1 DEF ScanInv, DecisionInv
<1> QED BY <1>4, <1>8, <1>9 DEF ScanInv

\* Adding an error: from now on there is one.
LEMMA ErrorProgress ==
    ASSUME NEW f, NEW old, ScanInv(f, old), NEW e, NEW s,
           old.pc = "analyse",
           Len(old.results) + Len(old.errors) < Len(old.found),
           IsRecord(s), s.found = old.found,
           s.results = old.results, Appended(s.errors, old.errors, e),
           s.decision = old.decision
    PROVE  ScanInv(f, s)
<1>1. ScanInv(f, old)
  OBVIOUS
<1>2. IsSeq(s.errors) /\ Len(s.errors) = Len(old.errors) + 1
  BY DEF Appended
<1>3. /\ Len(old.found) \in Nat /\ Len(old.results) \in Nat
      /\ Len(old.errors) \in Nat
      /\ Len(old.results) + Len(old.errors) < Len(old.found)
  BY <1>1, LengthOf DEF ScanInv, IsScan
<1>4. IsScan(s)
  <2>1. IsSeq(s.found) /\ IsSeq(s.results)
    BY <1>1 DEF ScanInv, IsScan
  <2>2. Len(s.results) + Len(s.errors) <= Len(s.found)
    <3>1. Len(old.results) + (Len(old.errors) + 1) <= Len(old.found)
      BY <1>3, Room
    <3> QED BY <1>2, <3>1
  <2> QED BY <1>2, <2>1, <2>2, Zenon DEF IsScan
<1>5. Len(s.errors) # 0
  BY <1>2, <1>3
<1>6. AccountInv(f, s)
  BY <1>1, <1>5 DEF ScanInv, AccountInv
<1>7. DecisionInv(s)
  BY <1>1 DEF ScanInv, DecisionInv
<1> QED BY <1>4, <1>6, <1>7 DEF ScanInv

\* The next item that is analysed is one that was found.
LEMMA NextItem ==
    ASSUME NEW f, IsScan(scan[f]), Analysed(f) < Len(scan[f].found)
    PROVE  Analysed(f) + 1 \in 1..Len(scan[f].found)
<1>1. /\ Len(scan[f].results) \in Nat /\ Len(scan[f].errors) \in Nat
      /\ Len(scan[f].found) \in Nat
  BY LengthOf DEF IsScan
<1> QED BY <1>1, Room DEF Analysed

LEMMA EntryIsResult ==
    ASSUME NEW f, NEW item, IsItem(f, item), EntryOf(f, item).code = "none"
    PROVE  IsResultOf(f, item, EntryOf(f, item))
<1> DEFINE input == Input(f, item)
           answer == CliOutcome(CommandFor(item.tool), Framework, input)
           entry == EntryOf(f, item)
<1>1. /\ entry.place = item.place /\ entry.tool = item.tool
      /\ entry.code = ErrorCode(item, answer)
      /\ entry.risk = answer.risk /\ entry.input = input
  BY DEF EntryOf
<1>2. ~(item.size < 0) /\ ~(item.size > MaxFileBytes) /\ answer.outcome = "gate"
  BY <1>1 DEF ErrorCode
<1>3. item.size \in 0..MaxFileBytes
  BY <1>2, LimitAssumption DEF IsItem
<1>4. answer.risk = input.verdict /\ input.kind \notin {"missing", "pipe"}
  BY <1>2, GateReads
<1>5. f = "mcp" => input = item.copy
  BY DEF Input
<1> HIDE DEF input, answer, entry
<1> QED BY <1>1, <1>3, <1>4, <1>5 DEF IsResultOf, entry

LEMMA AnsweredProgress ==
    ASSUME ProgressInv, NEW f, NEW s, Answered(f, s)
    PROVE  ProgressInv'
<1> DEFINE old == scan[f]
           item == old.found[Analysed(f) + 1]
           entry == EntryOf(f, item)
<1>1. /\ Turn(f, s) /\ f \in Fronts /\ IsRecord(s)
      /\ old.pc = "analyse" /\ Analysed(f) < Len(old.found)
      /\ s.pc = old.pc /\ s.todo = old.todo /\ s.at = old.at
      /\ s.found = old.found /\ s.decision = old.decision
  BY DEF Answered, Turn
<1>2. \/ entry.code = "none" /\ Appended(s.results, old.results, entry) /\ s.errors = old.errors
      \/ Appended(s.errors, old.errors, entry) /\ s.results = old.results
  BY DEF Answered
<1>3. ScanInv(f, old) /\ PlaceInv(f, old)
  BY <1>1 DEF ProgressInv
<1>4. IsItem(f, item)
  BY <1>1, <1>3, NextItem DEF ScanInv, AccountInv
<1>5. entry.code = "none" => IsResultOf(f, item, entry)
  BY <1>4, EntryIsResult
<1> HIDE DEF entry
<1>6. ScanInv(f, s)
  BY <1>1, <1>2, <1>3, <1>5, ResultProgress, ErrorProgress DEF Analysed
<1>7. PlaceInv(f, s)
  BY <1>1, <1>3 DEF PlaceInv
<1> QED BY <1>1, <1>6, <1>7, OneScanMoves

\* Only what is all safe and without errors proceeds.
LEMMA ProceedsWhenClear ==
    ASSUME NEW s, IsScan(s), DecisionFor(RanksHeard(s)) = "proceed"
    PROVE  /\ Len(s.errors) = 0
           /\ \A j \in 1..Len(s.results) : s.results[j].risk = "safe"
<1>1. RanksHeard(s) \intersect {1, 2, 3} = {}
  BY DEF DecisionFor
<1>2. s.errors = <<>>
  BY <1>1 DEF RanksHeard
<1>3. ASSUME NEW j \in 1..Len(s.results)
      PROVE  s.results[j].risk = "safe"
  <2>1. RiskRank(s.results[j].risk) \in RanksHeard(s)
    BY LengthOf DEF RanksHeard, IsScan
  <2>2. RiskRank(s.results[j].risk) \notin {1, 2, 3}
    BY <1>1, <2>1
  <2> QED BY <2>2 DEF RiskRank
<1> QED BY <1>2, <1>3

LEMMA ConcludedProgress ==
    ASSUME ProgressInv, NEW f, NEW s, Concluded(f, s)
    PROVE  ProgressInv'
<1>1. /\ Turn(f, s) /\ f \in Fronts /\ IsRecord(s)
      /\ scan[f].pc = "analyse" /\ Analysed(f) = Len(scan[f].found)
      /\ s.pc = "done" /\ s.todo = scan[f].todo /\ s.at = scan[f].at
      /\ s.found = scan[f].found /\ s.results = scan[f].results /\ s.errors = scan[f].errors
      /\ s.decision = IF scan[f].found = <<>> THEN "warn" ELSE DecisionFor(RanksHeard(scan[f]))
  BY DEF Concluded, Turn
<1>2. ScanInv(f, scan[f]) /\ PlaceInv(f, scan[f])
  BY <1>1 DEF ProgressInv
<1>3. IsScan(s) /\ AccountInv(f, s)
  BY <1>1, <1>2 DEF ScanInv, IsScan, AccountInv
<1>4. ASSUME s.decision = "proceed"
      PROVE  /\ scan[f].found # <<>> /\ Len(scan[f].errors) = 0
             /\ Len(scan[f].results) = Len(scan[f].found)
             /\ \A j \in 1..Len(scan[f].results) : scan[f].results[j].risk = "safe"
  <2>1. scan[f].found # <<>> /\ DecisionFor(RanksHeard(scan[f])) = "proceed"
    BY <1>1, <1>4
  <2>2. /\ Len(scan[f].errors) = 0
        /\ \A j \in 1..Len(scan[f].results) : scan[f].results[j].risk = "safe"
    BY <1>2, <2>1, ProceedsWhenClear DEF ScanInv
  <2>3. Len(scan[f].results) \in Nat /\ Len(scan[f].errors) \in Nat
    BY <1>2, LengthOf DEF ScanInv, IsScan
  <2> QED BY <1>1, <2>1, <2>2, <2>3 DEF Analysed
<1>5. DecisionInv(s)
  BY <1>1, <1>4 DEF DecisionInv
<1>6. PlaceInv(f, s)
  <2>1. scan[f].at = Nothing
    BY <1>1, <1>2 DEF PlaceInv
  <2> QED BY <1>1, <1>2, <2>1 DEF PlaceInv
<1> QED BY <1>1, <1>3, <1>5, <1>6, OneScanMoves DEF ScanInv

LEMMA ChangeProgress ==
    ASSUME ProgressInv, Change
    PROVE  ProgressInv'
<1>0. PICK p \in DOMAIN tree : \E c \in Contents(tree[p].at) :
          /\ tree[p].is.kind \in {"file", "missing"}
          /\ tree' = [tree EXCEPT ![p].is = c]
  BY DEF Change
<1>1. PICK c \in Contents(tree[p].at) :
          /\ tree[p].is.kind \in {"file", "missing"}
          /\ tree' = [tree EXCEPT ![p].is = c]
  BY <1>0
<1>2. UNCHANGED scan
  BY DEF Change
<1>3. /\ TreeInv
      /\ IsContent(c) /\ c.kind \in {"file", "missing"}
  BY <1>1 DEF ProgressInv, TreeInv
<1>4. PICK entry : entry = [tree[p] EXCEPT !.is = c]
  OBVIOUS
<1>5. entry.at = tree[p].at /\ entry.is = c /\ entry = [at |-> entry.at, is |-> entry.is]
  <2>1. tree[p] = [at |-> tree[p].at, is |-> tree[p].is]
    BY <1>1, <1>3 DEF TreeInv
  <2>2. entry = [at |-> tree[p].at, is |-> c]
    BY <1>4, <2>1
  <2> QED BY <2>2
<1>6. /\ DOMAIN tree' = DOMAIN tree
      /\ tree' = [k \in DOMAIN tree' |-> tree'[k]]
      /\ tree'[p] = entry
      /\ \A k \in DOMAIN tree \ {p} : tree'[k] = tree[k]
  <2>1. tree' = [tree EXCEPT ![p] = entry]
    BY <1>1, <1>4
  <2> QED BY <1>1, <1>3, <2>1 DEF TreeInv
<1>7. ASSUME NEW k \in DOMAIN tree'
      PROVE  /\ tree'[k] = [at |-> tree'[k].at, is |-> tree'[k].is]
             /\ IsContent(tree'[k].is)
             /\ \A d \in Contents(tree'[k].at) : IsContent(d) /\ d.kind \in {"file", "missing"}
  <2>1. CASE k = p
    <3>1. \A d \in Contents(tree[p].at) : IsContent(d) /\ d.kind \in {"file", "missing"}
      BY <1>1, <1>3 DEF TreeInv
    <3> QED BY <1>3, <1>5, <1>6, <2>1, <3>1
  <2>2. CASE k # p
    BY <1>3, <1>6, <2>2 DEF TreeInv
  <2> QED BY <2>1, <2>2
<1>8. TreeInv'
  BY <1>3, <1>6, <1>7 DEF TreeInv
<1>9. ASSUME NEW f \in Fronts
      PROVE  ScanInv(f, scan'[f]) /\ PlaceInv(f, scan[f])'
  <2>1. ScanInv(f, scan[f]) /\ PlaceInv(f, scan[f])
    BY DEF ProgressInv
  <2>2. \A k \in DOMAIN tree : tree[k].is.kind # "link" => tree'[k].is.kind # "link"
    BY <1>3, <1>5, <1>6
  <2>3. scan[f].at # Nothing => First(scan[f].todo) \in DOMAIN tree
    <3>1. scan[f].todo \in SUBSET Nat
      BY <1>3, <2>1 DEF PlaceInv, TreeInv
    <3> QED BY <2>1, <3>1, FirstIsListed DEF PlaceInv
  <2>4. PlaceInv(f, scan[f])'
    BY <1>2, <1>6, <2>1, <2>2, <2>3 DEF PlaceInv
  <2> QED BY <1>2, <2>1, <2>4
<1>10. scan' = [f \in Fronts |-> scan'[f]]
  BY <1>2 DEF ProgressInv
<1> QED BY <1>8, <1>9, <1>10 DEF ProgressInv

\* The invariant is kept by every step of either scan and every change of a file.
LEMMA Progress == Spec => []ProgressInv
<1>1. ASSUME ProgressInv, [Next]_vars
      PROVE  ProgressInv'
  <2>1. CASE CliStep \/ McpStep
    <3>1. PICK f, s : OneTurn(f, s)
      BY <1>1, <2>1, ProgressHasRecords, ScanIsTurns
    <3> QED
      BY <1>1, <3>1, WalkedProgress, LookedProgress, TookProgress, EndedProgress,
         AnsweredProgress, ConcludedProgress
      DEF OneTurn
  <2>2. CASE Change
    BY <1>1, <2>2, ChangeProgress
  <2>3. CASE UNCHANGED vars
    BY <1>1, <2>3 DEF vars, ProgressInv, TreeInv, PlaceInv
  <2> QED BY <1>1, <2>1, <2>2, <2>3 DEF Next
<1> QED BY <1>1, InitProgress, PTL DEF Spec

-----------------------------------------------------------------------------
(* Where a scan is, and what the tables have to do with it                 *)

IsTool(tool) == tool \in Ecosystems /\ tool \in Tools

IsGate(r) ==
    /\ IsTool(r.tool)
    /\ CliOutcome(CommandFor(r.tool), Framework, r.input) = Gives("gate", r.risk)

StageInv(s) ==
    /\ s.pc \in {"walk", "look", "analyse", "done", "failed"}
    /\ s.decision \in Decisions
    /\ s.pc = "done" => s.decision # "none"

\* The tool stops before it has found too much, the command after.
RoomInv(f, s) ==
    /\ f = "cli" /\ s.pc # "failed" => Len(s.found) <= MaxFiles
    /\ f = "mcp" => Len(s.found) <= MaxFiles
    /\ f = "mcp" /\ s.at # Nothing => Len(s.found) < MaxFiles
    /\ Len(s.found) <= MaxFiles + 1

ToolInv(s) ==
    /\ s.at # Nothing => IsTool(s.at.tool)
    /\ \A k \in 1..Len(s.found) : s.found[k].place \in DOMAIN tree /\ IsTool(s.found[k].tool)
    /\ \A j \in 1..Len(s.results) : IsGate(s.results[j])

FoundInv ==
    /\ changes \in 0..MaxChanges
    /\ \A f \in Fronts : StageInv(scan[f]) /\ RoomInv(f, scan[f]) /\ ToolInv(scan[f])

LEMMA InitFound == Init => FoundInv
<1> SUFFICES ASSUME Init PROVE FoundInv
  OBVIOUS
<1>1. ASSUME NEW f \in Fronts
      PROVE  StageInv(scan[f]) /\ RoomInv(f, scan[f]) /\ ToolInv(scan[f])
  <2>1. /\ scan[f].pc \in {"walk", "failed"} /\ scan[f].at = Nothing /\ scan[f].decision = "none"
        /\ scan[f].found = <<>> /\ scan[f].results = <<>>
    BY DEF Init
  <2>2. Len(scan[f].found) = 0 /\ Len(scan[f].results) = 0
    BY <2>1
  <2> QED BY <2>1, <2>2, LimitAssumption DEF StageInv, RoomInv, ToolInv, Decisions
<1>2. changes = 0
  BY DEF Init
<1>3. changes \in 0..MaxChanges
  BY <1>2, LimitAssumption
<1> QED BY <1>1, <1>3 DEF FoundInv

LEMMA OneScanFinds ==
    ASSUME ProgressInv, FoundInv, NEW f, NEW s, Turn(f, s),
           StageInv(s), RoomInv(f, s), ToolInv(s)
    PROVE  FoundInv'
<1>1. /\ scan'[f] = s /\ \A g \in Fronts \ {f} : scan'[g] = scan[g]
      /\ tree' = tree /\ changes' = changes
  BY DEF ProgressInv, Turn
<1>2. ASSUME NEW g \in Fronts
      PROVE  StageInv(scan'[g]) /\ RoomInv(g, scan'[g]) /\ ToolInv(scan[g])'
  BY <1>1 DEF FoundInv, ToolInv
<1> QED BY <1>1, <1>2 DEF FoundInv

LEMMA TurnFinds ==
    ASSUME ProgressInv, FoundInv, NEW f, NEW s, OneTurn(f, s)
    PROVE  FoundInv'
<1> DEFINE old == scan[f]
<1>1. Turn(f, s) /\ f \in Fronts
  BY DEF OneTurn, Walked, Looked, Took, Ended, Answered, Concluded, Turn
<1>2. /\ StageInv(old) /\ RoomInv(f, old) /\ ToolInv(old)
      /\ ScanInv(f, old) /\ PlaceInv(f, old) /\ IsScan(old)
  BY <1>1 DEF FoundInv, ProgressInv, ScanInv
<1>3. f = "cli" \/ f = "mcp"
  BY <1>1 DEF Fronts
<1>4. Len(old.found) \in Nat /\ MaxFiles \in Nat
  BY <1>2, LengthOf, LimitAssumption DEF IsScan
<1>5. CASE Walked(f, s) \/ Ended(f, s)
  <2>1. SameAccount(s, old) /\ s.at = old.at /\ s.pc \in {"look", "analyse"}
    BY <1>5 DEF Walked, Ended
  <2>2. old.pc \in {"walk", "look"}
    BY <1>5 DEF Walked, Ended
  <2>3. StageInv(s) /\ RoomInv(f, s) /\ ToolInv(s)
    BY <1>2, <2>1, <2>2 DEF StageInv, RoomInv, ToolInv, SameAccount
  <2> QED BY <1>1, <2>3, OneScanFinds
<1>6. CASE Looked(f, s)
  <2>1. /\ SameAccount(s, old) /\ old.pc = "look" /\ old.at = Nothing
        /\ \/ f = "mcp" /\ s.pc = "failed" /\ s.at = old.at
           \/ s.pc = old.pc /\ s.at = old.at
           \/ /\ s.pc = old.pc /\ ToolOf(f, tree[First(old.todo)]) # "none"
              /\ s.at = [tool |-> ToolOf(f, tree[First(old.todo)])]
              /\ f = "mcp" => ~(Len(old.found) >= MaxFiles)
    BY <1>6 DEF Looked
  <2>2. s.at # Nothing => IsTool(s.at.tool)
    BY <2>1, ToolsAreKnown DEF IsTool
  <2>3. f = "mcp" /\ s.at # Nothing => Len(old.found) < MaxFiles
    BY <1>4, <2>1
  <2>4. StageInv(s) /\ RoomInv(f, s) /\ ToolInv(s)
    BY <1>2, <1>3, <2>1, <2>2, <2>3 DEF StageInv, RoomInv, ToolInv, SameAccount
  <2> QED BY <1>1, <2>4, OneScanFinds
<1>7. CASE Took(f, s)
  <2>1. /\ Appended(s.found, old.found, ItemOf(f, First(old.todo), old.at.tool))
        /\ old.pc = "look" /\ old.at # Nothing /\ s.at = Nothing
        /\ s.results = old.results /\ s.decision = old.decision
        /\ s.pc = IF f = "cli" /\ Len(s.found) > MaxFiles THEN "failed" ELSE "look"
    BY <1>7 DEF Took
  <2>2. Len(s.found) = Len(old.found) + 1
    BY <2>1 DEF Appended
  <2>3. /\ ItemOf(f, First(old.todo), old.at.tool).place = First(old.todo)
        /\ ItemOf(f, First(old.todo), old.at.tool).tool = old.at.tool
    BY DEF ItemOf
  <2>4. First(old.todo) \in DOMAIN tree
    <3>1. old.todo \in SUBSET Nat /\ old.todo # {} /\ old.todo \subseteq DOMAIN tree
      BY <1>2, <2>1 DEF PlaceInv, ProgressInv, TreeInv
    <3> QED BY <3>1, FirstIsListed
  <2>5. ToolInv(s)
    <3> DEFINE item == ItemOf(f, First(old.todo), old.at.tool)
               Good(i) == i.place \in DOMAIN tree /\ IsTool(i.tool)
    <3>1. Good(item)
      BY <1>2, <2>1, <2>3, <2>4 DEF ToolInv
    <3>2. \A k \in 1..Len(old.found) : Good(old.found[k])
      BY <1>2 DEF ToolInv
    <3>3. s.found[Len(old.found) + 1] = item /\ \A k \in 1..Len(old.found) : s.found[k] = old.found[k]
      BY <2>1 DEF Appended
    <3>4. \A k \in 1..Len(s.found) : k \in 1..Len(old.found) \/ k = Len(old.found) + 1
      BY <1>4, <2>2
    <3> HIDE DEF item, Good
    <3>5. \A k \in 1..Len(s.found) : Good(s.found[k])
      BY <3>1, <3>2, <3>3, <3>4
    <3>6. \A k \in 1..Len(s.results) : IsGate(s.results[k])
      BY <1>2, <2>1 DEF ToolInv
    <3> QED BY <2>1, <3>5, <3>6 DEF ToolInv, Good
  <2>6. RoomInv(f, s)
    BY <1>2, <1>3, <1>4, <2>1, <2>2 DEF RoomInv
  <2>7. StageInv(s)
    BY <1>2, <2>1 DEF StageInv
  <2> QED BY <1>1, <2>5, <2>6, <2>7, OneScanFinds
<1>8. CASE Answered(f, s)
  <2> DEFINE item == old.found[Analysed(f) + 1]
             entry == EntryOf(f, item)
  <2>1. /\ Analysed(f) < Len(old.found)
        /\ s.pc = old.pc /\ s.at = old.at /\ s.found = old.found /\ s.decision = old.decision
        /\ \/ entry.code = "none" /\ Appended(s.results, old.results, entry)
           \/ s.results = old.results
    BY <1>8 DEF Answered
  <2>2. entry.code = "none" => IsGate(entry)
    <3>1. IsTool(item.tool)
      BY <1>2, <2>1, NextItem DEF ToolInv
    <3> SUFFICES ASSUME entry.code = "none" PROVE IsGate(entry)
      OBVIOUS
    <3>2. CliOutcome(CommandFor(item.tool), Framework, Input(f, item)).outcome = "gate"
      BY DEF EntryOf, ErrorCode
    <3>3. CliOutcome(CommandFor(item.tool), Framework, Input(f, item))
            = Gives("gate", CliOutcome(CommandFor(item.tool), Framework, Input(f, item)).risk)
      BY <3>2 DEF CliOutcome, Gives
    <3>4. /\ entry.tool = item.tool /\ entry.input = Input(f, item)
          /\ entry.risk = CliOutcome(CommandFor(item.tool), Framework, Input(f, item)).risk
      BY DEF EntryOf
    <3> HIDE DEF item, entry
    <3> QED BY <3>1, <3>3, <3>4 DEF IsGate
  <2> HIDE DEF entry
  <2>3. ToolInv(s)
    <3>1. \A j \in 1..Len(s.results) : IsGate(s.results[j])
      <4>1. CASE entry.code = "none" /\ Appended(s.results, old.results, entry)
        <5>1. Len(old.results) \in Nat
          BY <1>2, LengthOf DEF IsScan
        <5> QED BY <1>2, <2>2, <4>1, <5>1 DEF ToolInv, Appended
      <4> QED BY <1>2, <2>1, <4>1 DEF ToolInv
    <3> QED BY <1>2, <2>1, <3>1 DEF ToolInv
  <2>4. StageInv(s) /\ RoomInv(f, s)
    BY <1>2, <2>1 DEF StageInv, RoomInv
  <2> QED BY <1>1, <2>3, <2>4, OneScanFinds
<1>9. CASE Concluded(f, s)
  <2>1. /\ old.pc = "analyse" /\ s.pc = "done" /\ s.at = old.at
        /\ s.found = old.found /\ s.results = old.results
        /\ s.decision \in {"proceed", "warn", "block"}
    BY <1>9 DEF Concluded, DecisionFor
  <2>2. StageInv(s) /\ RoomInv(f, s) /\ ToolInv(s)
    BY <1>2, <2>1 DEF StageInv, RoomInv, ToolInv, Decisions
  <2> QED BY <1>1, <2>2, OneScanFinds
<1> QED BY <1>5, <1>6, <1>7, <1>8, <1>9 DEF OneTurn

LEMMA ChangeFinds ==
    ASSUME ProgressInv, FoundInv, Change
    PROVE  FoundInv'
<1>1. scan' = scan /\ changes' \in 0..MaxChanges
  BY LimitAssumption DEF Change, FoundInv
<1>2. DOMAIN tree' = DOMAIN tree
  BY DEF Change
<1>3. ASSUME NEW f \in Fronts
      PROVE  StageInv(scan'[f]) /\ RoomInv(f, scan'[f]) /\ ToolInv(scan[f])'
  BY <1>1, <1>2 DEF FoundInv, ToolInv
<1> QED BY <1>1, <1>3 DEF FoundInv

LEMMA Finding == Spec => [](ProgressInv /\ FoundInv)
<1>1. ASSUME ProgressInv, FoundInv, [Next]_vars
      PROVE  FoundInv'
  <2>1. CASE CliStep \/ McpStep
    <3>1. PICK f, s : OneTurn(f, s)
      BY <1>1, <2>1, ProgressHasRecords, ScanIsTurns
    <3> QED BY <1>1, <3>1, TurnFinds
  <2>2. CASE Change
    BY <1>1, <2>2, ChangeFinds
  <2>3. CASE UNCHANGED vars
    BY <1>1, <2>3 DEF vars, FoundInv, ToolInv
  <2> QED BY <1>1, <2>1, <2>2, <2>3 DEF Next
<1> QED BY <1>1, InitFound, Progress, PTL DEF Spec

-----------------------------------------------------------------------------
(* A scan of a tree nothing changes, and what it comes to                  *)

Shown(t) == {k \in DOMAIN t : t[k].is.kind # "missing" /\ ~t[k].at.excluded}

\* A place the scan recognises and is not refused at.
Taken(t, f, p) ==
    /\ p \in Shown(t) /\ ToolOf(f, t[p]) # "none"
    /\ f = "mcp" => ~Refused(t[p])

ItemAt(t, f, p) ==
    [place |-> p, tool |-> ToolOf(f, t[p]), size |-> SizeOf(f, t[p].is), copy |-> t[p].is]

\* What the analysis of a place that is recognised comes to.
NoteAt(t, f, p) ==
    LET answer == CliOutcome(CommandFor(ToolOf(f, t[p])), Framework, t[p].is)
    IN  [place |-> p, tool |-> ToolOf(f, t[p]), code |-> ErrorCode(ItemAt(t, f, p), answer),
         risk |-> answer.risk, input |-> t[p].is]

\* What is found is recognised, and what is recognised is found.
PlacesIn(t, f, s) ==
    /\ s.todo \subseteq Shown(t)
    /\ s.pc \in {"analyse", "done"} => s.todo = {}
    /\ s.at # Nothing =>
         Taken(t, f, First(s.todo)) /\ s.at = [tool |-> ToolOf(f, t[First(s.todo)])]
    /\ \A k \in 1..Len(s.found) :
           Taken(t, f, s.found[k].place) /\ s.found[k] = ItemAt(t, f, s.found[k].place)
    /\ s.pc \notin {"walk", "failed"} =>
         \A p \in Shown(t) \ s.todo :
             ToolOf(f, t[p]) # "none" => \E k \in 1..Len(s.found) : s.found[k].place = p

IsNote(t, f, e) == Taken(t, f, e.place) /\ e = NoteAt(t, f, e.place)

\* What was analysed is noted on one of the two lists, and nothing else is.
NotesIn(t, f, s) ==
    /\ s.pc = "done" => Len(s.results) + Len(s.errors) = Len(s.found)
    /\ \A j \in 1..Len(s.results) : IsNote(t, f, s.results[j]) /\ s.results[j].code = "none"
    /\ \A j \in 1..Len(s.errors) : IsNote(t, f, s.errors[j]) /\ s.errors[j].code # "none"
    /\ \A k \in 1..(Len(s.results) + Len(s.errors)) :
           LET note == NoteAt(t, f, s.found[k].place)
           IN  IF note.code = "none" THEN \E j \in 1..Len(s.results) : s.results[j] = note
                                     ELSE \E j \in 1..Len(s.errors) : s.errors[j] = note

StillIn(t, f, s) == PlacesIn(t, f, s) /\ NotesIn(t, f, s)

StillInv == changes = 0 => \A f \in Fronts : StillIn(tree, f, scan[f])

LEMMA InitStill == Init => StillInv
<1> SUFFICES ASSUME Init, NEW f \in Fronts
             PROVE  StillIn(tree, f, scan[f])
  BY DEF StillInv
<1>1. /\ scan[f].pc \in {"walk", "failed"} /\ scan[f].todo = {} /\ scan[f].at = Nothing
      /\ scan[f].found = <<>> /\ scan[f].results = <<>> /\ scan[f].errors = <<>>
  BY DEF Init
<1>2. Len(scan[f].found) = 0 /\ Len(scan[f].results) = 0 /\ Len(scan[f].errors) = 0
  BY <1>1
<1>3. PlacesIn(tree, f, scan[f])
  BY <1>1, <1>2 DEF PlacesIn
<1>4. NotesIn(tree, f, scan[f])
  BY <1>1, <1>2 DEF NotesIn
<1> QED BY <1>3, <1>4 DEF StillIn

LEMMA OneScanStays ==
    ASSUME ProgressInv, StillInv, NEW f, NEW s, Turn(f, s), changes = 0 => StillIn(tree, f, s)
    PROVE  StillInv'
<1>1. /\ scan'[f] = s /\ \A g \in Fronts \ {f} : scan'[g] = scan[g]
      /\ tree' = tree /\ changes' = changes
  BY DEF ProgressInv, Turn
<1>2. ASSUME changes = 0, NEW g \in Fronts
      PROVE  StillIn(tree', g, scan'[g])
  <2>1. StillIn(tree, g, scan[g])
    BY <1>2 DEF StillInv
  <2> QED BY <1>1, <1>2, <2>1
<1> QED BY <1>1, <1>2 DEF StillInv

LEMMA OneMore ==
    ASSUME NEW a \in Nat, NEW b \in Nat
    PROVE  /\ a + b \in Nat /\ (a + 1) + b = a + b + 1 /\ a + (b + 1) = a + b + 1
           /\ a + 1 \in 1..(a + 1) /\ \A j \in 1..a : j \in 1..(a + 1)
           /\ \A j \in 1..(a + 1) : j = a + 1 \/ j \in 1..a
           /\ \A k \in 1..(a + b + 1) : k = a + b + 1 \/ k \in 1..(a + b)
OBVIOUS

LEMMA Within ==
    ASSUME NEW a \in Nat, NEW b \in Nat, NEW c \in Nat, a + b <= c, NEW k \in 1..(a + b)
    PROVE  k \in 1..c
OBVIOUS

\* Nothing new is noted.
LEMMA NotesStay ==
    ASSUME NEW t, NEW f, NEW old, NEW s, NotesIn(t, f, old), SameAccount(s, old), s.pc # "done"
    PROVE  NotesIn(t, f, s)
BY DEF NotesIn, SameAccount

LEMMA WalkedStill ==
    ASSUME ProgressInv, NEW f, NEW s, Walked(f, s), StillIn(tree, f, scan[f])
    PROVE  StillIn(tree, f, s)
<1>1. /\ SameAccount(s, scan[f]) /\ s.pc = "look" /\ s.todo = Listed /\ s.at = scan[f].at
      /\ scan[f].pc = "walk" /\ f \in Fronts
  BY DEF Walked, Turn
<1>2. Listed = Shown(tree)
  BY DEF Listed, Shown
<1>3. scan[f].at = Nothing
  BY <1>1 DEF ProgressInv, PlaceInv
<1>4. PlacesIn(tree, f, s)
  BY <1>1, <1>2, <1>3 DEF StillIn, PlacesIn, SameAccount
<1>5. NotesIn(tree, f, s)
  BY <1>1, NotesStay DEF StillIn
<1> QED BY <1>4, <1>5 DEF StillIn

LEMMA EndedStill ==
    ASSUME NEW f, NEW s, Ended(f, s), StillIn(tree, f, scan[f])
    PROVE  StillIn(tree, f, s)
<1>1. /\ SameAccount(s, scan[f]) /\ s.pc = "analyse" /\ s.todo = scan[f].todo
      /\ s.at = scan[f].at /\ scan[f].pc = "look" /\ scan[f].todo = {}
  BY DEF Ended
<1>2. PlacesIn(tree, f, s)
  BY <1>1 DEF StillIn, PlacesIn, SameAccount
<1>3. NotesIn(tree, f, s)
  BY <1>1, NotesStay DEF StillIn
<1> QED BY <1>2, <1>3 DEF StillIn

\* The first of the places that are left is one of them.
LEMMA FirstIsLeft ==
    ASSUME ProgressInv, NEW f \in Fronts, scan[f].todo # {}
    PROVE  First(scan[f].todo) \in scan[f].todo
<1>1. scan[f].todo \in SUBSET Nat
  BY DEF ProgressInv, TreeInv, PlaceInv
<1> QED BY <1>1, FirstIsListed

LEMMA LookedStill ==
    ASSUME ProgressInv, NEW f, NEW s, Looked(f, s), StillIn(tree, f, scan[f])
    PROVE  StillIn(tree, f, s)
<1> DEFINE old == scan[f]
<1>1. PICK p : p = First(old.todo)
  OBVIOUS
<1>2. /\ f \in Fronts /\ SameAccount(s, old)
      /\ old.pc = "look" /\ old.todo # {} /\ old.at = Nothing
      /\ \/ s.pc = "failed" /\ s.todo = old.todo /\ s.at = old.at
         \/ /\ ToolOf(f, tree[p]) = "none"
            /\ s.pc = old.pc /\ s.todo = old.todo \ {p} /\ s.at = old.at
         \/ /\ ToolOf(f, tree[p]) # "none" /\ (f = "mcp" => ~Refused(tree[p]))
            /\ s.pc = old.pc /\ s.todo = old.todo /\ s.at = [tool |-> ToolOf(f, tree[p])]
  BY <1>1 DEF Looked, Turn
<1>3. p \in old.todo
  BY <1>1, <1>2, FirstIsLeft
<1>4. PlacesIn(tree, f, old)
  BY DEF StillIn
<1>5. PlacesIn(tree, f, s)
  <2>1. CASE s.pc = "failed" /\ s.todo = old.todo /\ s.at = old.at
    BY <1>2, <1>4, <2>1 DEF PlacesIn, SameAccount
  <2>2. CASE /\ ToolOf(f, tree[p]) = "none"
             /\ s.pc = old.pc /\ s.todo = old.todo \ {p} /\ s.at = old.at
    BY <1>2, <1>4, <2>2 DEF PlacesIn, SameAccount
  <2>3. CASE /\ ToolOf(f, tree[p]) # "none" /\ (f = "mcp" => ~Refused(tree[p]))
             /\ s.pc = old.pc /\ s.todo = old.todo /\ s.at = [tool |-> ToolOf(f, tree[p])]
    <3>1. Taken(tree, f, p)
      BY <1>3, <1>4, <2>3 DEF PlacesIn, Taken
    <3>2. s.todo = old.todo /\ s.pc = "look" /\ First(s.todo) = p
      BY <1>1, <1>2, <2>3
    <3> QED BY <1>2, <1>4, <2>3, <3>1, <3>2 DEF PlacesIn, SameAccount
  <2> QED BY <1>2, <2>1, <2>2, <2>3
<1>6. NotesIn(tree, f, s)
  BY <1>2, NotesStay DEF StillIn
<1> QED BY <1>5, <1>6 DEF StillIn

LEMMA TookStill ==
    ASSUME ProgressInv, NEW f, NEW s, Took(f, s), StillIn(tree, f, scan[f])
    PROVE  StillIn(tree, f, s)
<1>0. PICK old : old = scan[f]
  OBVIOUS
<1> DEFINE n == Len(old.found)
<1>1. PICK p : p = First(old.todo)
  OBVIOUS
<1>2. /\ f \in Fronts /\ old.pc = "look" /\ old.at # Nothing
      /\ Appended(s.found, old.found, ItemOf(f, p, old.at.tool))
      /\ s.todo = old.todo \ {p} /\ s.at = Nothing
      /\ s.results = old.results /\ s.errors = old.errors
      /\ s.pc \in {"look", "failed"}
  BY <1>0, <1>1 DEF Took, Turn
<1>3. /\ PlacesIn(tree, f, old) /\ NotesIn(tree, f, old) /\ IsScan(old)
      /\ old.todo # {}
  BY <1>0, <1>2 DEF StillIn, ProgressInv, ScanInv, PlaceInv
<1>4. /\ n \in Nat /\ Len(old.results) \in Nat /\ Len(old.errors) \in Nat
      /\ Len(old.results) + Len(old.errors) <= n
  BY <1>3, LengthOf DEF IsScan
<1>5. Taken(tree, f, p) /\ old.at.tool = ToolOf(f, tree[p])
  <2>1. Taken(tree, f, p) /\ old.at = [tool |-> ToolOf(f, tree[p])]
    BY <1>1, <1>2, <1>3 DEF PlacesIn
  <2> QED BY <2>1
<1>6. ItemOf(f, p, old.at.tool) = ItemAt(tree, f, p)
  BY <1>5 DEF ItemOf, ItemAt
<1>7. /\ Len(s.found) = n + 1
      /\ s.found[n + 1] = ItemAt(tree, f, p) /\ s.found[n + 1].place = p
      /\ \A k \in 1..n : s.found[k] = old.found[k]
  BY <1>2, <1>6 DEF Appended, ItemAt
<1>8. PlacesIn(tree, f, s)
  <2>1. \A k \in 1..Len(s.found) :
            Taken(tree, f, s.found[k].place)
              /\ s.found[k] = ItemAt(tree, f, s.found[k].place)
    <3> TAKE k \in 1..Len(s.found)
    <3>1. CASE k \in 1..n
      BY <1>3, <1>7, <3>1 DEF PlacesIn
    <3>2. CASE k = n + 1
      BY <1>5, <1>7, <3>2
    <3> QED BY <1>4, <1>7, <3>1, <3>2
  <2>2. ASSUME NEW q \in Shown(tree) \ s.todo, ToolOf(f, tree[q]) # "none"
        PROVE  \E k \in 1..Len(s.found) : s.found[k].place = q
    <3>1. CASE q = p
      BY <1>4, <1>7, <3>1
    <3>2. CASE q # p
      <4>1. PICK k \in 1..n : old.found[k].place = q
        BY <1>2, <1>3, <2>2, <3>2 DEF PlacesIn
      <4>2. k \in 1..Len(s.found) /\ s.found[k] = old.found[k]
        BY <1>4, <1>7
      <4> QED BY <4>1, <4>2
    <3> QED BY <3>1, <3>2
  <2>3. s.todo \subseteq Shown(tree)
    BY <1>2, <1>3 DEF PlacesIn
  <2> QED BY <1>2, <2>1, <2>2, <2>3 DEF PlacesIn
<1>9. NotesIn(tree, f, s)
  <2>1. ASSUME NEW k \in 1..(Len(old.results) + Len(old.errors))
        PROVE  s.found[k] = old.found[k]
    <3>1. k \in 1..n
      BY <1>4, Within, Zenon
    <3> QED BY <1>7, <3>1
  <2>2. /\ \A j \in 1..Len(s.results) : IsNote(tree, f, s.results[j]) /\ s.results[j].code = "none"
        /\ \A j \in 1..Len(s.errors) : IsNote(tree, f, s.errors[j]) /\ s.errors[j].code # "none"
    BY <1>2, <1>3, Zenon DEF NotesIn
  <2>3. ASSUME NEW k \in 1..(Len(old.results) + Len(old.errors))
        PROVE  LET note == NoteAt(tree, f, s.found[k].place)
               IN  IF note.code = "none" THEN \E j \in 1..Len(s.results) : s.results[j] = note
                                         ELSE \E j \in 1..Len(s.errors) : s.errors[j] = note
    <3>1. LET note == NoteAt(tree, f, old.found[k].place)
          IN  IF note.code = "none" THEN \E j \in 1..Len(old.results) : old.results[j] = note
                                    ELSE \E j \in 1..Len(old.errors) : old.errors[j] = note
      BY <1>3, Zenon DEF NotesIn
    <3> QED BY <1>2, <2>1, <3>1
  <2>4. s.pc = "done" => Len(s.results) + Len(s.errors) = Len(s.found)
    BY <1>2
  <2>5. s.results = old.results /\ s.errors = old.errors
    BY <1>2
  <2> QED BY <2>2, <2>3, <2>4, <2>5, Zenon DEF NotesIn
<1> QED BY <1>8, <1>9 DEF StillIn

\* The analysis of what is found at a place is the note of that place.
LEMMA EntryIsNote ==
    ASSUME NEW f, NEW p
    PROVE  EntryOf(f, ItemAt(tree, f, p)) = NoteAt(tree, f, p)
<1>1. /\ ItemAt(tree, f, p).place = p /\ ItemAt(tree, f, p).tool = ToolOf(f, tree[p])
      /\ ItemAt(tree, f, p).copy = tree[p].is
  BY DEF ItemAt
<1>2. Input(f, ItemAt(tree, f, p)) = tree[p].is
  BY <1>1 DEF Input
<1> QED BY <1>1, <1>2, Zenon DEF EntryOf, NoteAt

LEMMA AnsweredStill ==
    ASSUME ProgressInv, NEW f, NEW s, Answered(f, s), StillIn(tree, f, scan[f])
    PROVE  StillIn(tree, f, s)
<1>0. PICK old : old = scan[f]
  OBVIOUS
<1> DEFINE n == Len(old.results) + Len(old.errors)
<1>1. /\ f \in Fronts /\ old.pc = "analyse" /\ n < Len(old.found)
      /\ s.pc = old.pc /\ s.todo = old.todo /\ s.at = old.at /\ s.found = old.found
      /\ LET entry == EntryOf(f, old.found[n + 1])
         IN  \/ /\ entry.code = "none" /\ Appended(s.results, old.results, entry)
                /\ s.errors = old.errors
             \/ /\ entry.code # "none" /\ Appended(s.errors, old.errors, entry)
                /\ s.results = old.results
  BY <1>0 DEF Answered, Turn, Analysed
<1>2. PlacesIn(tree, f, old) /\ NotesIn(tree, f, old) /\ IsScan(old)
  BY <1>0, <1>1 DEF StillIn, ProgressInv, ScanInv
<1>3. /\ Len(old.found) \in Nat /\ Len(old.results) \in Nat /\ Len(old.errors) \in Nat
      /\ n \in Nat /\ n + 1 \in 1..Len(old.found)
  <2>1. /\ Len(old.found) \in Nat /\ Len(old.results) \in Nat /\ Len(old.errors) \in Nat
    BY <1>2, LengthOf DEF IsScan
  <2> QED BY <1>1, <2>1, Room, OneMore
<1>4. PICK p : p = old.found[n + 1].place
  OBVIOUS
<1>5. Taken(tree, f, p) /\ old.found[n + 1] = ItemAt(tree, f, p)
  BY <1>2, <1>3, <1>4 DEF PlacesIn
<1>6. PICK note : note = NoteAt(tree, f, p)
  OBVIOUS
<1>7. EntryOf(f, old.found[n + 1]) = note
  BY <1>5, <1>6, EntryIsNote
<1>8. IsNote(tree, f, note)
  BY <1>5, <1>6 DEF IsNote, NoteAt
<1>9. /\ Len(s.results) + Len(s.errors) = n + 1
      /\ \A j \in 1..Len(old.results) : j \in 1..Len(s.results) /\ s.results[j] = old.results[j]
      /\ \A j \in 1..Len(old.errors) : j \in 1..Len(s.errors) /\ s.errors[j] = old.errors[j]
      /\ IF note.code = "none" THEN \E j \in 1..Len(s.results) : s.results[j] = note
                               ELSE \E j \in 1..Len(s.errors) : s.errors[j] = note
  <2>1. CASE /\ note.code = "none" /\ Appended(s.results, old.results, note)
             /\ s.errors = old.errors
    <3>1. /\ Len(s.results) = Len(old.results) + 1 /\ s.results[Len(old.results) + 1] = note
          /\ \A j \in 1..Len(old.results) : s.results[j] = old.results[j]
      BY <2>1 DEF Appended
    <3>2. Len(s.results) + Len(s.errors) = n + 1
      <4>1. (Len(old.results) + 1) + Len(old.errors) = n + 1
        BY <1>3, OneMore, Zenon
      <4> QED BY <2>1, <3>1, <4>1, Zenon
    <3>3. /\ Len(s.results) \in 1..Len(s.results)
          /\ \A j \in 1..Len(old.results) : j \in 1..Len(s.results)
      BY <1>3, <3>1, OneMore
    <3> QED BY <2>1, <3>1, <3>2, <3>3
  <2>2. CASE /\ note.code # "none" /\ Appended(s.errors, old.errors, note)
             /\ s.results = old.results
    <3>1. /\ Len(s.errors) = Len(old.errors) + 1 /\ s.errors[Len(old.errors) + 1] = note
          /\ \A j \in 1..Len(old.errors) : s.errors[j] = old.errors[j]
      BY <2>2 DEF Appended
    <3>2. Len(s.results) + Len(s.errors) = n + 1
      <4>1. Len(old.results) + (Len(old.errors) + 1) = n + 1
        BY <1>3, OneMore, Zenon
      <4> QED BY <2>2, <3>1, <4>1, Zenon
    <3>3. /\ Len(s.errors) \in 1..Len(s.errors)
          /\ \A j \in 1..Len(old.errors) : j \in 1..Len(s.errors)
      BY <1>3, <3>1, OneMore
    <3> QED BY <2>2, <3>1, <3>2, <3>3
  <2> QED BY <1>1, <1>7, <2>1, <2>2
<1>10. \A j \in 1..Len(s.results) : IsNote(tree, f, s.results[j]) /\ s.results[j].code = "none"
  <2>1. CASE note.code = "none" /\ Appended(s.results, old.results, note)
    <3>1. /\ Len(s.results) = Len(old.results) + 1 /\ s.results[Len(old.results) + 1] = note
          /\ \A j \in 1..Len(old.results) : s.results[j] = old.results[j]
      BY <2>1 DEF Appended
    <3>2. \A j \in 1..Len(s.results) : j = Len(old.results) + 1 \/ j \in 1..Len(old.results)
      BY <1>3, <3>1, OneMore
    <3> QED BY <1>2, <1>8, <2>1, <3>1, <3>2 DEF NotesIn
  <2>2. CASE s.results = old.results
    BY <1>2, <2>2 DEF NotesIn
  <2> QED BY <1>1, <1>7, <2>1, <2>2
<1>11. \A j \in 1..Len(s.errors) : IsNote(tree, f, s.errors[j]) /\ s.errors[j].code # "none"
  <2>1. CASE note.code # "none" /\ Appended(s.errors, old.errors, note)
    <3>1. /\ Len(s.errors) = Len(old.errors) + 1 /\ s.errors[Len(old.errors) + 1] = note
          /\ \A j \in 1..Len(old.errors) : s.errors[j] = old.errors[j]
      BY <2>1 DEF Appended
    <3>2. \A j \in 1..Len(s.errors) : j = Len(old.errors) + 1 \/ j \in 1..Len(old.errors)
      BY <1>3, <3>1, OneMore
    <3> QED BY <1>2, <1>8, <2>1, <3>1, <3>2 DEF NotesIn
  <2>2. CASE s.errors = old.errors
    BY <1>2, <2>2 DEF NotesIn
  <2> QED BY <1>1, <1>7, <2>1, <2>2
<1>12. ASSUME NEW k \in 1..(n + 1)
       PROVE  LET made == NoteAt(tree, f, s.found[k].place)
              IN  IF made.code = "none" THEN \E j \in 1..Len(s.results) : s.results[j] = made
                                        ELSE \E j \in 1..Len(s.errors) : s.errors[j] = made
  <2>1. PICK made : made = NoteAt(tree, f, s.found[k].place)
    OBVIOUS
  <2>2. CASE k = n + 1
    <3>1. made = note
      BY <1>1, <1>4, <1>6, <2>1, <2>2
    <3> QED BY <1>9, <2>1, <3>1
  <2>3. CASE k \in 1..n
    <3>1. IF made.code = "none" THEN \E j \in 1..Len(old.results) : old.results[j] = made
                                ELSE \E j \in 1..Len(old.errors) : old.errors[j] = made
      BY <1>1, <1>2, <2>1, <2>3 DEF NotesIn
    <3>2. IF made.code = "none" THEN \E j \in 1..Len(s.results) : s.results[j] = made
                                ELSE \E j \in 1..Len(s.errors) : s.errors[j] = made
      BY <1>9, <3>1
    <3> QED BY <2>1, <3>2
  <2> QED BY <1>3, <2>2, <2>3, OneMore
<1>13. NotesIn(tree, f, s)
  BY <1>1, <1>9, <1>10, <1>11, <1>12 DEF NotesIn
<1>14. PlacesIn(tree, f, s)
  BY <1>1, <1>2 DEF PlacesIn
<1> QED BY <1>13, <1>14 DEF StillIn

LEMMA ConcludedStill ==
    ASSUME NEW f, NEW s, Concluded(f, s), StillIn(tree, f, scan[f])
    PROVE  StillIn(tree, f, s)
<1>1. /\ scan[f].pc = "analyse"
      /\ Len(scan[f].results) + Len(scan[f].errors) = Len(scan[f].found)
      /\ s.pc = "done" /\ s.todo = scan[f].todo /\ s.at = scan[f].at
      /\ s.found = scan[f].found /\ s.results = scan[f].results /\ s.errors = scan[f].errors
  BY DEF Concluded, Analysed
<1>2. PlacesIn(tree, f, s)
  BY <1>1 DEF StillIn, PlacesIn
<1>3. NotesIn(tree, f, s)
  BY <1>1 DEF StillIn, NotesIn
<1> QED BY <1>2, <1>3 DEF StillIn

LEMMA Staying == Spec => [](ProgressInv /\ StillInv)
<1>1. ASSUME ProgressInv, FoundInv, StillInv, [Next]_vars
      PROVE  StillInv'
  <2>1. CASE CliStep \/ McpStep
    <3>1. PICK f, s : OneTurn(f, s)
      BY <1>1, <2>1, ProgressHasRecords, ScanIsTurns
    <3>2. Turn(f, s) /\ f \in Fronts
      BY <3>1 DEF OneTurn, Walked, Looked, Took, Ended, Answered, Concluded, Turn
    <3>3. ASSUME changes = 0
          PROVE  StillIn(tree, f, s)
      <4>1. StillIn(tree, f, scan[f])
        BY <1>1, <3>2, <3>3 DEF StillInv
      <4> QED
        BY <1>1, <3>1, <4>1, WalkedStill, LookedStill, TookStill, EndedStill,
           AnsweredStill, ConcludedStill
        DEF OneTurn
    <3> QED BY <1>1, <3>2, <3>3, OneScanStays
  <2>2. CASE Change
    <3>1. changes' # 0
      BY <1>1, <2>2, LimitAssumption DEF Change, FoundInv
    <3> QED BY <3>1 DEF StillInv
  <2>3. CASE UNCHANGED vars
    BY <1>1, <2>3 DEF vars, StillInv
  <2> QED BY <1>1, <2>1, <2>2, <2>3 DEF Next
<1> QED BY <1>1, InitStill, Finding, PTL DEF Spec

-----------------------------------------------------------------------------
(* What both fronts make of one place                                      *)

\* What the tool takes is a file.
LEMMA TakenIsFile ==
    ASSUME NEW t, NEW p, Taken(t, "mcp", p), IsContent(t[p].is)
    PROVE  t[p].is.kind = "file"
<1>1. McpTool(t[p]) # "none" /\ ~Refused(t[p]) /\ t[p].is.kind # "missing"
  BY DEF Taken, Shown, ToolOf
<1>2. t[p].is.kind # "link" /\ t[p].is.kind # "pipe"
  BY <1>1, Zenon DEF McpTool, Refused
<1> QED BY <1>1, <1>2 DEF IsContent

\* A file the tool recognises, the command recognises as the same.
LEMMA SameTool ==
    ASSUME NEW entry, McpTool(entry) # "none", IsContent(entry.is), entry.is.kind = "file",
           NameTells(entry)
    PROVE  CliTool(entry) = McpTool(entry)
<1> DEFINE closed == ToolByName(FileAt(entry), FALSE)
           open == ToolByName(FileAt(entry), TRUE)
           inside == ToolByContent(FileAt(entry))
<1>1. closed \in {"none", open}
  BY DEF NameTells
<1>2. CASE entry.is.readable = TRUE
  <2>1. CliTool(entry) = IF open # "none" THEN open ELSE inside
    BY <1>2 DEF CliTool
  <2>2. McpTool(entry) \in {closed, IF open # "none" THEN open ELSE inside}
    BY DEF McpTool
  <2> HIDE DEF closed, open, inside
  <2> QED BY <1>1, <2>1, <2>2
<1>3. CASE entry.is.readable = FALSE
  BY <1>3 DEF CliTool, McpTool
<1> QED BY <1>2, <1>3 DEF IsContent

\* Of a file both recognise as the same, both make the same note, but for the
\* reason why it is an error when it cannot be read.
LEMMA SameNote ==
    ASSUME NEW t, NEW p, IsContent(t[p].is), t[p].is.kind = "file",
           CliTool(t[p]) = McpTool(t[p])
    PROVE  LET mine == NoteAt(t, "cli", p)
               other == NoteAt(t, "mcp", p)
           IN  /\ mine.place = p /\ other.place = p /\ mine.tool = other.tool
               /\ other.input = t[p].is
               /\ t[p].is.readable => mine = other
               /\ ~t[p].is.readable => other.code = "unreadable" /\ mine.code # "none"
<1>1. PICK c : c = t[p].is
  OBVIOUS
<1>2. PICK tool : tool = ToolOf("cli", t[p]) /\ tool = ToolOf("mcp", t[p])
  BY DEF ToolOf
<1>3. PICK answer : answer = CliOutcome(CommandFor(tool), Framework, c)
  OBVIOUS
<1>4. c.readable \in BOOLEAN /\ c.size \in Nat /\ c.kind = "file"
  BY <1>1 DEF IsContent
<1>5. /\ ItemAt(t, "cli", p).size = c.size
      /\ ItemAt(t, "mcp", p).size = IF ~c.readable THEN -1
                                    ELSE IF c.size > MaxFileBytes THEN MaxFileBytes + 1 ELSE c.size
  BY <1>1, <1>4 DEF ItemAt, SizeOf
<1>6. \A f \in Fronts :
          NoteAt(t, f, p) = [place |-> p, tool |-> tool,
                             code |-> ErrorCode(ItemAt(t, f, p), answer),
                             risk |-> answer.risk, input |-> c]
  BY <1>1, <1>2, <1>3 DEF NoteAt, Fronts
<1>7. CASE c.readable
  <2>1. ErrorCode(ItemAt(t, "cli", p), answer) = ErrorCode(ItemAt(t, "mcp", p), answer)
    BY <1>4, <1>5, <1>7, LimitAssumption DEF ErrorCode
  <2> QED BY <1>1, <1>6, <1>7, <2>1 DEF Fronts
<1>8. CASE ~c.readable
  <2>1. answer.outcome # "gate"
    BY <1>3, <1>8, GateReads
  <2>2. ErrorCode(ItemAt(t, "mcp", p), answer) = "unreadable"
    BY <1>5, <1>8 DEF ErrorCode
  <2>3. ErrorCode(ItemAt(t, "cli", p), answer) # "none"
    BY <2>1 DEF ErrorCode
  <2> QED BY <1>1, <1>6, <1>8, <2>2, <2>3 DEF Fronts
<1> QED BY <1>4, <1>7, <1>8

-----------------------------------------------------------------------------
(* What a scan has heard                                                   *)

LEMMA RisksAreRanked == \A risk : RiskRank(risk) \in 0..3
BY DEF RiskRank

LEMMA EmptyHasNone == \A list : list = <<>> => Len(list) = 0
OBVIOUS

LEMMA NoRoom ==
    ASSUME NEW a \in Nat, NEW b \in Nat, NEW c, a + b <= c, c = 0
    PROVE  a = 0 /\ b = 0
OBVIOUS

LEMMA RanksAreHeard ==
    ASSUME NEW s
    PROVE  RanksHeard(s) \subseteq 0..3 /\ Heard(s) \subseteq 0..3
BY RisksAreRanked DEF RanksHeard, Heard

\* A result is heard, and an error is heard as a review.
LEMMA NoteIsHeard ==
    ASSUME NEW f, NEW s, Answered(f, s), IsScan(scan[f]), IsScan(s)
    PROVE  \E some \in SUBSET (0..3) : Heard(s) = Heard(scan[f]) \union some
<1> DEFINE old == scan[f]
           entry == EntryOf(f, old.found[Analysed(f) + 1])
<1>1. /\ s.pc = old.pc /\ s.found = old.found
      /\ \/ Appended(s.results, old.results, entry) /\ s.errors = old.errors
         \/ Appended(s.errors, old.errors, entry) /\ s.results = old.results
  BY DEF Answered
<1>2. /\ Len(old.results) \in Nat /\ DOMAIN old.results = 1..Len(old.results)
      /\ Len(old.errors) \in Nat /\ DOMAIN old.errors = 1..Len(old.errors)
      /\ DOMAIN s.results = 1..Len(s.results) /\ DOMAIN s.errors = 1..Len(s.errors)
  BY LengthOf DEF IsScan
<1> HIDE DEF entry
<1>3. CASE Appended(s.results, old.results, entry) /\ s.errors = old.errors
  <2>1. /\ Len(s.results) = Len(old.results) + 1
        /\ s.results[Len(old.results) + 1] = entry
        /\ \A k \in 1..Len(old.results) : s.results[k] = old.results[k]
    BY <1>3 DEF Appended
  <2>2. DOMAIN s.results = DOMAIN old.results \union {Len(old.results) + 1}
    BY <1>2, <2>1
  <2>3. {RiskRank(s.results[k].risk) : k \in DOMAIN s.results}
          = {RiskRank(old.results[k].risk) : k \in DOMAIN old.results} \union {RiskRank(entry.risk)}
    <3>1. \A k \in DOMAIN s.results :
             \/ k \in DOMAIN old.results /\ s.results[k] = old.results[k]
             \/ s.results[k] = entry
      BY <1>2, <2>1, <2>2
    <3>2. \A k \in DOMAIN old.results : k \in DOMAIN s.results /\ s.results[k] = old.results[k]
      BY <1>2, <2>1, <2>2
    <3>3. Len(old.results) + 1 \in DOMAIN s.results
      BY <2>2
    <3> QED BY <2>1, <3>1, <3>2, <3>3
  <2>4. RanksHeard(s) = RanksHeard(old) \union {RiskRank(entry.risk)}
    BY <1>3, <2>3 DEF RanksHeard
  <2>5. Heard(s) = Heard(old) \union {RiskRank(entry.risk)}
    BY <1>1, <2>4 DEF Heard
  <2>6. {RiskRank(entry.risk)} \in SUBSET (0..3)
    BY RisksAreRanked
  <2> QED BY <2>5, <2>6, Zenon
<1>4. CASE Appended(s.errors, old.errors, entry) /\ s.results = old.results
  <2>1. Len(s.errors) # 0
    BY <1>2, <1>4 DEF Appended
  <2>2. s.errors # <<>>
    BY <2>1, EmptyHasNone, Zenon
  <2>3. RanksHeard(s) = RanksHeard(old) \union {1}
    BY <1>4, <2>2 DEF RanksHeard
  <2>4. Heard(s) = Heard(old) \union {1}
    BY <1>1, <2>3 DEF Heard
  <2>5. {1} \in SUBSET (0..3)
    OBVIOUS
  <2> QED BY <2>4, <2>5, Zenon
<1> QED BY <1>1, <1>3, <1>4

\* A scan that has discovered nothing has heard that, which is a review.
LEMMA DecisionIsOfTheHeard ==
    ASSUME NEW f, NEW s, Concluded(f, s), IsScan(scan[f])
    PROVE  Heard(s) = Heard(scan[f]) /\ s.decision = DecisionFor(Heard(scan[f]))
<1> DEFINE old == scan[f]
<1>1. /\ old.pc = "analyse" /\ s.pc = "done"
      /\ s.found = old.found /\ s.results = old.results /\ s.errors = old.errors
      /\ s.decision = IF old.found = <<>> THEN "warn" ELSE DecisionFor(RanksHeard(old))
  BY DEF Concluded
<1>2. Heard(s) = Heard(old)
  BY <1>1 DEF Heard, RanksHeard
<1>3. CASE old.found = <<>>
  <2>1. Len(old.results) = 0 /\ Len(old.errors) = 0 /\ DOMAIN old.results = 1..Len(old.results)
    <3>1. /\ Len(old.results) \in Nat /\ Len(old.errors) \in Nat
          /\ DOMAIN old.results = 1..Len(old.results)
          /\ Len(old.results) + Len(old.errors) <= Len(old.found)
      BY LengthOf DEF IsScan
    <3>2. Len(old.found) = 0
      BY <1>3, EmptyHasNone
    <3> QED BY <3>1, <3>2, NoRoom
  <2>2. RanksHeard(old) \subseteq {1}
    <3>1. DOMAIN old.results = {}
      BY <2>1
    <3> QED BY <3>1 DEF RanksHeard
  <2>3. Heard(old) = {1}
    BY <1>1, <1>3, <2>2 DEF Heard
  <2> QED BY <1>1, <1>2, <1>3, <2>3 DEF DecisionFor
<1>4. CASE old.found # <<>>
  BY <1>1, <1>2, <1>4 DEF Heard
<1> QED BY <1>2, <1>3, <1>4

\* What a step of a gate may do to what it has heard and to its decision.
Hears(heard, decision, more, then) ==
    \/ more = heard /\ then = decision
    \/ /\ decision = "none" /\ then = "none"
       /\ \E some \in SUBSET (0..3) : more = heard \union some
    \/ decision = "none" /\ more = heard /\ then = DecisionFor(heard)

LEMMA TurnHears ==
    ASSUME ProgressInv, NEW f, NEW s, OneTurn(f, s), IsScan(s)
    PROVE  Hears(Heard(scan[f]), scan[f].decision, Heard(s), s.decision)
<1> DEFINE old == scan[f]
<1>1. f \in Fronts
  BY DEF OneTurn, Walked, Looked, Took, Ended, Answered, Concluded, Turn
<1>2. IsScan(old) /\ DecisionInv(old)
  BY <1>1 DEF ProgressInv, ScanInv
<1>3. old.pc # "done" => old.decision = "none"
  BY <1>2 DEF DecisionInv
<1>4. CASE Walked(f, s) \/ Looked(f, s)
  <2>1. /\ s.found = old.found /\ s.results = old.results /\ s.errors = old.errors
        /\ s.decision = old.decision
        /\ old.pc \notin {"analyse", "done"} /\ s.pc \notin {"analyse", "done"}
    BY <1>4 DEF Walked, Looked, SameAccount
  <2>2. Heard(s) = Heard(old)
    BY <2>1 DEF Heard, RanksHeard
  <2> QED BY <2>1, <2>2 DEF Hears
<1>5. CASE Took(f, s)
  <2>1. /\ s.results = old.results /\ s.errors = old.errors
        /\ s.decision = old.decision
        /\ old.pc \notin {"analyse", "done"} /\ s.pc \notin {"analyse", "done"}
    BY <1>5 DEF Took
  <2>2. Heard(s) = Heard(old)
    BY <2>1 DEF Heard, RanksHeard
  <2> QED BY <2>1, <2>2 DEF Hears
<1>6. CASE Ended(f, s)
  <2>1. /\ s.found = old.found /\ s.results = old.results /\ s.errors = old.errors
        /\ s.decision = old.decision /\ old.pc = "look" /\ s.pc = "analyse"
    BY <1>6 DEF Ended, SameAccount
  <2>2. Heard(s) = Heard(old) \/ Heard(s) = Heard(old) \union {1}
    BY <2>1 DEF Heard, RanksHeard
  <2>3. {1} \in SUBSET (0..3)
    OBVIOUS
  <2>4. old.decision = "none" /\ s.decision = "none"
    BY <1>3, <2>1
  <2> QED BY <2>1, <2>2, <2>3, <2>4 DEF Hears
<1>7. CASE Answered(f, s)
  <2>1. s.decision = old.decision /\ old.pc = "analyse"
    BY <1>7 DEF Answered
  <2>2. \E some \in SUBSET (0..3) : Heard(s) = Heard(old) \union some
    BY <1>2, <1>7, NoteIsHeard
  <2> QED BY <1>3, <2>1, <2>2 DEF Hears
<1>8. CASE Concluded(f, s)
  <2>1. old.pc = "analyse"
    BY <1>8 DEF Concluded
  <2>2. Heard(s) = Heard(old) /\ s.decision = DecisionFor(Heard(old))
    BY <1>2, <1>8, DecisionIsOfTheHeard
  <2> QED BY <1>3, <2>1, <2>2 DEF Hears
<1> QED BY <1>4, <1>5, <1>6, <1>7, <1>8 DEF OneTurn

\* A step of the scans is heard by either front end.
LEMMA StepIsHeard ==
    ASSUME ProgressInv, ProgressInv', [Next]_vars, NEW f \in Fronts
    PROVE  Hears(Heard(scan[f]), scan[f].decision, Heard(scan'[f]), scan'[f].decision)
<1>1. CASE CliStep \/ McpStep
  <2>1. PICK g, s : OneTurn(g, s)
    BY <1>1, ProgressHasRecords, ScanIsTurns
  <2>2. /\ g \in Fronts /\ scan' = [scan EXCEPT ![g] = s]
        /\ scan = [h \in Fronts |-> scan[h]]
    BY <2>1 DEF OneTurn, Walked, Looked, Took, Ended, Answered, Concluded, Turn, ProgressInv
  <2>3. CASE f = g
    <3>1. scan'[f] = s
      BY <2>2, <2>3
    <3>2. IsScan(s)
      BY <3>1 DEF ProgressInv, ScanInv
    <3> QED BY <2>1, <2>3, <3>1, <3>2, TurnHears
  <2>4. CASE f # g
    <3>1. scan'[f] = scan[f]
      BY <2>2, <2>4
    <3> QED BY <3>1 DEF Hears
  <2> QED BY <2>3, <2>4
<1>2. CASE Change \/ UNCHANGED vars
  <2>1. scan' = scan
    BY <1>2 DEF Change, vars
  <2> QED BY <2>1 DEF Hears
<1> QED BY <1>1, <1>2 DEF Next

-----------------------------------------------------------------------------
(* Theorems                                                                *)

\* A scan that proceeds has discovered something, and all of it was read, within
\* the limit and found safe: for any tree and any changes of it
\* (scan_discovered_inputs, aggregate_project_scan).
THEOREM ProceedingIsEarned == Spec => []ProceedMeansClear
<1>1. ProgressInv => ProceedMeansClear
  <2> SUFFICES ASSUME ProgressInv, NEW f \in Fronts, scan[f].decision = "proceed"
               PROVE  /\ scan[f].found # <<>>
                      /\ \A k \in DOMAIN scan[f].found : \E j \in DOMAIN scan[f].results :
                             /\ scan[f].results[j].place = scan[f].found[k].place
                             /\ scan[f].results[j].tool = scan[f].found[k].tool
                             /\ scan[f].results[j].risk = "safe"
                             /\ scan[f].results[j].input.verdict = "safe"
                             /\ scan[f].found[k].size \in 0..MaxFileBytes
    BY Zenon DEF ProceedMeansClear
  <2>1. IsScan(scan[f]) /\ AccountInv(f, scan[f]) /\ DecisionInv(scan[f])
    BY DEF ProgressInv, ScanInv
  <2>2. /\ scan[f].found # <<>> /\ Len(scan[f].errors) = 0
        /\ Len(scan[f].results) = Len(scan[f].found)
        /\ \A j \in 1..Len(scan[f].results) : scan[f].results[j].risk = "safe"
    BY <2>1 DEF DecisionInv
  <2>3. /\ DOMAIN scan[f].found = 1..Len(scan[f].found)
        /\ DOMAIN scan[f].results = 1..Len(scan[f].found)
    BY <2>1, <2>2, LengthOf DEF IsScan
  <2>4. ASSUME NEW k \in DOMAIN scan[f].found
        PROVE  /\ scan[f].results[k].place = scan[f].found[k].place
               /\ scan[f].results[k].tool = scan[f].found[k].tool
               /\ scan[f].results[k].risk = "safe"
               /\ scan[f].results[k].input.verdict = "safe"
               /\ scan[f].found[k].size \in 0..MaxFileBytes
    <3>1. k \in 1..Len(scan[f].results)
      BY <2>2, <2>3
    <3>2. IsResultOf(f, scan[f].found[k], scan[f].results[k])
      BY <2>1, <2>2, <3>1, Zenon DEF AccountInv
    <3>3. scan[f].results[k].risk = "safe"
      BY <2>2, <3>1
    <3> QED BY <3>2, <3>3 DEF IsResultOf
  <2>5. ASSUME NEW k \in DOMAIN scan[f].found
        PROVE  k \in DOMAIN scan[f].results
    BY <2>3
  <2> QED BY <2>2, <2>4, <2>5, Zenon
<1> QED BY <1>1, Progress, PTL

\* What the MCP tool analyses is a file it could read, no longer than the limit,
\* however the files change under it (agent_gate_project copies what it read).
THEOREM TheCopyIsAnalysed == Spec => []CopyIsMeasured
<1>1. ProgressInv => CopyIsMeasured
  <2> SUFFICES ASSUME ProgressInv, NEW j \in DOMAIN scan["mcp"].results
               PROVE  LET input == scan["mcp"].results[j].input
                      IN  input.size <= MaxFileBytes /\ input.readable /\ input.kind = "file"
    BY DEF CopyIsMeasured
  <2>1. IsScan(scan["mcp"]) /\ AccountInv("mcp", scan["mcp"])
    BY DEF ProgressInv, ScanInv, Fronts
  <2>2. j \in 1..Len(scan["mcp"].results)
    BY <2>1, LengthOf DEF IsScan
  <2>3. PICK k \in 1..Len(scan["mcp"].found) :
            IsResultOf("mcp", scan["mcp"].found[k], scan["mcp"].results[j])
    BY <2>1, <2>2 DEF AccountInv
  <2>4. IsItem("mcp", scan["mcp"].found[k])
    BY <2>1 DEF AccountInv
  <2>5. /\ scan["mcp"].results[j].input = scan["mcp"].found[k].copy
        /\ scan["mcp"].results[j].input.kind \notin {"missing", "pipe"}
        /\ scan["mcp"].found[k].size \in 0..MaxFileBytes
    BY <2>3 DEF IsResultOf
  <2>6. /\ scan["mcp"].found[k].copy.kind \in {"file", "missing", "pipe"}
        /\ scan["mcp"].found[k].copy.readable
        /\ scan["mcp"].found[k].copy.size \in 0..MaxFileBytes
    BY <2>4, <2>5 DEF IsItem, IsContent
  <2>7. scan["mcp"].found[k].copy.size <= MaxFileBytes
    BY <2>6, LimitAssumption
  <2> QED BY <2>5, <2>6, <2>7
<1> QED BY <1>1, Progress, PTL

\* Every scan is in one of its steps and has a decision exactly when it is done,
\* has found places of the tree for tools of the tables, not more than it may,
\* and has not analysed more than it found (scan_discovered_inputs,
\* _discover_project_inputs).
THEOREM ScansHaveTheirTypes == Spec => []TypeOK
<1>1. ProgressInv /\ FoundInv => TypeOK
  <2> SUFFICES ASSUME ProgressInv, FoundInv
               PROVE  TypeOK
    OBVIOUS
  <2>1. ASSUME NEW f \in Fronts
        PROVE  /\ scan[f].pc \in {"walk", "look", "analyse", "done", "failed"}
               /\ scan[f].decision \in Decisions
               /\ scan[f].decision # "none" <=> scan[f].pc = "done"
               /\ \A k \in DOMAIN scan[f].found :
                      scan[f].found[k].place \in DOMAIN tree /\ scan[f].found[k].tool \in Tools
               /\ Analysed(f) <= Len(scan[f].found)
               /\ Len(scan[f].found) <= IF f = "mcp" THEN MaxFiles ELSE MaxFiles + 1
    <3>1. /\ IsScan(scan[f]) /\ DecisionInv(scan[f])
          /\ StageInv(scan[f]) /\ RoomInv(f, scan[f]) /\ ToolInv(scan[f])
      BY DEF ProgressInv, ScanInv, FoundInv
    <3>2. DOMAIN scan[f].found = 1..Len(scan[f].found)
      BY <3>1, LengthOf DEF IsScan
    <3> QED
      BY <3>1, <3>2 DEF IsScan, DecisionInv, StageInv, RoomInv, ToolInv, IsTool, Analysed
  <2>2. changes \in 0..MaxChanges
    BY DEF FoundInv
  <2> QED BY <2>1, <2>2 DEF TypeOK
<1> QED BY <1>1, Finding, PTL

\* For every content of any tree, and any ecosystem the tables name: the MCP tool
\* that takes it gives the gate its command gives (the agent_gate_* tools, the
\* handlers of cli.py).
THEOREM ToolsGiveTheSameGate == Spec => []ToolsAgree
<1>1. ProgressInv /\ FoundInv => ToolsAgree
  <2> SUFFICES ASSUME ProgressInv, FoundInv, NEW f \in Fronts, NEW j \in DOMAIN scan[f].results
               PROVE  McpOutcome(scan[f].results[j].tool, Framework, scan[f].results[j].input)
                        = Gives("gate", scan[f].results[j].risk)
    BY DEF ToolsAgree
  <2>1. IsScan(scan[f]) /\ ToolInv(scan[f])
    BY DEF ProgressInv, ScanInv, FoundInv
  <2>2. IsGate(scan[f].results[j])
    BY <2>1, LengthOf DEF IsScan, ToolInv
  <2>3. CliOutcome(CommandFor(scan[f].results[j].tool), Framework, scan[f].results[j].input).outcome
          = "gate"
    BY <2>2 DEF IsGate, Gives
  <2> QED BY <2>2, <2>3, SameGate DEF IsGate, IsTool
<1> QED BY <1>1, Finding, PTL

\* For any tree, and whatever limits: while nothing changes, what the MCP scan
\* finds the command line finds, for the same tool and with the same answer, with
\* the two exceptions FrontsAgree names (identify_project_input with and without
\* inspect_content, agent_gate_project).
THEOREM TheFrontsAgree == Spec => []FrontsAgree
<1>1. ProgressInv /\ StillInv => FrontsAgree
  <2> SUFFICES ASSUME ProgressInv, StillInv, changes = 0,
                      \A f \in Fronts : scan[f].pc = "done"
               PROVE  /\ \A r \in Range(scan["mcp"].results) :
                             NameTells(tree[r.place]) => r \in Range(scan["cli"].results)
                      /\ \A e \in Range(scan["mcp"].errors) :
                             NameTells(tree[e.place]) =>
                                 \E d \in Range(scan["cli"].errors) :
                                     /\ d.place = e.place /\ d.tool = e.tool
                                     /\ d = e \/ (e.code = "unreadable" /\ ~e.input.readable)
    BY DEF FrontsAgree
  <2> DEFINE cli == scan["cli"]
             mcp == scan["mcp"]
  <2>1. /\ StillIn(tree, "cli", cli) /\ StillIn(tree, "mcp", mcp)
        /\ IsScan(cli) /\ IsScan(mcp) /\ cli.pc = "done"
    BY DEF StillInv, ProgressInv, ScanInv, Fronts
  <2>2. /\ DOMAIN cli.results = 1..Len(cli.results) /\ DOMAIN cli.errors = 1..Len(cli.errors)
        /\ DOMAIN mcp.results = 1..Len(mcp.results) /\ DOMAIN mcp.errors = 1..Len(mcp.errors)
    BY <2>1, LengthOf DEF IsScan
  <2>3. ASSUME NEW p, Taken(tree, "mcp", p), NameTells(tree[p])
        PROVE  /\ IsContent(tree[p].is) /\ tree[p].is.kind = "file"
               /\ CliTool(tree[p]) = McpTool(tree[p])
               /\ LET note == NoteAt(tree, "cli", p)
                  IN  IF note.code = "none" THEN note \in Range(cli.results)
                                            ELSE note \in Range(cli.errors)
    <3>1. p \in DOMAIN tree /\ p \in Shown(tree) /\ McpTool(tree[p]) # "none"
      BY <2>3 DEF Taken, Shown, ToolOf
    <3>2. IsContent(tree[p].is)
      BY <3>1 DEF ProgressInv, TreeInv
    <3>3. tree[p].is.kind = "file"
      BY <2>3, <3>2, TakenIsFile
    <3>4. CliTool(tree[p]) = McpTool(tree[p])
      BY <2>3, <3>1, <3>2, <3>3, SameTool
    <3>5. ToolOf("cli", tree[p]) # "none"
      BY <3>1, <3>4 DEF ToolOf
    <3>6. cli.todo = {}
      BY <2>1 DEF StillIn, PlacesIn
    <3>7. PICK k \in 1..Len(cli.found) : cli.found[k].place = p
      BY <2>1, <3>1, <3>5, <3>6 DEF StillIn, PlacesIn
    <3>8. PICK note : note = NoteAt(tree, "cli", p)
      OBVIOUS
    <3>9. IF note.code = "none" THEN \E j \in 1..Len(cli.results) : cli.results[j] = note
                                ELSE \E j \in 1..Len(cli.errors) : cli.errors[j] = note
      BY <2>1, <3>7, <3>8 DEF StillIn, NotesIn
    <3> QED BY <2>2, <3>2, <3>3, <3>4, <3>8, <3>9 DEF Range
  <2>4. ASSUME NEW r \in Range(mcp.results), NameTells(tree[r.place])
        PROVE  r \in Range(cli.results)
    <3>1. IsNote(tree, "mcp", r) /\ r.code = "none"
      BY <2>1, <2>2 DEF Range, StillIn, NotesIn
    <3>2. Taken(tree, "mcp", r.place) /\ r = NoteAt(tree, "mcp", r.place)
      BY <3>1 DEF IsNote
    <3>3. PICK p, note : p = r.place /\ note = NoteAt(tree, "cli", p)
      OBVIOUS
    <3>4. tree[p].is.readable
      BY <2>3, <2>4, <3>1, <3>2, <3>3, SameNote
    <3>5. note = r
      BY <2>3, <2>4, <3>2, <3>3, <3>4, SameNote
    <3> QED BY <2>3, <2>4, <3>1, <3>2, <3>3, <3>5
  <2>5. ASSUME NEW e \in Range(mcp.errors), NameTells(tree[e.place])
        PROVE  \E d \in Range(cli.errors) :
                   /\ d.place = e.place /\ d.tool = e.tool
                   /\ d = e \/ (e.code = "unreadable" /\ ~e.input.readable)
    <3>1. IsNote(tree, "mcp", e) /\ e.code # "none"
      BY <2>1, <2>2 DEF Range, StillIn, NotesIn
    <3>2. Taken(tree, "mcp", e.place) /\ e = NoteAt(tree, "mcp", e.place)
      BY <3>1 DEF IsNote
    <3>3. PICK p, note : p = e.place /\ note = NoteAt(tree, "cli", p)
      OBVIOUS
    <3>4. /\ IsContent(tree[p].is) /\ tree[p].is.kind = "file"
          /\ CliTool(tree[p]) = McpTool(tree[p])
          /\ note.code # "none" => note \in Range(cli.errors)
      BY <2>3, <2>5, <3>2, <3>3
    <3>5. /\ note.place = p /\ note.tool = e.tool /\ e.input = tree[p].is
          /\ tree[p].is.readable => note = e
          /\ ~tree[p].is.readable => e.code = "unreadable" /\ note.code # "none"
      BY <3>2, <3>3, <3>4, SameNote
    <3> QED BY <3>1, <3>3, <3>4, <3>5
  <2> QED BY <2>4, <2>5
<1> QED BY <1>1, Staying, PTL

\* Either front end decides once and by the highest of what it has heard, as the
\* abstract gate does: a step of the scans or of the tree hears more, decides, or is
\* no step of the gate (aggregate_project_scan, agent_gate_project).
THEOREM ScansImplementCeiling == Spec => ImplementsCeiling
<1>1. Init => CliCeiling!Init /\ McpCeiling!Init
  <2> SUFFICES ASSUME Init, NEW f \in Fronts
               PROVE  Heard(scan[f]) = {} /\ scan[f].decision = "none"
    BY DEF CliCeiling!Init, McpCeiling!Init, Fronts
  <2>1. /\ scan[f].pc \in {"walk", "failed"} /\ scan[f].results = <<>> /\ scan[f].errors = <<>>
        /\ scan[f].decision = "none"
    BY DEF Init
  <2>2. DOMAIN scan[f].results = {}
    BY <2>1
  <2> QED BY <2>1, <2>2 DEF Heard, RanksHeard
<1>2. ASSUME ProgressInv, ProgressInv', [Next]_vars
      PROVE  [CliCeiling!Next]_(CliCeiling!vars)
  <2> DEFINE heard == Heard(scan["cli"])
             decision == scan["cli"].decision
  <2>1. Hears(heard, decision, heard', decision')
    BY <1>2, StepIsHeard DEF Fronts
  <2>2. CliCeiling!ByCeiling(heard) = DecisionFor(heard)
    <3>1. heard \subseteq 0..3
      BY RanksAreHeard
    <3> HIDE DEF heard
    <3> QED BY <3>1 DEF CliCeiling!ByCeiling, DecisionFor
  <2>3. CASE heard' = heard /\ decision' = decision
    BY <2>3 DEF CliCeiling!vars
  <2>4. ASSUME decision = "none", decision' = "none",
               NEW some \in SUBSET (0..3), heard' = heard \union some
        PROVE  CliCeiling!Next
    BY <2>4 DEF CliCeiling!Next, CliCeiling!Hear, CliCeiling!Rank
  <2>5. CASE decision = "none" /\ heard' = heard /\ decision' = DecisionFor(heard)
    BY <2>2, <2>5 DEF CliCeiling!Next, CliCeiling!Decide
  <2> QED BY <2>1, <2>3, <2>4, <2>5 DEF Hears
<1>3. ASSUME ProgressInv, ProgressInv', [Next]_vars
      PROVE  [McpCeiling!Next]_(McpCeiling!vars)
  <2> DEFINE heard == Heard(scan["mcp"])
             decision == scan["mcp"].decision
  <2>1. Hears(heard, decision, heard', decision')
    BY <1>3, StepIsHeard DEF Fronts
  <2>2. McpCeiling!ByCeiling(heard) = DecisionFor(heard)
    <3>1. heard \subseteq 0..3
      BY RanksAreHeard
    <3> HIDE DEF heard
    <3> QED BY <3>1 DEF McpCeiling!ByCeiling, DecisionFor
  <2>3. CASE heard' = heard /\ decision' = decision
    BY <2>3 DEF McpCeiling!vars
  <2>4. ASSUME decision = "none", decision' = "none",
               NEW some \in SUBSET (0..3), heard' = heard \union some
        PROVE  McpCeiling!Next
    BY <2>4 DEF McpCeiling!Next, McpCeiling!Hear, McpCeiling!Rank
  <2>5. CASE decision = "none" /\ heard' = heard /\ decision' = DecisionFor(heard)
    BY <2>2, <2>5 DEF McpCeiling!Next, McpCeiling!Decide
  <2> QED BY <2>1, <2>3, <2>4, <2>5 DEF Hears
<1> QED
  BY <1>1, <1>2, <1>3, Progress, PTL
  DEF Spec, ImplementsCeiling, CliCeiling!Spec, McpCeiling!Spec
=============================================================================
