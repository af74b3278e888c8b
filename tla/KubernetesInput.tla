--------------------------- MODULE KubernetesInput --------------------------
(***************************************************************************)
(* Manifests before and after a revision, and what the Kubernetes adapter  *)
(* (adapters/kubernetes.py) reports of the difference: which objects were  *)
(* added, removed and modified, under which type the rules know them, and  *)
(* a single change to review when the manifests cannot be told apart.      *)
(*                                                                         *)
(* One kind stands for the kinds that a map treats alike, under the type   *)
(* that stands for theirs in the rule tables.                              *)
(***************************************************************************)
EXTENDS RuleTables

CONSTANT MaxManifestEdits     \* bound: steps of a revision

VARIABLE manifests            \* the lists before and after, and the steps taken

-----------------------------------------------------------------------------
\* Kinds and their types, by what serves them.
SensitiveControlPlaneKinds ==
    {"APIService", "CustomResourceDefinition", "MutatingWebhookConfiguration"}

K8sKindMap ==
    [Deployment |-> "kubernetes_deployment", Service |-> "kubernetes_service",
     Secret |-> "kubernetes_secret", ConfigMap |-> "kubernetes_config_map",
     Namespace |-> "kubernetes_namespace", ClusterRole |-> "kubernetes_cluster_role",
     StatefulSet |-> "kubernetes_stateful_set",
     APIService |-> "kubernetes_api_service",
     CustomResourceDefinition |-> "kubernetes_custom_resource_definition",
     MutatingWebhookConfiguration |-> "kubernetes_mutating_webhook_configuration"]

Served(groups, kinds) == [groups |-> groups, kinds |-> kinds]

ArgoKinds ==
    [Application |-> "kubernetes_argocd_application",
     AppProject |-> "kubernetes_argocd_project", Rollout |-> "kubernetes_deployment",
     Workflow |-> "kubernetes_argo_workflow", Sensor |-> "kubernetes_argo_sensor"]

FluxKinds ==
    [GitRepository |-> "kubernetes_flux_git_repository",
     Kustomization |-> "kubernetes_flux_kustomization",
     Receiver |-> "kubernetes_flux_receiver"]

TektonKinds ==
    [Task |-> "kubernetes_tekton_task", PipelineRun |-> "kubernetes_tekton_pipeline_run",
     Trigger |-> "kubernetes_tekton_trigger"]

GatewayApiKinds ==
    [GatewayClass |-> "kubernetes_gateway_class", Gateway |-> "kubernetes_gateway"]

CertManagerKinds == [Certificate |-> "kubernetes_cert_manager_certificate"]

ExternalSecretsKinds == [SecretStore |-> "kubernetes_external_secrets_secret_store"]

IstioKinds ==
    [VirtualService |-> "kubernetes_istio_virtual_service",
     AuthorizationPolicy |-> "kubernetes_istio_authorization_policy"]

KyvernoKinds == [ClusterPolicy |-> "kubernetes_kyverno_cluster_policy"]

GatekeeperKinds == [ConstraintTemplate |-> "kubernetes_gatekeeper_constraint_template"]

KedaKinds == [ScaledObject |-> "kubernetes_keda_scaled_object"]

KnativeKinds ==
    [Service |-> "kubernetes_knative_service", Broker |-> "kubernetes_knative_broker"]

ClusterApiKinds ==
    [Cluster |-> "kubernetes_capi_cluster", Machine |-> "kubernetes_capi_machine",
     KubeadmConfig |-> "kubernetes_capi_kubeadm_config"]

KarpenterKinds == [NodePool |-> "kubernetes_karpenter_node_pool"]

\* Core kinds are looked up last, whatever the group.
KindMaps == <<
    Served({"argoproj.io"}, ArgoKinds), Served({"fluxcd.io"}, FluxKinds),
    Served({"tekton.dev"}, TektonKinds), Served({"gateway.networking"}, GatewayApiKinds),
    Served({"cert-manager.io"}, CertManagerKinds),
    Served({"external-secrets.io"}, ExternalSecretsKinds), Served({"istio.io"}, IstioKinds),
    Served({"kyverno.io"}, KyvernoKinds), Served({"gatekeeper.sh"}, GatekeeperKinds),
    Served({"keda.sh"}, KedaKinds), Served({"knative.dev"}, KnativeKinds),
    Served({"cluster.x-k8s.io"}, ClusterApiKinds), Served({"karpenter.sh"}, KarpenterKinds) >>

Custom == "custom"    \* the type of a kind that no map names
NormalizeResourceType(kind, group) ==
    LET Serves(m) == group \in KindMaps[m].groups /\ kind \in DOMAIN KindMaps[m].kinds
    IN  IF \E m \in DOMAIN KindMaps : Serves(m)
        THEN KindMaps[CHOOSE m \in DOMAIN KindMaps : Serves(m)].kinds[kind]
        ELSE IF kind \in DOMAIN K8sKindMap THEN K8sKindMap[kind] ELSE Custom

\* Fault: a kind is left out of the list.
ClusterScopedKinds_Short ==
    {"Namespace", "GatewayClass", "ClusterPolicy"} \union SensitiveControlPlaneKinds

ClusterScopedKinds ==
    {"ClusterRole", "Namespace", "GatewayClass", "ClusterPolicy"}
      \union SensitiveControlPlaneKinds

-----------------------------------------------------------------------------
(***************************************************************************)
(* A manifest: what identifies it, "" where it says nothing, the content   *)
(* that is compared, and the content that is not (_get_properties_for_rules*)
(* leaves out webhooks, provisioner, immutable and the like).              *)
(***************************************************************************)
None == ""
Nowhere == "cluster"

\* Fault: the namespace is not part of what identifies an object.
Namespace_Ignored(r) == Nowhere

Namespace(r) ==
    IF r.kind \in ClusterScopedKinds \/ r.group = "karpenter.sh" THEN Nowhere ELSE r.namespace

\* Two groups may serve one kind: the group is not part of it.
Identity(r) == <<r.kind, r.name, Namespace(r)>>

Identities(list) == {Identity(list[i]) : i \in DOMAIN list}

HasValidDiffIdentity(r) == r.kind # None /\ r.name # None

\* Fault: a later manifest takes the place of an earlier one.
Ambiguous_Never(list) == FALSE

Ambiguous(list) == Cardinality(Identities(list)) # Len(list)

Malformed(old, new) ==
    \/ \E i \in DOMAIN old : ~HasValidDiffIdentity(old[i])
    \/ \E i \in DOMAIN new : ~HasValidDiffIdentity(new[i])
    \/ Ambiguous(old)
    \/ Ambiguous(new)

\* The last manifest of an identity, as in a dict that is filled in order.
Manifest(list, id) ==
    list[CHOOSE i \in DOMAIN list :
            /\ Identity(list[i]) = id
            /\ \A j \in DOMAIN list : Identity(list[j]) = id => j <= i]

PropertiesForRules(r) == r.compared

Reported(action, r) == [action |-> action, kind |-> r.kind, group |-> r.group,
                        id |-> Identity(r)]
MalformedInputChange ==
    [action |-> "Unknown", kind |-> "Unknown", group |-> None,
     id |-> <<"Unknown", "<malformed-input>", Nowhere>>]

Added(old, new) ==
    {Reported("Add", Manifest(new, id)) : id \in Identities(new) \ Identities(old)}
Removed(old, new) ==
    {Reported("Remove", Manifest(old, id)) : id \in Identities(old) \ Identities(new)}

\* Fault: the groups' version decides, not the content.
Modified_ByGroup(old, new) ==
    {Reported("Modify", Manifest(new, id)) : id \in
        {d \in Identities(old) \intersect Identities(new) :
           Manifest(old, d).group # Manifest(new, d).group}}

Modified(old, new) ==
    {Reported("Modify", Manifest(new, id)) : id \in
        {d \in Identities(old) \intersect Identities(new) :
           PropertiesForRules(Manifest(old, d)) # PropertiesForRules(Manifest(new, d))}}

ExtractFromDiff(old, new) ==
    IF Malformed(old, new) THEN {MalformedInputChange}
    ELSE Added(old, new) \union Removed(old, new) \union Modified(old, new)

\* The risk before the rules; a diff calls no replacement certain.
BaselineOf(change) ==
    IF change.action = "Unknown" THEN "review"
    ELSE IF change.action = "Remove" THEN "irreversible"
    ELSE IF change.kind \in SensitiveControlPlaneKinds THEN "dangerous"
    ELSE IF change.action = "Modify" \/ change.kind \notin DOMAIN K8sKindMap THEN "review"
    ELSE "safe"

\* A list of manifests without a past is all additions, even of one object twice.
ExtractFromSingle(list) ==
    IF \E i \in DOMAIN list : list[i].kind = None THEN {MalformedInputChange}
    ELSE {Reported("Add", list[i]) : i \in DOMAIN list}

ActionOf(change) ==
    CASE change.action = "Add" -> "apply"
      [] change.action = "Modify" -> "update"
      [] change.action = "Remove" -> "delete"
      [] OTHER -> "unknown"

-----------------------------------------------------------------------------
(***************************************************************************)
(* A revision of manifests.                                                *)
(***************************************************************************)
Object(kind, group, name, namespace) ==
    [kind |-> kind, group |-> group, name |-> name, namespace |-> namespace,
     compared |-> 0, other |-> 0]

\* Objects a repository may hold: of the same name in two namespaces, of a
\* cluster-wide kind, of a kind that two groups serve, and of unknown kinds.
Objects ==
    {Object("Deployment", "apps", "a", "n1"), Object("Deployment", "apps", "a", "n2"),
     Object("ClusterRole", "rbac", "a", "n1"), Object("Service", "knative.dev", "a", "n1"),
     Object("MutatingWebhookConfiguration", "admission", "a", None),
     Object("Widget", "acme.io", "a", "n1")}

NoManifests == [old |-> <<>>, new |-> <<>>, steps |-> 0, used |-> FALSE]

InSomeOrder(set) ==
    {s \in [1..Cardinality(set) -> set] : \A i, j \in DOMAIN s : s[i] = s[j] => i = j}

\* Some order: no two manifests are compared by their place.
ManifestsInit ==
    \E set \in {s \in SUBSET Objects : Cardinality(s) <= 2} :
      LET list == CHOOSE l \in InSomeOrder(set) : TRUE
      IN manifests = [old |-> list, new |-> list, steps |-> 0, used |-> TRUE]

Rewrite(r) ==
    {[r EXCEPT !.compared = 1], [r EXCEPT !.other = 1], [r EXCEPT !.name = "b"],
     [r EXCEPT !.namespace = "n2"], [r EXCEPT !.group = "acme.io"],
     [r EXCEPT !.name = None], [r EXCEPT !.kind = None]}

Revise(new) ==
    /\ manifests.used
    /\ manifests.steps < MaxManifestEdits
    /\ manifests' = [manifests EXCEPT !.new = new, !.steps = @ + 1]

EditManifest ==
    \E i \in DOMAIN manifests.new : \E r \in Rewrite(manifests.new[i]) :
        Revise([manifests.new EXCEPT ![i] = r])

AddManifest == \E r \in Objects : Revise(Append(manifests.new, r))

DropManifest ==
    \E i \in DOMAIN manifests.new :
        Revise(SubSeq(manifests.new, 1, i - 1)
                 \o SubSeq(manifests.new, i + 1, Len(manifests.new)))

ManifestsNext == EditManifest \/ AddManifest \/ DropManifest
=============================================================================
