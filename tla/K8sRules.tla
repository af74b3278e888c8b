------------------------------ MODULE K8sRules ------------------------------
(***************************************************************************)
(* The rules of src/readtheplan/rules/k8s.py: core objects, and the        *)
(* custom resources of the controllers that run in a cluster.              *)
(***************************************************************************)
EXTENDS RuleTables

\* Applying a manifest creates or updates; the rules of core objects leave it
\* to the adapter that read the manifest.
Unapplied(ladder) ==
    [a \in DOMAIN ladder \union {"apply"} |-> IF a = "apply" THEN "none" ELSE ladder[a]]

\* Controllers finish what a delete starts: a replace is no better.
Reconciled(update, create) == Ladder("irreversible", "irreversible", update, create)
Controlled(types) == Rule(types, Reconciled("dangerous", "dangerous"), {})

\* Facts of a desired spec are found whatever the action, unless it destroys.
Kept == Actions \ Destroying
Synced(types, weaknesses) ==
    Rule(types, Reconciled("review", "review"), {Finds(Kept, weaknesses, "dangerous")})

\* ... or only as it is written.
Declared(types, weaknesses) ==
    Rule(types, Reconciled("review", "review"), {Finds(Writing, weaknesses, "dangerous")})

WorkloadObjectRules == <<
    Rule({"kubernetes_deployment", "kubernetes_deployment_v1"},
         Unapplied(Stateful("review", "dangerous")), {}) >>

ServiceObjectRules == <<
    Rule({"kubernetes_service", "kubernetes_service_v1"},
         Unapplied(Stateful("review", "review")), {}),
    Rule({"kubernetes_ingress", "kubernetes_ingress_v1"},
         Unapplied(Stateful("review", "dangerous")), {}) >>

SecretObjectRules == <<Controlled({"kubernetes_secret", "kubernetes_secret_v1"})>>

NamespaceObjectRules == <<
    Rule({"kubernetes_namespace", "kubernetes_namespace_v1"},
         Unapplied(Stateful("review", "review")), {}) >>

RbacObjectRules == <<
    Reviewed({"kubernetes_role_binding", "kubernetes_role_binding_v1"}, {}),
    Reviewed({"kubernetes_cluster_role", "kubernetes_cluster_role_v1"}, {"wildcard"}) >>

NetworkObjectRules == <<
    Reviewed({"kubernetes_network_policy", "kubernetes_network_policy_v1"}, {"default deny"}) >>

CoreRules ==
    WorkloadObjectRules \o ServiceObjectRules \o SecretObjectRules \o NamespaceObjectRules
      \o RbacObjectRules \o NetworkObjectRules

ArgoCdRules == <<
    Synced({"kubernetes_argocd_application", "kubernetes_argocd_application_set"}, {"prune"}),
    Synced({"kubernetes_argocd_project"}, {"wildcard"}) >>

FluxSourceRules == <<
    Rule({"kubernetes_flux_git_repository", "kubernetes_flux_oci_repository"},
         Ladder("dangerous", "dangerous", "review", "review"),
         {Finds(Kept, {"plain http", "secret reference", "suspended"}, "dangerous")}) >>

FluxReleaseRules == <<
    Synced({"kubernetes_flux_kustomization", "kubernetes_flux_helm_release"},
           {"prune", "remote cluster", "secret reference", "suspended"}) >>

FluxAutomationRules == <<
    Rule({"kubernetes_flux_image_update_automation", "kubernetes_flux_receiver"},
         Ladder("dangerous", "dangerous", "dangerous", "dangerous"), {}) >>

TektonRules == <<
    Declared({"kubernetes_tekton_task"}, {"runs code", "mutable image", "secret reference",
                                          "privileged", "workspace"}),
    Declared({"kubernetes_tekton_pipeline"}, {"remote reference", "runs code",
                                              "secret reference"}) >>

TektonRunRules == <<
    Controlled({"kubernetes_tekton_pipeline_run", "kubernetes_tekton_event_listener",
                "kubernetes_tekton_trigger_template"}) >>

TektonTriggerRules == <<
    Controlled({"kubernetes_tekton_trigger", "kubernetes_tekton_pipeline_resource"}),
    Declared({"kubernetes_tekton_trigger_binding"}, {}) >>

ArgoWorkflowRules == <<
    Controlled({"kubernetes_argo_workflow", "kubernetes_argo_event_source"}) >>

ArgoEventRules == <<
    Controlled({"kubernetes_argo_sensor", "kubernetes_argo_event_bus"}) >>

GatewayApiRules == <<
    Controlled({"kubernetes_gateway_class", "kubernetes_gateway",
                "kubernetes_gateway_http_route"}) >>

CertManagerRules == <<
    Controlled({"kubernetes_cert_manager_certificate", "kubernetes_cert_manager_issuer"}) >>

ExternalSecretsRules == <<
    Controlled({"kubernetes_external_secrets_secret_store",
                "kubernetes_external_secrets_push_secret"}) >>

IstioTrafficRules == <<Controlled({"kubernetes_istio_virtual_service"})>>

IstioSecurityRules == <<
    Controlled({"kubernetes_istio_envoy_filter", "kubernetes_istio_authorization_policy"}),
    Declared({"kubernetes_istio_telemetry"}, {"coverage off"}) >>

KyvernoRules == <<
    Controlled({"kubernetes_kyverno_cluster_policy", "kubernetes_kyverno_policy_exception"}) >>

\* Only a dry run or a warning is not enforced.
GatekeeperRules == <<
    Controlled({"kubernetes_gatekeeper_constraint_template", "kubernetes_gatekeeper_assign"}),
    Declared({"kubernetes_gatekeeper_constraint"}, {"enforced"}) >>

KedaRules == <<
    Controlled({"kubernetes_keda_scaled_object", "kubernetes_keda_trigger_authentication"}),
    Declared({"kubernetes_keda_cloud_event_source"}, {}) >>

KnativeRules == <<
    Controlled({"kubernetes_knative_service", "kubernetes_knative_broker"}) >>

ClusterApiRules == <<
    Controlled({"kubernetes_capi_cluster", "kubernetes_capi_machine",
                "kubernetes_capi_machine_health_check"}) >>

ClusterBootstrapRules == <<
    Controlled({"kubernetes_capi_kubeadm_control_plane", "kubernetes_capi_kubeadm_config"}) >>

ClusterExtensionRules == <<
    Controlled({"kubernetes_capi_extension_config", "kubernetes_capi_cluster_resource_set"}),
    Declared({"kubernetes_capi_ip_address"}, {}) >>

KarpenterRules == <<
    Controlled({"kubernetes_karpenter_node_pool", "kubernetes_karpenter_node_class"}) >>

K8sRegistered ==
    CoreRules \o ArgoCdRules \o FluxSourceRules \o FluxReleaseRules \o FluxAutomationRules
      \o TektonRules \o TektonRunRules \o TektonTriggerRules \o ArgoWorkflowRules \o ArgoEventRules \o GatewayApiRules
      \o CertManagerRules \o ExternalSecretsRules \o IstioTrafficRules \o IstioSecurityRules
      \o KyvernoRules \o GatekeeperRules \o KedaRules \o KnativeRules \o ClusterApiRules
      \o ClusterBootstrapRules \o ClusterExtensionRules \o KarpenterRules

\* Infrastructure providers are recognised by the prefix of their types.
K8sCrossCutting == <<Controlled({"kubernetes_capi_infrastructure_aws_machine"})>>
=============================================================================
