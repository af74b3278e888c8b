----------------------------- MODULE CloudRules -----------------------------
(***************************************************************************)
(* The rules of src/readtheplan/rules/azure.py, gcp.py and                 *)
(* kubernetes_provider.py.                                                 *)
(***************************************************************************)
EXTENDS RuleTables

(***************************************************************************)
(* Azure                                                                   *)
(***************************************************************************)
\* The types whose rules read what is under "properties", where the resource manager
\* has it; the rule for machines reads at the top.
ReadUnderProperties ==
    {"azurerm_storage_account", "azurerm_role_assignment", "azurerm_network_security_group",
     "azurerm_network_security_rule"}

AzureComputeRules == <<
    Rule({"azurerm_virtual_machine"}, Stateful("review", "none"),
         {Finds({"update"}, {"machine size"}, "dangerous")}),
    Rule({"azurerm_kubernetes_cluster"}, Stateful("review", "none"), {}) >>

AzureStorageRules == <<
    Rule({"azurerm_storage_account"}, Stateful("review", "none"),
         {Finds(Writing, {"public"}, "dangerous")}) >>

AzureAccessRules == <<Reviewed({"azurerm_role_assignment"}, {"privileged role"})>>

AzureNetworkRules == <<
    Rule({"azurerm_network_security_group", "azurerm_network_security_rule"},
         Stateful("review", "review"), {Finds(Actions, {"open to the internet"}, "dangerous")}) >>

AzureRules == AzureComputeRules \o AzureStorageRules \o AzureAccessRules \o AzureNetworkRules

(***************************************************************************)
(* Google Cloud                                                            *)
(***************************************************************************)
GcpComputeRules == <<
    Rule({"google_compute_instance"}, Stateful("review", "none"),
         {Finds({"update"}, {"machine size"}, "dangerous")}),
    Rule({"google_container_cluster"}, Stateful("review", "none"), {}) >>

GcpStorageRules == <<
    Rule({"google_sql_database_instance"}, Stateful("review", "none"),
         {Finds(Actions, {"major version"}, "dangerous")}),
    Rule({"google_storage_bucket"}, Ladder("irreversible", "irreversible", "review", "safe"), {}) >>

GcpNetworkRules == <<Rule({"google_compute_firewall"}, Stateful("review", "review"), {})>>

GcpRules == GcpComputeRules \o GcpStorageRules \o GcpNetworkRules

(***************************************************************************)
(* The Terraform provider for Kubernetes                                   *)
(***************************************************************************)
\* _delete: recreating is easy unless the object held data.
Recreatable(types, write, weaknesses) ==
    Rule(types, Ladder("dangerous", "dangerous", write, write),
         {Finds(Writing, weaknesses, "dangerous")})

KubernetesProviderClasses ==
    [workload |-> {"kubernetes_daemonset", "kubernetes_stateful_set", "kubernetes_stateful_set_v1"},
     scaling |-> {"kubernetes_horizontal_pod_autoscaler"},
     admission |-> {"kubernetes_validating_webhook_configuration"},
     manifest |-> {"kubernetes_manifest"},
     storage |-> {"kubernetes_storage_class"},
     volume |-> {"kubernetes_persistent_volume_claim", "kubernetes_persistent_volume_claim_v1"},
     network |-> {"kubernetes_api_service"},
     identity |-> {"kubernetes_service_account"},
     policy |-> {"kubernetes_pod_disruption_budget"},
     request |-> {"kubernetes_certificate_signing_request"},
     live |-> {"kubernetes_env", "kubernetes_node_taint"}]

KubernetesProviderWrites ==
    LET C == KubernetesProviderClasses
    IN  <<Recreatable(C.workload \union C.scaling \union C.admission \union C.manifest
                        \union C.storage \union C.network \union C.identity \union C.policy
                        \union C.request \union C.live, "dangerous", {}),
          Recreatable({"kubernetes_labels"}, "review", {})>>

KubernetesProviderData ==
    <<Guarded(KubernetesProviderClasses.volume),
      Reviewed({"kubernetes_config_map", "kubernetes_config_map_v1"}, {"sensitive data"})>>

HelmReleaseRules == <<Guarded({"helm_release"})>>

KubernetesProviderRules == KubernetesProviderWrites \o KubernetesProviderData \o HelmReleaseRules
=============================================================================
