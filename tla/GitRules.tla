------------------------------ MODULE GitRules ------------------------------
(***************************************************************************)
(* The rules for source hosts and dashboards in src/readtheplan/rules:     *)
(* github.py, gitlab.py and grafana.py.                                    *)
(***************************************************************************)
EXTENDS RuleTables

\* Controls: an update is dangerous whatever it changes, a create when it is weak.
Enforced(types, weaknesses) ==
    Rule(types, Stateful("dangerous", "review"), {Finds(Creating, weaknesses, "dangerous")})

(***************************************************************************)
(* GitHub                                                                  *)
(***************************************************************************)
GithubRepositoryRules == <<
    Rule({"github_repository"}, Stateful("review", "review"),
         {Finds(Writing, {"public", "visibility changed", "archived", "forking",
                          "protection off"}, "dangerous"),
          Finds(Creating, {"public by default"}, "dangerous")}) >>

GithubRoutingRules == <<
    Reviewed({"github_branch"}, {}),
    Guarded({"github_branch_default", "github_repository_pages"}) >>

GithubGovernanceRules == <<
    Enforced({"github_branch_protection", "github_organization_ruleset"},
             {"enforcement off", "bypass", "no approvals", "stale checks"}) >>

GithubMembershipRules == <<Reviewed({"github_membership", "github_team"}, {"privileged role"})>>

GithubOrganizationRules == <<
    Reviewed({"github_organization_settings"}, {"wide permissions", "protection off"}) >>

GithubActionsRules == <<
    Enforced({"github_actions_organization_permissions", "github_workflow_repository_permissions"},
             {"all actions", "unpinned"}),
    Reviewed({"github_enterprise_actions_workflow_permissions"}, {"write token"}) >>

GithubPerimeterRules == <<
    Guarded({"github_enterprise_ip_allow_list_entry", "github_organization_block",
             "github_release"}),
    Reviewed({"github_repository_custom_property", "github_issue_label"}, {}) >>

GithubSecretRules == <<
    Guarded({"github_actions_secret"}),
    Reviewed({"github_actions_variable"}, {}) >>

GithubEnvironmentRules == <<
    Enforced({"github_repository_deployment_branch_policy"}, {"bypass", "unprotected branches"}),
    Enforced({"github_repository_environment"},
             {"bypass", "unprotected branches", "no reviewers"}) >>

GithubIntegrationRules == <<
    Guarded({"github_repository_deploy_key"}),
    Reviewed({"github_repository_webhook"}, {"unverified tls", "no secret"}),
    Reviewed({"github_actions_runner_group"}, {"public", "custom image"}),
    Guarded({"github_actions_organization_oidc_subject_claim_customization_template",
             "github_app_installation_repository"}) >>

GithubContentRules == <<
    Reviewed({"github_repository_file"}, {"pipeline file", "overwrite"}),
    Reviewed({"github_repository_vulnerability_alerts"}, {"protection off"}) >>

GithubRules ==
    GithubRepositoryRules \o GithubRoutingRules \o GithubGovernanceRules
      \o GithubMembershipRules \o GithubOrganizationRules \o GithubActionsRules
      \o GithubPerimeterRules \o GithubSecretRules \o GithubEnvironmentRules
      \o GithubIntegrationRules \o GithubContentRules

(***************************************************************************)
(* GitLab                                                                  *)
(***************************************************************************)
GitlabLifecycleRules == <<
    Reviewed({"gitlab_group"},
             {"public", "visibility changed", "archived", "permanent deletion",
              "sharing", "no second factor", "shared runners"}),
    Reviewed({"gitlab_project"},
             {"public", "visibility changed", "archived", "permanent deletion",
              "checks skipped", "shared runners", "pipeline variables"}) >>

GitlabInstanceRules == <<
    Guarded({"gitlab_application"}),
    Enforced({"gitlab_application_settings"}, {"public", "protection off"}) >>

GitlabProtectionRules == <<
    Enforced({"gitlab_branch_protection", "gitlab_project_approval_rule"},
             {"bypass", "no approvals"}),
    Enforced({"gitlab_project_protected_environment"},
             {"bypass", "no approvals", "no approval rules"}) >>

GitlabIdentityRules == <<Enforced({"gitlab_group_membership"}, {"privileged role"})>>

GitlabCredentialRules == <<Guarded({"gitlab_project_access_token", "gitlab_project_variable"})>>

GitlabRunnerRules == <<
    Enforced({"gitlab_user_runner"}, {"unprotected jobs", "untagged jobs"}),
    Enforced({"gitlab_runner_controller"}, {"unprotected jobs", "untagged jobs", "live"}) >>

GitlabHookRules == <<
    Enforced({"gitlab_integration_slack"}, {"unverified tls"}),
    Enforced({"gitlab_project_hook"}, {"unverified tls", "no secret"}) >>

\* What a mirror or a page serves is dangerous by its name.
GitlabMirrorRules == <<
    Guarded({"gitlab_project_push_mirror", "gitlab_pages_domain"}),
    Reviewed({"gitlab_group_dependency_proxy"}, {}) >>

GitlabPipelineRules == <<
    Guarded({"gitlab_pipeline_trigger", "gitlab_project_job_token_scope"}),
    Reviewed({"gitlab_pipeline_schedule"}, {"live"}),
    Reviewed({"gitlab_repository_file"}, {"pipeline file"}) >>

GitlabSupplyRules == <<
    Guarded({"gitlab_release"}),
    Enforced({"gitlab_compliance_framework"}, {"protection off"}) >>

GitlabCollaborationRules == <<Reviewed({"gitlab_project_issue_board"}, {})>>

GitlabRules ==
    GitlabLifecycleRules \o GitlabInstanceRules \o GitlabProtectionRules
      \o GitlabIdentityRules \o GitlabCredentialRules \o GitlabRunnerRules
      \o GitlabHookRules \o GitlabMirrorRules \o GitlabPipelineRules
      \o GitlabSupplyRules \o GitlabCollaborationRules

(***************************************************************************)
(* Grafana                                                                 *)
(***************************************************************************)
\* The classes are asked in this order; those without a set go by their prefix.
GrafanaClasses ==
    [secret |-> {"grafana_service_account_token", "grafana_apps_secret_keeper_v1beta1"},
     permission |-> {"grafana_folder_permission"},
     git_sync |-> {"grafana_apps_provisioning_repository_v0alpha1"}]

GrafanaCredentialRules ==
    LET C == GrafanaClasses IN <<Guarded(C.secret \union C.permission \union C.git_sync)>>

GrafanaIdentityRules == <<
    Reviewed({"grafana_sso_settings", "grafana_team"},
             {"privileged role", "open signup", "enforcement off", "inline secret"}) >>

GrafanaAlertingRules == <<
    Guarded({"grafana_mute_timing", "grafana_contact_point"}),
    Reviewed({"grafana_rule_group"}, {"muted", "coverage off"}) >>

GrafanaContentRules == <<
    Guarded({"grafana_dashboard_public", "grafana_report"}),
    Reviewed({"grafana_dashboard"}, {"public", "overwrite"}) >>

GrafanaDataRules == <<
    Guarded({"grafana_cloud_provider_aws_account", "grafana_data_source"}),
    Reviewed({"grafana_fleet_management_pipeline"},
             {"plain http", "unverified tls", "open range", "inline secret"}) >>

GrafanaResponderRules == <<
    Guarded({"grafana_oncall_outgoing_webhook", "grafana_oncall_escalation"}),
    Reviewed({"grafana_oncall_schedule"}, {"coverage off", "open range"}) >>

GrafanaSyntheticRules == <<
    Guarded({"grafana_synthetic_monitoring_probe"}),
    Reviewed({"grafana_synthetic_monitoring_check"}, {"plain http", "unverified tls"}) >>

GrafanaAppRules == <<
    Guarded({"grafana_assistant_mcp_server", "grafana_k6_load_test",
             "grafana_machine_learning_alert"}),
    Reviewed({"grafana_assistant_rule"}, {"privileged role"}),
    Reviewed({"grafana_k6_project"}, {"open range"}),
    Reviewed({"grafana_machine_learning_job"}, {"coverage off"}) >>

GrafanaPlatformRules == <<
    Guarded({"grafana_asserts_suppressed_assertions_config", "grafana_cloud_stack",
             "grafana_cloud_plugin_installation"}),
    Reviewed({"grafana_asserts_thresholds", "grafana_message_template"}, {}),
    Reviewed({"grafana_apps_productactivation_dbo11yconfig_v1alpha1"},
             {"privileged role", "public"}) >>

GrafanaRules ==
    GrafanaCredentialRules \o GrafanaIdentityRules \o GrafanaAlertingRules
      \o GrafanaContentRules \o GrafanaDataRules \o GrafanaResponderRules
      \o GrafanaSyntheticRules \o GrafanaAppRules \o GrafanaPlatformRules
=============================================================================
