----------------------------- MODULE SaasRules -----------------------------
(***************************************************************************)
(* The rules for hosted services in src/readtheplan/rules: cloudflare.py,  *)
(* datadog.py, newrelic.py, pagerduty.py, tfe.py and vault.py.             *)
(***************************************************************************)
EXTENDS RuleTables

\* A link or a view, whose delete loses nothing but itself.
Link(types, write, finds) == Rule(types, Ladder("dangerous", "dangerous", write, write), finds)

(***************************************************************************)
(* Cloudflare                                                              *)
(***************************************************************************)
CloudflareDnsRules == <<
    Reviewed({"cloudflare_zone"}, {"paused", "zone type"}),
    Reviewed({"cloudflare_dns_record"}, {"delegation record", "unproxied", "wildcard"}),
    Guarded({"cloudflare_zone_dnssec"}) >>

CloudflareEdgeRules == <<
    Guarded({"cloudflare_ruleset", "cloudflare_workers_script"}),
    Reviewed({"cloudflare_zone_setting"}, {"protection off"}) >>

CloudflareAccessRules == <<
    Guarded({"cloudflare_workers_route", "cloudflare_access_policy", "cloudflare_tunnel"}),
    Rule({"cloudflare_r2_bucket"}, Stateful("dangerous", "review"), {}) >>

CloudflareServiceRules == <<
    Guarded({"cloudflare_load_balancer", "cloudflare_custom_ssl", "cloudflare_api_token",
             "cloudflare_account_member", "cloudflare_pages_project"}),
    Reviewed({"cloudflare_logpush_job"}, {"coverage off", "destination"}) >>

CloudflareRules ==
    CloudflareDnsRules \o CloudflareEdgeRules \o CloudflareAccessRules \o CloudflareServiceRules

(***************************************************************************)
(* Datadog                                                                 *)
(***************************************************************************)
DatadogAccessRules == <<
    Guarded({"datadog_api_key", "datadog_role"}),
    Reviewed({"datadog_user"}, {"admin role", "open range"}) >>

DatadogSecurityRules == <<
    Guarded({"datadog_security_monitoring_suppression", "datadog_security_monitoring_filter"}),
    Reviewed({"datadog_security_monitoring_rule"}, {"coverage off", "muted"}),
    Reviewed({"datadog_sensitive_data_scanner_rule"}, {"coverage off", "muted", "saved match"}) >>

DatadogIntegrationRules == <<
    Guarded({"datadog_integration_aws_account"}),
    Reviewed({"datadog_integration_pagerduty"}, {"unverified tls", "open range"}),
    Reviewed({"datadog_webhook"}, {"unverified tls", "open range", "no authentication"}) >>

DatadogTelemetryRules == <<
    Guarded({"datadog_logs_archive"}),
    Reviewed({"datadog_logs_index"}, {"shorter retention", "coverage off"}),
    Reviewed({"datadog_logs_restriction_query"},
             {"shorter retention", "coverage off", "open range"}) >>

DatadogMonitoringRules == <<
    Guarded({"datadog_downtime"}),
    Reviewed({"datadog_monitor"}, {"coverage off", "muted"}) >>

DatadogResponseRules == <<
    Guarded({"datadog_workflow_automation", "datadog_app_builder_app"}),
    Reviewed({"datadog_on_call_schedule"}, {"coverage off", "open range"}),
    Reviewed({"datadog_dataset"}, {"public"}) >>

DatadogRules ==
    DatadogAccessRules \o DatadogSecurityRules \o DatadogIntegrationRules
      \o DatadogTelemetryRules \o DatadogMonitoringRules \o DatadogResponseRules

(***************************************************************************)
(* New Relic                                                               *)
(***************************************************************************)
NewRelicClasses ==
    [identity |-> {"newrelic_user", "newrelic_account_management"},
     credential |-> {"newrelic_api_access_key"},
     alert |-> {"newrelic_alert_policy"},
     notification |-> {"newrelic_workflow"},
     synthetics |-> {"newrelic_synthetics_script_monitor"},
     cloud |-> {"newrelic_cloud_aws_link_account"},
     pipeline |-> {"newrelic_nrql_drop_rule"},
     fleet |-> {"newrelic_fleet"},
     model |-> {"newrelic_service_level"}]

\* _ASSOCIATION_OR_PRESENTATION_RESOURCES, by what becomes of their writes.
NewRelicLinks == <<
    Link({"newrelic_alert_policy_channel", "newrelic_fleet_members"}, "dangerous", {}),
    Link({"newrelic_entity_tags"}, "review", {}),
    Link({"newrelic_one_dashboard"}, "review", {Finds(Writing, {"public"}, "dangerous")}) >>

NewRelicWatchRules ==
    LET C == NewRelicClasses
    IN  <<Guarded(C.identity \union C.credential \union C.alert \union C.notification
                    \union C.synthetics)>>

NewRelicPlatformRules ==
    LET C == NewRelicClasses
    IN  <<Guarded(C.cloud \union C.pipeline \union C.fleet \union C.model),
          Reviewed({"newrelic_insights_event"}, {"sensitive data"})>>

NewRelicRules == NewRelicLinks \o NewRelicWatchRules \o NewRelicPlatformRules

(***************************************************************************)
(* PagerDuty                                                               *)
(***************************************************************************)
PagerDutyClasses ==
    [identity |-> {"pagerduty_user"}, on_call |-> {"pagerduty_schedule"},
     service |-> {"pagerduty_service"}, orchestration |-> {"pagerduty_event_orchestration"},
     automation |-> {"pagerduty_automation_actions_action"},
     integration |-> {"pagerduty_webhook_subscription"},
     incident |-> {"pagerduty_maintenance_window"},
     customization |-> {"pagerduty_incident_custom_field"}]

\* _HARD_DELETE_RESOURCES leaves these out.
PagerDutyLinks == <<
    Link({"pagerduty_team_membership", "pagerduty_business_service_subscriber"}, "dangerous", {}),
    Link({"pagerduty_service_custom_field_value", "pagerduty_addon", "pagerduty_tag"}, "review", {}) >>

PagerDutyWrites ==
    LET C == PagerDutyClasses
    IN  <<Guarded(C.identity \union C.on_call \union C.service \union C.orchestration
                    \union C.automation \union C.integration \union C.incident),
          Reviewed(C.customization, {})>>

PagerDutyRules == PagerDutyLinks \o PagerDutyWrites

(***************************************************************************)
(* HCP Terraform                                                           *)
(***************************************************************************)
TfeClasses ==
    [token |-> {"tfe_team_token"}, variable |-> {"tfe_variable"},
     policy |-> {"tfe_policy_set"}, trust |-> {"tfe_oauth_client"},
     admin |-> {"tfe_hyok_configuration"}]

TfeGuarded ==
    LET C == TfeClasses
    IN  <<Guarded(C.token \union C.variable \union C.policy \union C.trust \union C.admin)>>

TfeMembershipRules == <<
    Guarded({"tfe_team_access"}),
    Reviewed({"tfe_team"}, {"admin role", "wide permissions", "enforcement off"}) >>

TfeRunRules == <<
    Guarded({"tfe_stack", "tfe_agent_pool_allowed_projects", "tfe_run_trigger",
             "tfe_workspace_run_task"}),
    Reviewed({"tfe_workspace"}, {"unattended runs", "coverage off", "local runs", "execution mode"}),
    Reviewed({"tfe_agent_pool"}, {"open range", "unattended runs"}) >>

TfeDeliveryRules == <<
    Reviewed({"tfe_registry_module"}, {"plain http", "public"}),
    Reviewed({"tfe_terraform_version"}, {"plain http", "public", "no checksum"}),
    Reviewed({"tfe_notification_configuration"}, {"plain http", "coverage off"}) >>

TfeRules == TfeGuarded \o TfeMembershipRules \o TfeRunRules \o TfeDeliveryRules

(***************************************************************************)
(* Vault                                                                   *)
(***************************************************************************)
\* The classes in the order they are asked: a name may satisfy several.
VaultClasses ==
    [secret_state |-> {"vault_token", "vault_kv_secret_v2", "vault_pki_secret_backend_cert"},
     policy |-> {"vault_policy"},
     auth |-> {"vault_jwt_auth_backend", "vault_identity_entity"},
     crypto |-> {"vault_transit_secret_backend_key"},
     engine |-> {"vault_mount", "vault_database_secret_backend_role"},
     external |-> {"vault_secrets_sync_association"},
     plugin |-> {"vault_plugin"}]

VaultDispatch ==
    LET C == VaultClasses
    IN  <<Guarded(C.secret_state \union C.policy \union C.auth \union C.crypto \union C.engine
                    \union C.external \union C.plugin)>>

VaultAuditRules == <<Reviewed({"vault_audit"}, {"raw logging", "coverage off"})>>

\* _PLATFORM_RESOURCES names vault_mount too, which is taken as an engine.
VaultPlatformRules == <<
    Guarded({"vault_namespace", "vault_rotation_policy"}),
    Reviewed({"vault_raft_autopilot"}, {"longer lease"}),
    Reviewed({"vault_sys_config_cors"}, {"open range", "longer lease"}) >>

VaultRules == VaultDispatch \o VaultAuditRules \o VaultPlatformRules
=============================================================================
