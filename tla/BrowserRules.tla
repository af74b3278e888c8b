---------------------------- MODULE BrowserRules ----------------------------
(***************************************************************************)
(* The rules that src/site/playground/classifier.js has of its own: the    *)
(* browser's translation of the rules for AWS and for Cloudflare           *)
(* identities.  ruleCandidates picks one function for a type.              *)
(*                                                                         *)
(* Both copies compare attributes, but not alike.  _attribute_changed of   *)
(* _shared.py compares values: what is null is what is not there, 1 is     *)
(* true, and the order of keys does not count.  attributeChanged compares  *)
(* how they are written.  What is only respelled is a change to it.        *)
(***************************************************************************)
EXTENDS RuleTables

\* The facts that are the answer of such a comparison.
Compared ==
    {"trust policy", "new deployment", "scheme", "port or protocol", "default action",
     "priority", "target type", "health check", "package type", "signing", "network",
     "execution role", "delivery semantics", "public addresses", "alarm actions",
     "event routing"}

\* Fault: deepEqual compares values, but for the health check.
SeenByBrowser_ByValue(change) ==
    change.facts \union (change.respelled \intersect {"health check"})

\* attributeChanged, and healthCheckChanged, to which any two objects differ.
SeenByBrowser(change) == change.facts \union change.respelled

JsIdentityRules == <<Guarded({"cloudflare_api_token", "cloudflare_account_member"})>>

JsDatabaseRules == <<
    Rule({"aws_db_instance", "aws_rds_cluster"}, Stateful("review", "none"),
         {Finds(Actions, {"major version"}, "dangerous")}) >>

JsBucketRules == <<
    Rule({"aws_s3_bucket", "aws_s3_bucket_policy"},
         Ladder("irreversible", "irreversible", "review", "safe"),
         {Finds(Actions, {"public acl", "public policy"}, "dangerous")}) >>

JsKeyRules == <<
    Rule({"aws_kms_key", "aws_route53_zone", "aws_eks_node_group"}, Stateful("review", "none"), {}) >>

JsIamRules == <<
    Rule({"aws_iam_role"}, Ladder("irreversible", "irreversible", "review", "none"),
         {Finds(Actions, {"trust policy", "deny removed"}, "dangerous")}),
    Rule({"aws_iam_policy"}, Ladder("irreversible", "irreversible", "review", "none"),
         {Finds(Actions, {"deny removed"}, "dangerous")}) >>

JsServiceRules == <<
    Rule({"aws_ecs_service"}, Stateful("review", "none"),
         {Finds({"update"}, {"new deployment"}, "dangerous")}) >>

JsBalancerRules == <<
    Rule({"aws_lb"}, Stateful("review", "none"), {Finds(Actions, {"scheme"}, "irreversible")}),
    Rule({"aws_lb_listener"}, Ladder("dangerous", "dangerous", "none", "none"),
         {Finds(Actions, {"port or protocol", "default action"}, "dangerous")}),
    Rule({"aws_lb_listener_rule"}, Ladder("none", "none", "review", "none"),
         {Finds(Actions, {"priority"}, "review")}),
    Rule({"aws_lb_target_group"}, Stateful("none", "none"),
         {Finds(Actions, {"target type"}, "dangerous"),
          Finds(Actions, {"health check"}, "review")}),
    Rule({"aws_lb_target_group_attachment"}, Ladder("none", "review", "none", "none"), {}) >>

\* DEPRECATED_RUNTIMES lacks what _DEPRECATED_RUNTIMES of _shared.py has gained.
JsFunctionRules == <<
    Rule({"aws_lambda_function"}, Ladder("none", "none", "none", "none"),
         {Finds({"update"}, {"package type", "deprecated runtime"}, "dangerous"),
          Finds({"update"}, {"signing", "network", "runtime major", "execution role"}, "review")}),
    Rule({"aws_lambda_alias"}, Ladder("none", "none", "none", "none"), {}) >>

JsPlatformRules == <<
    Rule({"aws_ecr_repository"}, Stateful("review", "none"), {}),
    Rule({"aws_ecr_repository_policy", "aws_sqs_queue_policy"}, PolicyLadder, {PublicPolicy}),
    Rule({"aws_ecr_lifecycle_policy"}, Ladder("review", "review", "review", "review"), {}),
    Rule({"aws_sqs_queue"}, Stateful("review", "none"),
         {Finds(Actions, {"delivery semantics"}, "review")}),
    Rule({"aws_glue_catalog_table"}, Ladder("dangerous", "dangerous", "review", "none"), {}),
    Rule({"aws_glue_job"}, Stateful("review", "none"),
         {Finds(Actions, {"execution role"}, "review")}) >>

\* Fault: the browser forgets what an open group means while it is replaced or read.
JsGroupRules_Written == <<
    Rule({"aws_security_group", "aws_security_group_rule"},
         Ladder("dangerous", "dangerous", "review", "review"),
         {Finds({"create"}, {"open to the internet"}, "dangerous")}) >>

JsGroupRules == <<
    Rule({"aws_security_group", "aws_security_group_rule"},
         Ladder("dangerous", "dangerous", "review", "review"),
         {Finds(Actions, {"open to the internet"}, "dangerous")}) >>

JsTopologyRules == <<
    Rule({"aws_subnet"}, Ladder("dangerous", "dangerous", "review", "none"),
         {Finds(Actions, {"public addresses"}, "dangerous")}),
    Rule({"aws_route_table"}, Ladder("dangerous", "dangerous", "review", "none"), {}),
    Rule({"aws_route"}, Ladder("dangerous", "dangerous", "review", "none"),
         {Finds(Actions, {"open to the internet"}, "dangerous")}),
    Rule({"aws_nat_gateway", "aws_internet_gateway"},
         Ladder("dangerous", "dangerous", "review", "review"), {}) >>

JsObservabilityRules == <<
    Rule({"aws_cloudwatch_metric_alarm"}, Ladder("dangerous", "dangerous", "review", "none"),
         {Finds(Actions, {"alarm actions"}, "review")}),
    Rule({"aws_cloudwatch_event_rule"}, Ladder("dangerous", "dangerous", "review", "none"),
         {Finds(Actions, {"event routing"}, "review")}),
    Rule({"aws_cloudwatch_log_group"}, Ladder("irreversible", "irreversible", "review", "none"),
         {Finds(Actions, {"shorter retention"}, "dangerous")}) >>

\* The dispatch of ruleCandidates.
BrowserRuleTable ==
    JsIdentityRules \o JsDatabaseRules \o JsBucketRules \o JsKeyRules \o JsIamRules
      \o JsServiceRules \o JsBalancerRules \o JsFunctionRules \o JsPlatformRules
      \o JsGroupRules \o JsTopologyRules \o JsObservabilityRules
=============================================================================
