------------------------------ MODULE AwsRules ------------------------------
(***************************************************************************)
(* The AWS rules of src/readtheplan/rules/aws.py, one row for each type    *)
(* test.  The last group is registered as cross-cutting: it has no entry   *)
(* in the registry of types.                                               *)
(***************************************************************************)
EXTENDS RuleTables

StorageRules == <<
    Rule({"aws_db_instance", "aws_rds_cluster"}, Stateful("review", "none"),
         {Finds(Actions, {"major version"}, "dangerous")}),
    Rule({"aws_s3_bucket", "aws_s3_bucket_policy"},
         Ladder("irreversible", "irreversible", "review", "safe"),
         {Finds(Actions, {"public acl", "public policy"}, "dangerous")}) >>

IdentityRules == <<
    Rule({"aws_kms_key"}, Stateful("review", "none"), {}),
    Rule({"aws_iam_role"}, Ladder("irreversible", "irreversible", "review", "none"),
         {Finds(Actions, {"trust policy", "deny removed"}, "dangerous")}),
    Rule({"aws_iam_policy"}, Ladder("irreversible", "irreversible", "review", "none"),
         {Finds(Actions, {"deny removed"}, "dangerous")}),
    Rule({"aws_route53_zone"}, Stateful("review", "none"), {}) >>

ComputeRules == <<
    Rule({"aws_eks_node_group"}, Stateful("review", "none"), {}),
    Rule({"aws_ecs_service"}, Stateful("review", "none"),
         {Finds({"update"}, {"new deployment"}, "dangerous")}) >>

\* Fault: the scheme only matters while the balancer is updated in place.
LoadBalancerRules_InPlace == <<
    Rule({"aws_lb"}, Stateful("review", "none"),
         {Finds({"update"}, {"scheme"}, "irreversible")}) >>

LoadBalancerRules == <<
    Rule({"aws_lb"}, Stateful("review", "none"), {Finds(Actions, {"scheme"}, "irreversible")}),
    Rule({"aws_lb_listener"}, Ladder("dangerous", "dangerous", "none", "none"),
         {Finds(Actions, {"port or protocol", "default action"}, "dangerous")}),
    Rule({"aws_lb_listener_rule"}, Ladder("none", "none", "review", "none"),
         {Finds(Actions, {"priority"}, "review")}),
    Rule({"aws_lb_target_group"}, Stateful("none", "none"),
         {Finds(Actions, {"target type"}, "dangerous"),
          Finds(Actions, {"health check"}, "review")}),
    Rule({"aws_lb_target_group_attachment"}, Ladder("none", "review", "none", "none"), {}) >>

\* An alias or an event source is registered, and then passed over.
FunctionRules == <<
    Rule({"aws_lambda_function"}, Ladder("none", "none", "none", "none"),
         {Finds({"update"}, {"package type", "deprecated runtime", "newly deprecated runtime"},
                "dangerous"),
          Finds({"update"}, {"signing", "network", "runtime major", "execution role"}, "review")}),
    Rule({"aws_lambda_alias"}, Ladder("none", "none", "none", "none"), {}) >>

SecurityGroupRules == <<
    Rule({"aws_security_group", "aws_security_group_rule"},
         Ladder("dangerous", "dangerous", "review", "review"),
         {Finds(Actions, {"open to the internet"}, "dangerous")}) >>

ContainerAndQueueRules == <<
    Rule({"aws_ecr_repository"}, Stateful("review", "none"), {}),
    Rule({"aws_ecr_repository_policy", "aws_sqs_queue_policy"}, PolicyLadder, {PublicPolicy}),
    Rule({"aws_ecr_lifecycle_policy"}, Ladder("review", "review", "review", "review"), {}),
    Rule({"aws_sqs_queue"}, Stateful("review", "none"),
         {Finds(Actions, {"delivery semantics"}, "review")}) >>

GlueRules == <<
    Rule({"aws_glue_catalog_table"}, Ladder("dangerous", "dangerous", "review", "none"), {}),
    Rule({"aws_glue_job"}, Stateful("review", "none"),
         {Finds(Actions, {"execution role"}, "review")}) >>

RoutingRules == <<
    Rule({"aws_subnet"}, Ladder("dangerous", "dangerous", "review", "none"),
         {Finds(Actions, {"public addresses"}, "dangerous")}),
    Rule({"aws_route_table"}, Ladder("dangerous", "dangerous", "review", "none"), {}),
    Rule({"aws_route"}, Ladder("dangerous", "dangerous", "review", "none"),
         {Finds(Actions, {"open to the internet"}, "dangerous")}) >>

GatewayRules == <<
    Rule({"aws_nat_gateway", "aws_internet_gateway"},
         Ladder("dangerous", "dangerous", "review", "review"), {}) >>

ObservabilityRules == <<
    Rule({"aws_cloudwatch_metric_alarm"}, Ladder("dangerous", "dangerous", "review", "none"),
         {Finds(Actions, {"alarm actions"}, "review")}),
    Rule({"aws_cloudwatch_event_rule"}, Ladder("dangerous", "dangerous", "review", "none"),
         {Finds(Actions, {"event routing"}, "review")}),
    Rule({"aws_cloudwatch_log_group"}, Ladder("irreversible", "irreversible", "review", "none"),
         {Finds(Actions, {"shorter retention"}, "dangerous")}) >>

AwsRegistered ==
    StorageRules \o IdentityRules \o ComputeRules \o LoadBalancerRules \o FunctionRules
      \o SecurityGroupRules

AwsCrossCutting ==
    ContainerAndQueueRules \o GlueRules \o RoutingRules \o GatewayRules \o ObservabilityRules
=============================================================================
