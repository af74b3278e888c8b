---------------------------- MODULE ToolAdapters ----------------------------
(***************************************************************************)
(* How the adapters of other planning tools put an operation into the      *)
(* actions, the risk and the attributes that the Terraform rules work on:  *)
(* CloudFormation change sets and template diffs, Pulumi previews and      *)
(* Azure what-if results.                                                  *)
(*                                                                         *)
(* Names of types are translated by a map; what is not in it gets a name   *)
(* made of its own, which a rule may know by chance.  Of the attributes a  *)
(* rule sees what the tool reports where the rule looks for it.            *)
(***************************************************************************)
EXTENDS CloudRules

\* What an adapter's normalize_change makes of an operation.
Means(action, risk) == [action |-> action, risk |-> risk]

-----------------------------------------------------------------------------
\* CloudFormation: the action of a resource change, where a "Replace" is a
\* Modify whose replacement is certain.
CloudFormationOperations ==
    {"Add", "Modify", "Conditional", "Replace", "Remove", "Import", "Dynamic"}

CloudFormationMeans(op) ==
    CASE op = "Add" -> Means("create", "safe")
      [] op = "Replace" -> Means("replace", "dangerous")
      [] op \in {"Modify", "Conditional", "Import"} -> Means("update", "review")
      [] op = "Remove" -> Means("delete", "irreversible")
      [] OTHER -> Means("unknown", "review")

CloudFormationTypes ==
    {"aws_db_instance", "aws_rds_cluster", "aws_s3_bucket", "aws_kms_key", "aws_iam_role",
     "aws_iam_policy", "aws_route53_zone", "aws_eks_node_group", "aws_lb", "aws_lb_listener",
     "aws_lb_listener_rule", "aws_lb_target_group", "aws_lambda_function",
     "aws_lambda_alias", "aws_ecr_repository", "aws_sqs_queue", "aws_glue_catalog_table",
     "aws_glue_job", "aws_subnet", "aws_route_table", "aws_route", "aws_nat_gateway",
     "aws_internet_gateway", "aws_cloudwatch_metric_alarm", "aws_cloudwatch_event_rule",
     "aws_cloudwatch_log_group", "aws_security_group", "aws_security_group_rule",
     "aws_ecr_repository_policy", "aws_ecr_lifecycle_policy", "aws_sqs_queue_policy",
     "aws_ecs_service", "aws_lb_target_group_attachment"}

\* A change set has no properties.  A template diff hands over its own, which
\* are named in CamelCase, where the rules read snake_case.
CloudFormationSees(type, facts) == {}

\* The operations a diff of two templates finds; a change of the type of a
\* logical id, which replaces the resource, is among the last.
TemplateDiffOperation(old, new) ==
    IF old = "absent" THEN "Add" ELSE IF new = "absent" THEN "Remove" ELSE "Conditional"

-----------------------------------------------------------------------------
\* Pulumi: the operation of a preview step.
PulumiReplacementOps ==
    {"create-replacement", "delete-replaced", "discard-replaced", "import-replacement",
     "read-replacement", "remove-pending-replace", "replace"}
PulumiSafeOps == {"read", "refresh", "same"}
PulumiReviewOps == {"diff", "discard", "import"}
PulumiOperations ==
    {"create", "update", "delete", "unknown"}
      \union PulumiReplacementOps \union PulumiSafeOps \union PulumiReviewOps

\* Fault: only the step that is called a replacement is taken for one.
PulumiMeans_ReplaceOnly(op) ==
    CASE op = "create" -> Means("create", "safe")
      [] op \in PulumiReviewOps \union {"update"} -> Means("update", "review")
      [] op = "delete" -> Means("delete", "irreversible")
      [] op = "replace" -> Means("replace", "dangerous")
      [] op \in PulumiSafeOps -> Means("read", "safe")
      [] OTHER -> Means("unknown", "review")

\* The no-op of a step that stays the same is to the rules what a read is.
PulumiMeans(op) ==
    CASE op = "create" -> Means("create", "safe")
      [] op \in PulumiReviewOps \union {"update"} -> Means("update", "review")
      [] op = "delete" -> Means("delete", "irreversible")
      [] op \in PulumiReplacementOps -> Means("replace", "dangerous")
      [] op \in PulumiSafeOps -> Means("read", "safe")
      [] OTHER -> Means("unknown", "review")

\* Types that are not in the map, but whose token is what Terraform calls them.
PulumiTokens ==
    {"aws_subnet", "aws_route_table", "aws_route", "aws_nat_gateway", "aws_internet_gateway",
     "azurerm_role_assignment", "azurerm_network_security_group"}

PulumiTypes ==
    PulumiTokens \union
    {"aws_cloudwatch_log_group", "aws_security_group", "aws_security_group_rule",
     "aws_ecs_service", "aws_iam_policy", "aws_iam_role", "aws_kms_key",
     "aws_lambda_function", "aws_rds_cluster", "aws_db_instance", "aws_s3_bucket",
     "azurerm_storage_account", "google_storage_bucket"}

\* The inputs before and after, all in snake_case and at the top.
PulumiSees(type, facts) == IF type \in ReadUnderProperties THEN {} ELSE facts

-----------------------------------------------------------------------------
\* Azure: the change type of a what-if result, and whether it is only potential.
AzureOperations ==
    {"create", "modify", "delete", "ignore", "nochange", "deploy", "unsupported"}

\* Fault: what is only potential keeps its risk.
AzureRisk_Certain(risk, potential) == risk

AzureRisk(risk, potential) == IF potential /\ risk = "safe" THEN "review" ELSE risk

AzureMeans(op, potential) ==
    LET certain ==
          CASE op = "create" -> Means("create", "safe")
            [] op \in {"modify", "deploy"} -> Means("update", "review")
            [] op = "delete" -> Means("delete", "irreversible")
            [] op \in {"ignore", "nochange"} -> Means("read", "safe")
            [] OTHER -> Means("unknown", "review")
    IN [certain EXCEPT !.risk = AzureRisk(@, potential)]

AzureTypes ==
    {"azurerm_role_assignment", "azurerm_virtual_machine", "azurerm_kubernetes_cluster",
     "azurerm_network_security_group", "azurerm_network_security_rule",
     "azurerm_storage_account"}

\* A resource that is only said to deploy comes without its properties.
WithPayload(op) == op # "deploy"

\* Fault: what the rule for machines reads is left where the resource manager has it.
AzureSees_Unlifted(op, type, facts) ==
    IF WithPayload(op) /\ type \in ReadUnderProperties THEN facts ELSE {}

\* The resource before and after, all in snake_case and else as the resource manager has
\* it, which is where the rules for Azure look; what the rule for machines compares is
\* lifted by _rule_metadata.
AzureSees(op, type, facts) == IF WithPayload(op) THEN facts ELSE {}
=============================================================================
