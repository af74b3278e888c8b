--------------------------- MODULE MCRuleApproval ---------------------------
(* Instances of RuleApproval for TLC. *)
EXTENDS RuleApproval, TLC

CONSTANTS p1, p2, r1, r2

\* Two patterns with rule ids of their own.
DistinctIds == (p1 :> r1 @@ p2 :> r2)

\* Two resource types, such as AWS::KMS::Key and aws_kms_key, that
\* _sanitize_for_codegen maps to one rule id.
SharedId == (p1 :> r1 @@ p2 :> r1)
=============================================================================
