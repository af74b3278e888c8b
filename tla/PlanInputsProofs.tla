-------------------------- MODULE PlanInputsProofs ---------------------------
(***************************************************************************)
(* Proofs about PlanInputs, for every change, state, workload and list of  *)
(* manifests that a behaviour may come to, after any number of steps.      *)
(*                                                                         *)
(* The tables are looked at row by row: every rule climbs a proper ladder  *)
(* and finds proper risks, the rules of the analyzer and of the browser    *)
(* are translations of each other up to the facts only one of them knows,  *)
(* and an adapter walks what its table says.  The theorems follow from     *)
(* those facts about one rule at a time, never from the tables as a whole. *)
(***************************************************************************)
EXTENDS PlanInputs, FiniteSetTheorems, SequenceTheorems, TLAPS

-----------------------------------------------------------------------------
(* Risks and the highest of them                                           *)

LEMMA Ranks ==
    /\ \A r : Rank(r) \in {0, 1, 2, 3}
    /\ Rank("safe") = 0 /\ Rank("review") = 1 /\ Rank("dangerous") = 2
    /\ Rank("irreversible") = 3
    /\ \A r \in Risks : /\ Rank(r) = 0 <=> r = "safe"
                        /\ Rank(r) = 1 <=> r = "review"
                        /\ Rank(r) = 2 <=> r = "dangerous"
                        /\ Rank(r) = 3 <=> r = "irreversible"
BY DEF Rank, Risks

\* A set of anything has a highest element, as there are four ranks.
LEMMA HighestIs ==
    ASSUME NEW S, S # {}
    PROVE  /\ Highest(S) \in S
           /\ \A s \in S : Rank(s) <= Rank(Highest(S))
<1>1. \E r \in S : \A s \in S : Rank(s) <= Rank(r)
  <2> DEFINE Has(n) == \E r \in S : Rank(r) = n
  <2>1. Has(0) \/ Has(1) \/ Has(2) \/ Has(3)
    BY Ranks
  <2>2. CASE Has(3)
    BY <2>2, Ranks
  <2>3. CASE Has(2) /\ ~Has(3)
    BY <2>3, Ranks
  <2>4. CASE Has(1) /\ ~Has(2) /\ ~Has(3)
    BY <2>4, Ranks
  <2>5. CASE Has(0) /\ ~Has(1) /\ ~Has(2) /\ ~Has(3)
    BY <2>5, Ranks
  <2> QED BY <2>1, <2>2, <2>3, <2>4, <2>5
<1> QED BY <1>1, Zenon DEF Highest

LEMMA HighestIsThe ==
    ASSUME NEW S \in SUBSET Risks, NEW r \in S, \A s \in S : Rank(s) <= Rank(r)
    PROVE  Highest(S) = r
BY HighestIs, Ranks

\* What is dominated element by element is dominated.
LEMMA HighestGrows ==
    ASSUME NEW S, S # {}, NEW T,
           \A s \in S : \E t \in T : Rank(s) <= Rank(t)
    PROVE  Rank(Highest(S)) <= Rank(Highest(T))
<1>1. T # {}
  OBVIOUS
<1>2. PICK t \in T : Rank(Highest(S)) <= Rank(t)
  BY HighestIs
<1>3. Rank(t) <= Rank(Highest(T))
  BY <1>1, HighestIs
<1> QED BY <1>2, <1>3, Ranks

LEMMA HighestOfMore ==
    ASSUME NEW S, S # {}, NEW T, S \subseteq T
    PROVE  Rank(Highest(S)) <= Rank(Highest(T))
<1>1. \A r : Rank(r) <= Rank(r)
  BY Ranks
<1> QED BY <1>1, HighestGrows

-----------------------------------------------------------------------------
(* Ladders and rules                                                       *)

\* The rungs of a ladder, and of one that leaves applied manifests alone.
LEMMA LadderRungs ==
    ASSUME NEW replace, NEW delete, NEW update, NEW create
    PROVE  LET ladder == Ladder(replace, delete, update, create)
           IN /\ Rung(ladder, "replace") = replace
              /\ Rung(ladder, "delete") = delete
              /\ Rung(ladder, "update") = update
              /\ Rung(ladder, "create") = create
              /\ Rung(ladder, "apply") = create
              /\ \A a \in {"forget", "read", "unknown"} : Rung(ladder, a) = "none"
BY DEF Ladder, Rung

LEMMA UnappliedRungs ==
    ASSUME NEW replace, NEW delete, NEW update, NEW create
    PROVE  LET ladder == Unapplied(Ladder(replace, delete, update, create))
           IN /\ Rung(ladder, "replace") = replace
              /\ Rung(ladder, "delete") = delete
              /\ Rung(ladder, "update") = update
              /\ Rung(ladder, "create") = create
              /\ \A a \in {"apply", "forget", "read", "unknown"} : Rung(ladder, a) = "none"
<1> DEFINE l == Ladder(replace, delete, update, create)
<1>1. DOMAIN l = {"replace", "delete", "update", "create"}
  BY DEF Ladder
<1>2. Unapplied(l) = [a \in {"replace", "delete", "update", "create", "apply"} |->
                         IF a = "apply" THEN "none" ELSE l[a]]
  BY <1>1 DEF Unapplied
<1>3. l["replace"] = replace /\ l["delete"] = delete /\ l["update"] = update /\ l["create"] = create
  BY DEF Ladder
<1> DEFINE u == Unapplied(l)
<1>4. /\ DOMAIN u = {"replace", "delete", "update", "create", "apply"}
      /\ u["replace"] = replace /\ u["delete"] = delete
      /\ u["update"] = update /\ u["create"] = create /\ u["apply"] = "none"
  <2> HIDE DEF l
  <2> QED BY <1>2, <1>3
<1>5. /\ Rung(u, "replace") = replace /\ Rung(u, "delete") = delete
      /\ Rung(u, "update") = update /\ Rung(u, "create") = create
      /\ \A a \in {"apply", "forget", "read", "unknown"} : Rung(u, a) = "none"
  <2>1. \A a \in DOMAIN u : Rung(u, a) = u[a]
    <3> HIDE DEF u
    <3> QED BY DEF Rung
  <2>2. \A a : a \notin DOMAIN u /\ a # "apply" => Rung(u, a) = "none"
    <3> HIDE DEF u
    <3> QED BY DEF Rung
  <2> HIDE DEF u
  <2> QED BY <1>4, <2>1, <2>2
<1> QED BY <1>5

\* What each rung of a ladder may be: the analyzer says nothing of a change it
\* cannot read, and an update destroys nothing.
Climbable(ladder) ==
    /\ \A a \in Actions : Rung(ladder, a) \in Risks \union {"none"}
    /\ Rung(ladder, "update") # "irreversible"
    /\ Rung(ladder, "unknown") = "none"

Rungs == Risks \union {"none"}

LEMMA LaddersAreClimbable ==
    ASSUME NEW replace \in Rungs, NEW delete \in Rungs,
           NEW update \in Rungs \ {"irreversible"}, NEW create \in Rungs
    PROVE  /\ Climbable(Ladder(replace, delete, update, create))
           /\ Climbable(Unapplied(Ladder(replace, delete, update, create)))
<1>1. \A a \in Actions : a \in {"replace", "delete", "update", "create", "apply"}
                                 \union {"forget", "read", "unknown"}
  BY DEF Actions
<1>2. Climbable(Ladder(replace, delete, update, create))
  BY <1>1, LadderRungs DEF Climbable, Rungs
<1>3. Climbable(Unapplied(Ladder(replace, delete, update, create)))
  BY <1>1, UnappliedRungs DEF Climbable, Rungs
<1> QED BY <1>2, <1>3

-----------------------------------------------------------------------------
(* Tables of rules                                                         *)

Rows(table) == {table[k] : k \in DOMAIN table}
IsTable(table) == table \in Seq(Rows(table))

LEMMA JoinedTables ==
    ASSUME NEW s, IsTable(s), NEW t, IsTable(t)
    PROVE  IsTable(s \o t) /\ Rows(s \o t) = Rows(s) \union Rows(t)
<1> DEFINE B == Rows(s) \union Rows(t)
<1>1. s \in Seq(B) /\ t \in Seq(B)
  BY DEF IsTable
<1>2. /\ DOMAIN s = 1..Len(s) /\ DOMAIN t = 1..Len(t) /\ Len(s) \in Nat /\ Len(t) \in Nat
      /\ DOMAIN (s \o t) = 1..(Len(s) + Len(t))
  BY <1>1
<1>3. \A k \in DOMAIN (s \o t) :
          (s \o t)[k] = IF k <= Len(s) THEN s[k] ELSE t[k - Len(s)]
  BY <1>1
<1>4. \A k \in DOMAIN s : k \in DOMAIN (s \o t) /\ (s \o t)[k] = s[k]
  BY <1>2, <1>3
<1>5. \A k \in DOMAIN t :
          k + Len(s) \in DOMAIN (s \o t) /\ (s \o t)[k + Len(s)] = t[k]
  BY <1>2, <1>3
<1>6. \A k \in DOMAIN (s \o t) : (s \o t)[k] \in B
  <2> TAKE k \in DOMAIN (s \o t)
  <2>1. CASE k <= Len(s)
    BY <2>1, <1>2, <1>3 DEF Rows
  <2>2. CASE ~(k <= Len(s))
    <3>1. k - Len(s) \in DOMAIN t
      BY <2>2, <1>2
    <3> QED BY <3>1, <2>2, <1>3 DEF Rows
  <2> QED BY <2>1, <2>2
<1>7. Rows(s \o t) = B
  <2>1. Rows(s \o t) \subseteq B
    BY <1>6 DEF Rows
  <2>2. Rows(s) \subseteq Rows(s \o t)
    BY <1>4, Zenon DEF Rows
  <2>3. Rows(t) \subseteq Rows(s \o t)
    BY <1>5, Zenon DEF Rows
  <2> QED BY <2>1, <2>2, <2>3
<1> QED BY <1>1, <1>7 DEF IsTable

LEMMA OneRow ==
    ASSUME NEW a
    PROVE  IsTable(<<a>>) /\ Rows(<<a>>) = {a}
BY DEF IsTable, Rows

LEMMA TwoRows ==
    ASSUME NEW a, NEW b
    PROVE  IsTable(<<a, b>>) /\ Rows(<<a, b>>) = {a, b}
BY DEF IsTable, Rows

LEMMA ThreeRows ==
    ASSUME NEW a, NEW b, NEW c
    PROVE  IsTable(<<a, b, c>>) /\ Rows(<<a, b, c>>) = {a, b, c}
BY DEF IsTable, Rows

LEMMA FourRows ==
    ASSUME NEW a, NEW b, NEW c, NEW d
    PROVE  IsTable(<<a, b, c, d>>) /\ Rows(<<a, b, c, d>>) = {a, b, c, d}
BY DEF IsTable, Rows

LEMMA FiveRows ==
    ASSUME NEW a, NEW b, NEW c, NEW d, NEW e
    PROVE  IsTable(<<a, b, c, d, e>>) /\ Rows(<<a, b, c, d, e>>) = {a, b, c, d, e}
BY DEF IsTable, Rows

LEMMA SixRows ==
    ASSUME NEW a, NEW b, NEW c, NEW d, NEW e, NEW f
    PROVE  IsTable(<<a, b, c, d, e, f>>) /\ Rows(<<a, b, c, d, e, f>>) = {a, b, c, d, e, f}
BY DEF IsTable, Rows

LEMMA TypesOfRows ==
    ASSUME NEW table, NEW t
    PROVE  t \in TypesOf(table) <=> \E r \in Rows(table) : t \in r.types
BY DEF TypesOf, Rows

PythonTable == Registered \o CrossCutting

\* Types that no rule names, a kind of object that no map names among them.
RuleLess == {"aws_dynamodb_table", "custom"}

LEMMA RuleLessAre == BaselineOnly \subseteq RuleLess /\ Custom \in RuleLess
BY DEF BaselineOnly, RuleLess, Custom

\* What every rule of either table is: it climbs a proper ladder, and what it
\* finds irreversible it finds whatever the action.
ProperFind(f) == f.risk \in Risks /\ (f.risk = "irreversible" => f.on = Actions)
Proper(r) == Climbable(r.ladder) /\ \A f \in r.finds : ProperFind(f)

HarmlessFind(f) == f.risk # "irreversible"
Harmless(r) == \A f \in r.finds : HarmlessFind(f)

\* Nothing is found where something is missing.
PresentFind(f) == f.facts \intersect AbsenceFacts = {}
Unmissed(r) == \A f \in r.finds : PresentFind(f)

\* A rule and its translation, which differ in what the browser does not know.
Mirrors(r, b) ==
    /\ r.ladder = b.ladder
    /\ \A f \in r.finds : \E g \in b.finds :
          f.on = g.on /\ f.risk = g.risk /\ f.facts \subseteq g.facts \union BrowserBlind
    /\ \A g \in b.finds : \E f \in r.finds :
          f.on = g.on /\ f.risk = g.risk /\ g.facts \subseteq f.facts

\* A rule of the analyzer for types that the browser has no rules for, and one
\* whose translation the browser has.
Sound(r) ==
    /\ Proper(r) /\ r.types \intersect RuleLess = {}
    /\ \A t \in r.types :
          \/ t \notin AuditedTypes /\ Harmless(r)
          \/ /\ Unmissed(r)
             /\ \E b \in Rows(BrowserRuleTable) : t \in b.types /\ Mirrors(r, b)
SoundTable(table) == IsTable(table) /\ \A r \in Rows(table) : Sound(r)

LEMMA JoinedSoundTables ==
    ASSUME NEW s, SoundTable(s), NEW t, SoundTable(t)
    PROVE  SoundTable(s \o t)
BY JoinedTables DEF SoundTable

LEMMA OneSound ==
    ASSUME NEW a, Sound(a)
    PROVE  SoundTable(<<a>>)
BY OneRow DEF SoundTable

LEMMA TwoSound ==
    ASSUME NEW a, Sound(a), NEW b, Sound(b)
    PROVE  SoundTable(<<a, b>>)
BY TwoRows DEF SoundTable

LEMMA ThreeSound ==
    ASSUME NEW a, Sound(a), NEW b, Sound(b), NEW c, Sound(c)
    PROVE  SoundTable(<<a, b, c>>)
BY ThreeRows DEF SoundTable

LEMMA FourSound ==
    ASSUME NEW a, Sound(a), NEW b, Sound(b), NEW c, Sound(c), NEW d, Sound(d)
    PROVE  SoundTable(<<a, b, c, d>>)
BY FourRows DEF SoundTable

-----------------------------------------------------------------------------
(* The browser's rules                                                     *)

BrowserSound(b) == Proper(b) /\ Unmissed(b)
BrowserTable(table) ==
    IsTable(table) /\ \A b \in Rows(table) : BrowserSound(b)

LEMMA JoinedBrowserTables ==
    ASSUME NEW s, BrowserTable(s), NEW t, BrowserTable(t)
    PROVE  BrowserTable(s \o t)
BY JoinedTables DEF BrowserTable

\* A rule is what its ladder and each of its findings is.
GoodFind(f) == ProperFind(f) /\ PresentFind(f)

LEMMA AnyFind ==
    ASSUME NEW on, NEW facts, NEW risk \in Risks, risk = "irreversible" => on = Actions,
           facts \intersect AbsenceFacts = {}
    PROVE  GoodFind(Finds(on, facts, risk))
BY DEF GoodFind, ProperFind, PresentFind, Finds

LEMMA AnyRule ==
    ASSUME NEW types, NEW ladder, Climbable(ladder), NEW finds, \A f \in finds : GoodFind(f)
    PROVE  BrowserSound(Rule(types, ladder, finds))
BY DEF BrowserSound, Proper, Unmissed, GoodFind, Rule

LEMMA PlainRule ==
    ASSUME NEW types, NEW ladder, Climbable(ladder)
    PROVE  BrowserSound(Rule(types, ladder, {})) /\ Harmless(Rule(types, ladder, {}))
<1>1. BrowserSound(Rule(types, ladder, {}))
  BY AnyRule
<1>2. Harmless(Rule(types, ladder, {}))
  BY DEF Harmless, Rule
<1> QED BY <1>1, <1>2

LEMMA FindingRule ==
    ASSUME NEW types, NEW ladder, Climbable(ladder),
           NEW on, NEW facts, NEW risk \in Risks, risk = "irreversible" => on = Actions,
           facts \intersect AbsenceFacts = {}
    PROVE  BrowserSound(Rule(types, ladder, {Finds(on, facts, risk)}))
BY AnyRule, AnyFind

LEMMA AllRungs == /\ "none" \in Rungs /\ "safe" \in Rungs /\ "review" \in Rungs
                  /\ "dangerous" \in Rungs /\ "irreversible" \in Rungs
BY DEF Rungs, Risks

LEMMA StatefulIsClimbable ==
    ASSUME NEW update \in Rungs \ {"irreversible"}, NEW create \in Rungs
    PROVE  Climbable(Stateful(update, create))
BY LaddersAreClimbable, AllRungs DEF Stateful

LEMMA OneOfBrowser ==
    ASSUME NEW a, BrowserSound(a)
    PROVE  BrowserTable(<<a>>)
BY OneRow DEF BrowserTable

LEMMA TwoOfBrowser ==
    ASSUME NEW a, BrowserSound(a), NEW b, BrowserSound(b)
    PROVE  BrowserTable(<<a, b>>)
BY TwoRows DEF BrowserTable

LEMMA ThreeOfBrowser ==
    ASSUME NEW a, BrowserSound(a), NEW b, BrowserSound(b), NEW c, BrowserSound(c)
    PROVE  BrowserTable(<<a, b, c>>)
BY ThreeRows DEF BrowserTable

LEMMA FourOfBrowser ==
    ASSUME NEW a, BrowserSound(a), NEW b, BrowserSound(b), NEW c, BrowserSound(c), NEW d,
           BrowserSound(d)
    PROVE  BrowserTable(<<a, b, c, d>>)
BY FourRows DEF BrowserTable

LEMMA FiveOfBrowser ==
    ASSUME NEW a, BrowserSound(a), NEW b, BrowserSound(b), NEW c, BrowserSound(c), NEW d,
           BrowserSound(d), NEW e, BrowserSound(e)
    PROVE  BrowserTable(<<a, b, c, d, e>>)
BY FiveRows DEF BrowserTable

LEMMA SixOfBrowser ==
    ASSUME NEW a, BrowserSound(a), NEW b, BrowserSound(b), NEW c, BrowserSound(c), NEW d,
           BrowserSound(d), NEW e, BrowserSound(e), NEW f, BrowserSound(f)
    PROVE  BrowserTable(<<a, b, c, d, e, f>>)
BY SixRows DEF BrowserTable

LEMMA GuardedIs ==
    ASSUME NEW types
    PROVE  Guarded(types).types = types /\ BrowserSound(Guarded(types)) /\ Harmless(Guarded(types))
<1>1. Climbable(Stateful("dangerous", "dangerous"))
  BY StatefulIsClimbable, AllRungs
<1> QED BY <1>1, PlainRule DEF Guarded, Rule

LEMMA BrowserTables == BrowserTable(BrowserRuleTable)
<1>1. BrowserTable(JsIdentityRules)
  BY OneOfBrowser, GuardedIs DEF JsIdentityRules
<1>2. BrowserTable(JsDatabaseRules)
  BY OneOfBrowser, PlainRule, FindingRule, StatefulIsClimbable, LaddersAreClimbable, AllRungs
  DEF JsDatabaseRules, AbsenceFacts, Risks
<1>3. BrowserTable(JsBucketRules)
  BY OneOfBrowser, PlainRule, FindingRule, StatefulIsClimbable, LaddersAreClimbable, AllRungs
  DEF JsBucketRules, AbsenceFacts, Risks
<1>4. BrowserTable(JsKeyRules)
  BY OneOfBrowser, PlainRule, FindingRule, StatefulIsClimbable, LaddersAreClimbable, AllRungs
  DEF JsKeyRules, AbsenceFacts, Risks
<1>5. BrowserTable(JsIamRules)
  BY TwoOfBrowser, PlainRule, FindingRule, StatefulIsClimbable, LaddersAreClimbable, AllRungs
  DEF JsIamRules, AbsenceFacts, Risks
<1>6. BrowserTable(JsServiceRules)
  BY OneOfBrowser, PlainRule, FindingRule, StatefulIsClimbable, LaddersAreClimbable, AllRungs
  DEF JsServiceRules, AbsenceFacts, Risks
<1>7. BrowserTable(JsBalancerRules)
  <2>1. BrowserSound(JsBalancerRules[1])
    BY PlainRule, FindingRule, StatefulIsClimbable, LaddersAreClimbable, AllRungs
    DEF JsBalancerRules, AbsenceFacts, Risks
  <2>2. BrowserSound(JsBalancerRules[2])
    BY PlainRule, FindingRule, StatefulIsClimbable, LaddersAreClimbable, AllRungs
    DEF JsBalancerRules, AbsenceFacts, Risks
  <2>3. BrowserSound(JsBalancerRules[3])
    BY PlainRule, FindingRule, StatefulIsClimbable, LaddersAreClimbable, AllRungs
    DEF JsBalancerRules, AbsenceFacts, Risks
  <2>4. BrowserSound(JsBalancerRules[4])
    <3>1. GoodFind(Finds(Actions, {"target type"}, "dangerous"))
      BY AnyFind DEF Risks, AbsenceFacts
    <3>2. GoodFind(Finds(Actions, {"health check"}, "review"))
      BY AnyFind DEF Risks, AbsenceFacts
    <3> QED
      BY <3>1, <3>2, AnyRule, StatefulIsClimbable, LaddersAreClimbable, AllRungs
         DEF JsBalancerRules
  <2>5. BrowserSound(JsBalancerRules[5])
    BY PlainRule, FindingRule, StatefulIsClimbable, LaddersAreClimbable, AllRungs
    DEF JsBalancerRules, AbsenceFacts, Risks
  <2> QED BY <2>1, <2>2, <2>3, <2>4, <2>5, FiveOfBrowser DEF JsBalancerRules
<1>8. BrowserTable(JsFunctionRules)
  <2>1. BrowserSound(JsFunctionRules[1])
    <3>1. GoodFind(Finds({"update"}, {"package type", "deprecated runtime"}, "dangerous"))
      BY AnyFind DEF Risks, AbsenceFacts
    <3>2. GoodFind(Finds({"update"}, {"signing", "network", "runtime major", "execution role"}, "review"))
      BY AnyFind DEF Risks, AbsenceFacts
    <3> QED
      BY <3>1, <3>2, AnyRule, StatefulIsClimbable, LaddersAreClimbable, AllRungs
         DEF JsFunctionRules
  <2>2. BrowserSound(JsFunctionRules[2])
    BY PlainRule, FindingRule, StatefulIsClimbable, LaddersAreClimbable, AllRungs
    DEF JsFunctionRules, AbsenceFacts, Risks
  <2> QED BY <2>1, <2>2, TwoOfBrowser DEF JsFunctionRules
<1>9. BrowserTable(JsPlatformRules)
  <2>1. BrowserSound(JsPlatformRules[1])
    BY PlainRule, FindingRule, StatefulIsClimbable, LaddersAreClimbable, AllRungs
    DEF JsPlatformRules, AbsenceFacts, Risks
  <2>2. BrowserSound(JsPlatformRules[2])
    BY PlainRule, FindingRule, StatefulIsClimbable, LaddersAreClimbable, AllRungs
    DEF JsPlatformRules, PolicyLadder, PublicPolicy, AbsenceFacts, Risks
  <2>3. BrowserSound(JsPlatformRules[3])
    BY PlainRule, FindingRule, StatefulIsClimbable, LaddersAreClimbable, AllRungs
    DEF JsPlatformRules, AbsenceFacts, Risks
  <2>4. BrowserSound(JsPlatformRules[4])
    BY PlainRule, FindingRule, StatefulIsClimbable, LaddersAreClimbable, AllRungs
    DEF JsPlatformRules, AbsenceFacts, Risks
  <2>5. BrowserSound(JsPlatformRules[5])
    BY PlainRule, FindingRule, StatefulIsClimbable, LaddersAreClimbable, AllRungs
    DEF JsPlatformRules, AbsenceFacts, Risks
  <2>6. BrowserSound(JsPlatformRules[6])
    BY PlainRule, FindingRule, StatefulIsClimbable, LaddersAreClimbable, AllRungs
    DEF JsPlatformRules, AbsenceFacts, Risks
  <2> QED BY <2>1, <2>2, <2>3, <2>4, <2>5, <2>6, SixOfBrowser DEF JsPlatformRules
<1>10. BrowserTable(JsGroupRules)
  BY OneOfBrowser, PlainRule, FindingRule, StatefulIsClimbable, LaddersAreClimbable, AllRungs
  DEF JsGroupRules, AbsenceFacts, Risks
<1>11. BrowserTable(JsTopologyRules)
  BY FourOfBrowser, PlainRule, FindingRule, StatefulIsClimbable, LaddersAreClimbable, AllRungs
  DEF JsTopologyRules, AbsenceFacts, Risks
<1>12. BrowserTable(JsObservabilityRules)
  BY ThreeOfBrowser, PlainRule, FindingRule, StatefulIsClimbable, LaddersAreClimbable, AllRungs
  DEF JsObservabilityRules, AbsenceFacts, Risks
<1> QED BY <1>1, <1>2, <1>3, <1>4, <1>5, <1>6, <1>7, <1>8, <1>9, <1>10, <1>11, <1>12,
           JoinedBrowserTables DEF BrowserRuleTable

\* The types that the browser has rules for.
AuditedNames ==
    {"cloudflare_api_token", "cloudflare_account_member", "aws_db_instance", "aws_rds_cluster",
     "aws_s3_bucket", "aws_s3_bucket_policy", "aws_kms_key", "aws_route53_zone",
     "aws_eks_node_group", "aws_iam_role", "aws_iam_policy", "aws_ecs_service", "aws_lb",
     "aws_lb_listener", "aws_lb_listener_rule", "aws_lb_target_group",
     "aws_lb_target_group_attachment", "aws_lambda_function", "aws_lambda_alias",
     "aws_ecr_repository", "aws_ecr_repository_policy", "aws_sqs_queue_policy",
     "aws_ecr_lifecycle_policy", "aws_sqs_queue", "aws_glue_catalog_table", "aws_glue_job",
     "aws_security_group", "aws_security_group_rule", "aws_subnet", "aws_route_table",
     "aws_route", "aws_nat_gateway", "aws_internet_gateway", "aws_cloudwatch_metric_alarm",
     "aws_cloudwatch_event_rule", "aws_cloudwatch_log_group"}

LEMMA BrowserRows ==
    Rows(BrowserRuleTable) =
        Rows(JsIdentityRules) \union Rows(JsDatabaseRules) \union Rows(JsBucketRules)
          \union Rows(JsKeyRules) \union Rows(JsIamRules) \union Rows(JsServiceRules)
          \union Rows(JsBalancerRules) \union Rows(JsFunctionRules) \union Rows(JsPlatformRules)
          \union Rows(JsGroupRules) \union Rows(JsTopologyRules) \union Rows(JsObservabilityRules)
<1>1. /\ IsTable(JsIdentityRules) /\ IsTable(JsDatabaseRules) /\ IsTable(JsBucketRules)
      /\ IsTable(JsKeyRules) /\ IsTable(JsServiceRules) /\ IsTable(JsGroupRules)
  BY OneRow DEF JsIdentityRules, JsDatabaseRules, JsBucketRules, JsKeyRules, JsServiceRules,
     JsGroupRules
<1>2. IsTable(JsIamRules) /\ IsTable(JsFunctionRules)
  BY TwoRows DEF JsIamRules, JsFunctionRules
<1>3. IsTable(JsBalancerRules) /\ IsTable(JsPlatformRules)
  BY FiveRows, SixRows DEF JsBalancerRules, JsPlatformRules
<1>4. IsTable(JsTopologyRules) /\ IsTable(JsObservabilityRules)
  BY ThreeRows, FourRows DEF JsTopologyRules, JsObservabilityRules
<1> QED BY <1>1, <1>2, <1>3, <1>4, JoinedTables DEF BrowserRuleTable

LEMMA RuleFields ==
    ASSUME NEW types, NEW ladder, NEW finds
    PROVE  /\ Rule(types, ladder, finds).types = types
           /\ Rule(types, ladder, finds).ladder = ladder
           /\ Rule(types, ladder, finds).finds = finds
BY DEF Rule

NamedRow(b) == b.types \subseteq AuditedNames

LEMMA NamedOne ==
    ASSUME NEW a, a \in AuditedNames, NEW ladder, NEW finds
    PROVE  NamedRow(Rule({a}, ladder, finds))
BY RuleFields DEF NamedRow

LEMMA NamedTwo ==
    ASSUME NEW a, a \in AuditedNames, NEW b, b \in AuditedNames, NEW ladder, NEW finds
    PROVE  NamedRow(Rule({a, b}, ladder, finds)) /\ NamedRow(Guarded({a, b}))
BY RuleFields, GuardedIs DEF NamedRow

LEMMA NamedThree ==
    ASSUME NEW a, a \in AuditedNames, NEW b, b \in AuditedNames, NEW c, c \in AuditedNames,
           NEW ladder, NEW finds
    PROVE  NamedRow(Rule({a, b, c}, ladder, finds))
BY RuleFields DEF NamedRow

NamedTable(table) == \A b \in Rows(table) : NamedRow(b)

LEMMA OneNamed ==
    ASSUME NEW a, NamedRow(a)
    PROVE  NamedTable(<<a>>)
BY OneRow DEF NamedTable

LEMMA TwoNamed ==
    ASSUME NEW a, NamedRow(a), NEW b, NamedRow(b)
    PROVE  NamedTable(<<a, b>>)
BY TwoRows DEF NamedTable

LEMMA ThreeNamed ==
    ASSUME NEW a, NamedRow(a), NEW b, NamedRow(b), NEW c, NamedRow(c)
    PROVE  NamedTable(<<a, b, c>>)
BY ThreeRows DEF NamedTable

LEMMA FourNamed ==
    ASSUME NEW a, NamedRow(a), NEW b, NamedRow(b), NEW c, NamedRow(c), NEW d, NamedRow(d)
    PROVE  NamedTable(<<a, b, c, d>>)
BY FourRows DEF NamedTable

LEMMA FiveNamed ==
    ASSUME NEW a, NamedRow(a), NEW b, NamedRow(b), NEW c, NamedRow(c), NEW d, NamedRow(d),
           NEW e, NamedRow(e)
    PROVE  NamedTable(<<a, b, c, d, e>>)
BY FiveRows DEF NamedTable

LEMMA SixNamed ==
    ASSUME NEW a, NamedRow(a), NEW b, NamedRow(b), NEW c, NamedRow(c), NEW d, NamedRow(d),
           NEW e, NamedRow(e), NEW f, NamedRow(f)
    PROVE  NamedTable(<<a, b, c, d, e, f>>)
BY SixRows DEF NamedTable

LEMMA Names ==
    /\ "cloudflare_api_token" \in AuditedNames
    /\ "cloudflare_account_member" \in AuditedNames /\ "aws_db_instance" \in AuditedNames
    /\ "aws_rds_cluster" \in AuditedNames /\ "aws_s3_bucket" \in AuditedNames
    /\ "aws_s3_bucket_policy" \in AuditedNames
    /\ "aws_kms_key" \in AuditedNames /\ "aws_route53_zone" \in AuditedNames
    /\ "aws_eks_node_group" \in AuditedNames
    /\ "aws_iam_role" \in AuditedNames /\ "aws_iam_policy" \in AuditedNames
    /\ "aws_ecs_service" \in AuditedNames
    /\ "aws_lb" \in AuditedNames /\ "aws_lb_listener" \in AuditedNames
    /\ "aws_lb_listener_rule" \in AuditedNames
    /\ "aws_lb_target_group" \in AuditedNames
    /\ "aws_lb_target_group_attachment" \in AuditedNames
    /\ "aws_lambda_function" \in AuditedNames
    /\ "aws_lambda_alias" \in AuditedNames /\ "aws_ecr_repository" \in AuditedNames
    /\ "aws_ecr_repository_policy" \in AuditedNames
    /\ "aws_sqs_queue_policy" \in AuditedNames
    /\ "aws_ecr_lifecycle_policy" \in AuditedNames /\ "aws_sqs_queue" \in AuditedNames
    /\ "aws_glue_catalog_table" \in AuditedNames /\ "aws_glue_job" \in AuditedNames
    /\ "aws_security_group" \in AuditedNames
    /\ "aws_security_group_rule" \in AuditedNames /\ "aws_subnet" \in AuditedNames
    /\ "aws_route_table" \in AuditedNames
    /\ "aws_route" \in AuditedNames /\ "aws_nat_gateway" \in AuditedNames
    /\ "aws_internet_gateway" \in AuditedNames
    /\ "aws_cloudwatch_metric_alarm" \in AuditedNames
    /\ "aws_cloudwatch_event_rule" \in AuditedNames
    /\ "aws_cloudwatch_log_group" \in AuditedNames
BY DEF AuditedNames

LEMMA AuditedAreNamed == AuditedTypes \subseteq AuditedNames /\ RuleLess \intersect AuditedNames = {}
<1>1. NamedTable(JsIdentityRules)
  BY OneNamed, NamedTwo, Names, Zenon DEF JsIdentityRules
<1>2. NamedTable(JsDatabaseRules)
  BY OneNamed, NamedTwo, Names, Zenon DEF JsDatabaseRules
<1>3. NamedTable(JsBucketRules)
  BY OneNamed, NamedTwo, Names, Zenon DEF JsBucketRules
<1>4. NamedTable(JsKeyRules)
  BY OneNamed, NamedThree, Names, Zenon DEF JsKeyRules
<1>5. NamedTable(JsIamRules)
  <2>1. NamedRow(JsIamRules[1])
    BY NamedOne, Names, Zenon DEF JsIamRules
  <2>2. NamedRow(JsIamRules[2])
    BY NamedOne, Names, Zenon DEF JsIamRules
  <2> QED BY <2>1, <2>2, TwoNamed DEF JsIamRules
<1>6. NamedTable(JsServiceRules)
  BY OneNamed, NamedOne, Names, Zenon DEF JsServiceRules
<1>7. NamedTable(JsBalancerRules)
  <2>1. NamedRow(JsBalancerRules[1])
    BY NamedOne, Names, Zenon DEF JsBalancerRules
  <2>2. NamedRow(JsBalancerRules[2])
    BY NamedOne, Names, Zenon DEF JsBalancerRules
  <2>3. NamedRow(JsBalancerRules[3])
    BY NamedOne, Names, Zenon DEF JsBalancerRules
  <2>4. NamedRow(JsBalancerRules[4])
    BY NamedOne, Names, Zenon DEF JsBalancerRules
  <2>5. NamedRow(JsBalancerRules[5])
    BY NamedOne, Names, Zenon DEF JsBalancerRules
  <2> QED BY <2>1, <2>2, <2>3, <2>4, <2>5, FiveNamed DEF JsBalancerRules
<1>8. NamedTable(JsFunctionRules)
  <2>1. NamedRow(JsFunctionRules[1])
    BY NamedOne, Names, Zenon DEF JsFunctionRules
  <2>2. NamedRow(JsFunctionRules[2])
    BY NamedOne, Names, Zenon DEF JsFunctionRules
  <2> QED BY <2>1, <2>2, TwoNamed DEF JsFunctionRules
<1>9. NamedTable(JsPlatformRules)
  <2>1. NamedRow(JsPlatformRules[1])
    BY NamedOne, Names, Zenon DEF JsPlatformRules
  <2>2. NamedRow(JsPlatformRules[2])
    BY NamedTwo, Names, Zenon DEF JsPlatformRules
  <2>3. NamedRow(JsPlatformRules[3])
    BY NamedOne, Names, Zenon DEF JsPlatformRules
  <2>4. NamedRow(JsPlatformRules[4])
    BY NamedOne, Names, Zenon DEF JsPlatformRules
  <2>5. NamedRow(JsPlatformRules[5])
    BY NamedOne, Names, Zenon DEF JsPlatformRules
  <2>6. NamedRow(JsPlatformRules[6])
    BY NamedOne, Names, Zenon DEF JsPlatformRules
  <2> QED BY <2>1, <2>2, <2>3, <2>4, <2>5, <2>6, SixNamed DEF JsPlatformRules
<1>10. NamedTable(JsGroupRules)
  BY OneNamed, NamedTwo, Names, Zenon DEF JsGroupRules
<1>11. NamedTable(JsTopologyRules)
  <2>1. NamedRow(JsTopologyRules[1])
    BY NamedOne, Names, Zenon DEF JsTopologyRules
  <2>2. NamedRow(JsTopologyRules[2])
    BY NamedOne, Names, Zenon DEF JsTopologyRules
  <2>3. NamedRow(JsTopologyRules[3])
    BY NamedOne, Names, Zenon DEF JsTopologyRules
  <2>4. NamedRow(JsTopologyRules[4])
    BY NamedTwo, Names, Zenon DEF JsTopologyRules
  <2> QED BY <2>1, <2>2, <2>3, <2>4, FourNamed DEF JsTopologyRules
<1>12. NamedTable(JsObservabilityRules)
  <2>1. NamedRow(JsObservabilityRules[1])
    BY NamedOne, Names, Zenon DEF JsObservabilityRules
  <2>2. NamedRow(JsObservabilityRules[2])
    BY NamedOne, Names, Zenon DEF JsObservabilityRules
  <2>3. NamedRow(JsObservabilityRules[3])
    BY NamedOne, Names, Zenon DEF JsObservabilityRules
  <2> QED BY <2>1, <2>2, <2>3, ThreeNamed DEF JsObservabilityRules
<1>13. AuditedTypes \subseteq AuditedNames
  BY <1>1, <1>2, <1>3, <1>4, <1>5, <1>6, <1>7, <1>8, <1>9, <1>10, <1>11, <1>12, BrowserRows,
     TypesOfRows DEF AuditedTypes, NamedTable, NamedRow
<1>14. RuleLess \intersect AuditedNames = {}
  BY DEF RuleLess, AuditedNames
<1> QED BY <1>13, <1>14

-----------------------------------------------------------------------------
(* The analyzer's rules for types that the browser has no rules for        *)

Foreign(types) == types \intersect AuditedNames = {} /\ types \intersect RuleLess = {}

LEMMA ForeignRule ==
    ASSUME NEW types, Foreign(types), NEW ladder, Climbable(ladder),
           NEW finds, \A f \in finds : ProperFind(f) /\ HarmlessFind(f)
    PROVE  Sound(Rule(types, ladder, finds))
BY AuditedAreNamed, RuleFields DEF Sound, Proper, Harmless, Foreign

LEMMA ForeignFind ==
    ASSUME NEW on, NEW facts, NEW risk \in {"review", "dangerous"}
    PROVE  ProperFind(Finds(on, facts, risk)) /\ HarmlessFind(Finds(on, facts, risk))
BY DEF ProperFind, HarmlessFind, Finds, Risks

LEMMA ForeignShapes ==
    ASSUME NEW types, Foreign(types), NEW facts
    PROVE  /\ Sound(Guarded(types)) /\ Sound(Reviewed(types, facts))
           /\ Sound(Enforced(types, facts)) /\ Sound(Controlled(types))
           /\ Sound(Synced(types, facts)) /\ Sound(Declared(types, facts))
           /\ \A write \in {"review", "dangerous"} :
                 /\ Sound(Recreatable(types, write, facts))
                 /\ Sound(Link(types, write, {}))
                 /\ Sound(Link(types, write, {Finds(Writing, facts, "dangerous")}))
<1>1. /\ Climbable(Stateful("dangerous", "dangerous")) /\ Climbable(Stateful("review", "review"))
      /\ Climbable(Stateful("dangerous", "review"))
  BY StatefulIsClimbable, AllRungs
<1>2. /\ Climbable(Reconciled("dangerous", "dangerous"))
      /\ Climbable(Reconciled("review", "review"))
  BY LaddersAreClimbable, AllRungs DEF Reconciled
<1>3. \A write \in {"review", "dangerous"} : Climbable(Ladder("dangerous", "dangerous", write, write))
  BY LaddersAreClimbable, AllRungs
<1>4. Sound(Guarded(types)) /\ Sound(Reviewed(types, facts)) /\ Sound(Enforced(types, facts))
  BY <1>1, ForeignRule, ForeignFind DEF Guarded, Reviewed, Enforced
<1>5. Sound(Controlled(types)) /\ Sound(Synced(types, facts)) /\ Sound(Declared(types, facts))
  BY <1>2, ForeignRule, ForeignFind DEF Controlled, Synced, Declared
<1>6. \A write \in {"review", "dangerous"} :
         /\ Sound(Recreatable(types, write, facts))
         /\ Sound(Link(types, write, {}))
         /\ Sound(Link(types, write, {Finds(Writing, facts, "dangerous")}))
  BY <1>3, ForeignRule, ForeignFind DEF Recreatable, Link
<1> QED BY <1>4, <1>5, <1>6

-----------------------------------------------------------------------------
(* The analyzer's rules whose translation the browser has                  *)

\* A row that both tables have.
LEMMA SharedIsSound ==
    ASSUME NEW r \in Rows(BrowserRuleTable)
    PROVE  Sound(r)
<1>1. Proper(r) /\ Unmissed(r)
  BY BrowserTables DEF BrowserTable, BrowserSound
<1>2. r.types \intersect RuleLess = {}
  BY AuditedAreNamed, TypesOfRows DEF AuditedTypes
<1>3. Mirrors(r, r)
  BY DEF Mirrors
<1> QED BY <1>1, <1>2, <1>3 DEF Sound

\* A row of which the browser has more: the ladder and the findings of a row for
\* more types.
LEMMA TwinIsSound ==
    ASSUME NEW types, NEW more, types \subseteq more, NEW ladder, NEW finds,
           Rule(more, ladder, finds) \in Rows(BrowserRuleTable)
    PROVE  Sound(Rule(types, ladder, finds))
<1> DEFINE r == Rule(types, ladder, finds)
           b == Rule(more, ladder, finds)
<1>1. Sound(b) /\ Unmissed(b)
  BY SharedIsSound, BrowserTables DEF BrowserTable, BrowserSound
<1>2. r.types \subseteq b.types /\ r.ladder = b.ladder /\ r.finds = b.finds
  BY RuleFields
<1> HIDE DEF r, b
<1>3. Mirrors(r, b)
  BY <1>2 DEF Mirrors
<1>4. Proper(r) /\ Unmissed(r) /\ r.types \intersect RuleLess = {}
  BY <1>1, <1>2 DEF Sound, Proper, Unmissed
<1>5. b \in Rows(BrowserRuleTable)
  BY DEF b
<1>6. Sound(r)
  BY <1>2, <1>3, <1>4, <1>5 DEF Sound
<1> QED BY <1>6 DEF r


LEMMA RowOfTable ==
    ASSUME NEW table, NEW k \in DOMAIN table, Rows(table) \subseteq Rows(BrowserRuleTable)
    PROVE  table[k] \in Rows(BrowserRuleTable)
BY DEF Rows

LEMMA IdentityRow ==
    /\ JsIdentityRules[1] \in Rows(BrowserRuleTable)
<1>1. Rows(JsIdentityRules) \subseteq Rows(BrowserRuleTable)
  BY BrowserRows
<1>2. DOMAIN JsIdentityRules = 1..1
  BY DEF JsIdentityRules
<1> QED BY <1>1, <1>2, RowOfTable

LEMMA DatabaseRow ==
    /\ JsDatabaseRules[1] \in Rows(BrowserRuleTable)
<1>1. Rows(JsDatabaseRules) \subseteq Rows(BrowserRuleTable)
  BY BrowserRows
<1>2. DOMAIN JsDatabaseRules = 1..1
  BY DEF JsDatabaseRules
<1> QED BY <1>1, <1>2, RowOfTable

LEMMA BucketRow ==
    /\ JsBucketRules[1] \in Rows(BrowserRuleTable)
<1>1. Rows(JsBucketRules) \subseteq Rows(BrowserRuleTable)
  BY BrowserRows
<1>2. DOMAIN JsBucketRules = 1..1
  BY DEF JsBucketRules
<1> QED BY <1>1, <1>2, RowOfTable

LEMMA KeyRow ==
    /\ JsKeyRules[1] \in Rows(BrowserRuleTable)
<1>1. Rows(JsKeyRules) \subseteq Rows(BrowserRuleTable)
  BY BrowserRows
<1>2. DOMAIN JsKeyRules = 1..1
  BY DEF JsKeyRules
<1> QED BY <1>1, <1>2, RowOfTable

LEMMA IamRows ==
    /\ JsIamRules[1] \in Rows(BrowserRuleTable)
    /\ JsIamRules[2] \in Rows(BrowserRuleTable)
<1>1. Rows(JsIamRules) \subseteq Rows(BrowserRuleTable)
  BY BrowserRows
<1>2. DOMAIN JsIamRules = 1..2
  BY DEF JsIamRules
<1> QED BY <1>1, <1>2, RowOfTable

LEMMA ServiceRow ==
    /\ JsServiceRules[1] \in Rows(BrowserRuleTable)
<1>1. Rows(JsServiceRules) \subseteq Rows(BrowserRuleTable)
  BY BrowserRows
<1>2. DOMAIN JsServiceRules = 1..1
  BY DEF JsServiceRules
<1> QED BY <1>1, <1>2, RowOfTable

LEMMA BalancerRows ==
    /\ JsBalancerRules[1] \in Rows(BrowserRuleTable)
    /\ JsBalancerRules[2] \in Rows(BrowserRuleTable)
    /\ JsBalancerRules[3] \in Rows(BrowserRuleTable)
    /\ JsBalancerRules[4] \in Rows(BrowserRuleTable)
    /\ JsBalancerRules[5] \in Rows(BrowserRuleTable)
<1>1. Rows(JsBalancerRules) \subseteq Rows(BrowserRuleTable)
  BY BrowserRows
<1>2. DOMAIN JsBalancerRules = 1..5
  BY DEF JsBalancerRules
<1> QED BY <1>1, <1>2, RowOfTable

LEMMA FunctionRows ==
    /\ JsFunctionRules[1] \in Rows(BrowserRuleTable)
    /\ JsFunctionRules[2] \in Rows(BrowserRuleTable)
<1>1. Rows(JsFunctionRules) \subseteq Rows(BrowserRuleTable)
  BY BrowserRows
<1>2. DOMAIN JsFunctionRules = 1..2
  BY DEF JsFunctionRules
<1> QED BY <1>1, <1>2, RowOfTable

LEMMA PlatformRows ==
    /\ JsPlatformRules[1] \in Rows(BrowserRuleTable)
    /\ JsPlatformRules[2] \in Rows(BrowserRuleTable)
    /\ JsPlatformRules[3] \in Rows(BrowserRuleTable)
    /\ JsPlatformRules[4] \in Rows(BrowserRuleTable)
    /\ JsPlatformRules[5] \in Rows(BrowserRuleTable)
    /\ JsPlatformRules[6] \in Rows(BrowserRuleTable)
<1>1. Rows(JsPlatformRules) \subseteq Rows(BrowserRuleTable)
  BY BrowserRows
<1>2. DOMAIN JsPlatformRules = 1..6
  BY DEF JsPlatformRules
<1> QED BY <1>1, <1>2, RowOfTable

LEMMA GroupRow ==
    /\ JsGroupRules[1] \in Rows(BrowserRuleTable)
<1>1. Rows(JsGroupRules) \subseteq Rows(BrowserRuleTable)
  BY BrowserRows
<1>2. DOMAIN JsGroupRules = 1..1
  BY DEF JsGroupRules
<1> QED BY <1>1, <1>2, RowOfTable

LEMMA TopologyRows ==
    /\ JsTopologyRules[1] \in Rows(BrowserRuleTable)
    /\ JsTopologyRules[2] \in Rows(BrowserRuleTable)
    /\ JsTopologyRules[3] \in Rows(BrowserRuleTable)
    /\ JsTopologyRules[4] \in Rows(BrowserRuleTable)
<1>1. Rows(JsTopologyRules) \subseteq Rows(BrowserRuleTable)
  BY BrowserRows
<1>2. DOMAIN JsTopologyRules = 1..4
  BY DEF JsTopologyRules
<1> QED BY <1>1, <1>2, RowOfTable

LEMMA ObservabilityRows ==
    /\ JsObservabilityRules[1] \in Rows(BrowserRuleTable)
    /\ JsObservabilityRules[2] \in Rows(BrowserRuleTable)
    /\ JsObservabilityRules[3] \in Rows(BrowserRuleTable)
<1>1. Rows(JsObservabilityRules) \subseteq Rows(BrowserRuleTable)
  BY BrowserRows
<1>2. DOMAIN JsObservabilityRules = 1..3
  BY DEF JsObservabilityRules
<1> QED BY <1>1, <1>2, RowOfTable

LEMMA FiveSound ==
    ASSUME NEW a, Sound(a), NEW b, Sound(b), NEW c, Sound(c), NEW d, Sound(d), NEW e, Sound(e)
    PROVE  SoundTable(<<a, b, c, d, e>>)
BY FiveRows DEF SoundTable

LEMMA StorageIsSound == SoundTable(StorageRules)
<1>1. Sound(StorageRules[1])
  BY DatabaseRow, SharedIsSound DEF StorageRules, JsDatabaseRules
<1>2. Sound(StorageRules[2])
  BY BucketRow, SharedIsSound DEF StorageRules, JsBucketRules
<1> QED BY <1>1, <1>2, TwoSound DEF StorageRules

LEMMA IdentityIsSound == SoundTable(IdentityRules)
<1>1. Sound(IdentityRules[1])
  BY KeyRow, TwinIsSound DEF IdentityRules, JsKeyRules
<1>2. Sound(IdentityRules[2])
  BY IamRows, SharedIsSound DEF IdentityRules, JsIamRules
<1>3. Sound(IdentityRules[3])
  BY IamRows, SharedIsSound DEF IdentityRules, JsIamRules
<1>4. Sound(IdentityRules[4])
  BY KeyRow, TwinIsSound DEF IdentityRules, JsKeyRules
<1> QED BY <1>1, <1>2, <1>3, <1>4, FourSound DEF IdentityRules

LEMMA ComputeIsSound == SoundTable(ComputeRules)
<1>1. Sound(ComputeRules[1])
  BY KeyRow, TwinIsSound DEF ComputeRules, JsKeyRules
<1>2. Sound(ComputeRules[2])
  BY ServiceRow, SharedIsSound DEF ComputeRules, JsServiceRules
<1> QED BY <1>1, <1>2, TwoSound DEF ComputeRules

LEMMA SecurityGroupIsSound == SoundTable(SecurityGroupRules)
<1>1. Sound(SecurityGroupRules[1])
  BY GroupRow, SharedIsSound DEF SecurityGroupRules, JsGroupRules
<1> QED BY <1>1, OneSound DEF SecurityGroupRules

LEMMA ContainerAndQueueIsSound == SoundTable(ContainerAndQueueRules)
<1>1. Sound(ContainerAndQueueRules[1])
  BY PlatformRows, SharedIsSound DEF ContainerAndQueueRules, JsPlatformRules
<1>2. Sound(ContainerAndQueueRules[2])
  BY PlatformRows, SharedIsSound DEF ContainerAndQueueRules, JsPlatformRules
<1>3. Sound(ContainerAndQueueRules[3])
  BY PlatformRows, SharedIsSound DEF ContainerAndQueueRules, JsPlatformRules
<1>4. Sound(ContainerAndQueueRules[4])
  BY PlatformRows, SharedIsSound DEF ContainerAndQueueRules, JsPlatformRules
<1> QED BY <1>1, <1>2, <1>3, <1>4, FourSound DEF ContainerAndQueueRules

LEMMA GlueIsSound == SoundTable(GlueRules)
<1>1. Sound(GlueRules[1])
  BY PlatformRows, SharedIsSound DEF GlueRules, JsPlatformRules
<1>2. Sound(GlueRules[2])
  BY PlatformRows, SharedIsSound DEF GlueRules, JsPlatformRules
<1> QED BY <1>1, <1>2, TwoSound DEF GlueRules

LEMMA RoutingIsSound == SoundTable(RoutingRules)
<1>1. Sound(RoutingRules[1])
  BY TopologyRows, SharedIsSound DEF RoutingRules, JsTopologyRules
<1>2. Sound(RoutingRules[2])
  BY TopologyRows, SharedIsSound DEF RoutingRules, JsTopologyRules
<1>3. Sound(RoutingRules[3])
  BY TopologyRows, SharedIsSound DEF RoutingRules, JsTopologyRules
<1> QED BY <1>1, <1>2, <1>3, ThreeSound DEF RoutingRules

LEMMA GatewayIsSound == SoundTable(GatewayRules)
<1>1. Sound(GatewayRules[1])
  BY TopologyRows, SharedIsSound DEF GatewayRules, JsTopologyRules
<1> QED BY <1>1, OneSound DEF GatewayRules

LEMMA ObservabilityIsSound == SoundTable(ObservabilityRules)
<1>1. Sound(ObservabilityRules[1])
  BY ObservabilityRows, SharedIsSound DEF ObservabilityRules, JsObservabilityRules
<1>2. Sound(ObservabilityRules[2])
  BY ObservabilityRows, SharedIsSound DEF ObservabilityRules, JsObservabilityRules
<1>3. Sound(ObservabilityRules[3])
  BY ObservabilityRows, SharedIsSound DEF ObservabilityRules, JsObservabilityRules
<1> QED BY <1>1, <1>2, <1>3, ThreeSound DEF ObservabilityRules

\* A row that the browser translates with a difference.
Translates(r, b) == r.types = b.types /\ Mirrors(r, b)

LEMMA TranslatedIsSound ==
    ASSUME NEW r, NEW b \in Rows(BrowserRuleTable), Translates(r, b)
    PROVE  Sound(r)
<1>1. Sound(b) /\ Unmissed(b)
  BY SharedIsSound, BrowserTables DEF BrowserTable, BrowserSound
<1>2. Proper(r)
  BY <1>1 DEF Sound, Proper, ProperFind, Mirrors, Translates
<1>3. BrowserBlind \intersect AbsenceFacts = {}
  BY DEF BrowserBlind, AbsenceFacts
<1>4. Unmissed(r)
  <2> SUFFICES ASSUME NEW f \in r.finds
               PROVE  PresentFind(f)
    BY DEF Unmissed
  <2>1. PICK g \in b.finds : f.facts \subseteq g.facts \union BrowserBlind
    BY DEF Mirrors, Translates
  <2>2. PresentFind(g)
    BY <1>1 DEF Unmissed
  <2> QED BY <2>1, <2>2, <1>3 DEF PresentFind
<1>5. r.types \intersect RuleLess = {}
  BY <1>1 DEF Sound, Translates
<1> QED BY <1>2, <1>4, <1>5 DEF Sound, Translates

LEMMA TwoFindsTranslate ==
    ASSUME NEW types, NEW ladder, NEW onA, NEW onB, NEW riskA, NEW riskB,
           NEW a, NEW jsA, a \subseteq jsA \union BrowserBlind, jsA \subseteq a,
           NEW b, NEW jsB, b \subseteq jsB \union BrowserBlind, jsB \subseteq b
    PROVE  Translates(Rule(types, ladder, {Finds(onA, a, riskA), Finds(onB, b, riskB)}),
                      Rule(types, ladder, {Finds(onA, jsA, riskA), Finds(onB, jsB, riskB)}))
<1> DEFINE f == Finds(onA, a, riskA)
           g == Finds(onB, b, riskB)
           h == Finds(onA, jsA, riskA)
           k == Finds(onB, jsB, riskB)
<1>1. /\ f.on = h.on /\ f.risk = h.risk /\ f.facts = a /\ h.facts = jsA
      /\ g.on = k.on /\ g.risk = k.risk /\ g.facts = b /\ k.facts = jsB
  BY DEF Finds
<1> HIDE DEF f, g, h, k
<1>2. Translates(Rule(types, ladder, {f, g}), Rule(types, ladder, {h, k}))
  BY <1>1, RuleFields DEF Mirrors, Translates
<1> QED BY <1>2 DEF f, g, h, k

LEMMA FunctionTranslates == Translates(FunctionRules[1], JsFunctionRules[1])
<1>1. /\ {"package type", "deprecated runtime", "newly deprecated runtime"}
           \subseteq {"package type", "deprecated runtime"} \union BrowserBlind
      /\ {"package type", "deprecated runtime"}
           \subseteq {"package type", "deprecated runtime", "newly deprecated runtime"}
  BY DEF BrowserBlind
<1>2. Translates(Rule({"aws_lambda_function"}, Ladder("none", "none", "none", "none"),
                   {Finds({"update"}, {"package type", "deprecated runtime",
                                       "newly deprecated runtime"}, "dangerous"),
                    Finds({"update"}, {"signing", "network", "runtime major", "execution role"},
                          "review")}),
              Rule({"aws_lambda_function"}, Ladder("none", "none", "none", "none"),
                   {Finds({"update"}, {"package type", "deprecated runtime"}, "dangerous"),
                    Finds({"update"}, {"signing", "network", "runtime major", "execution role"},
                          "review")}))
  BY <1>1, TwoFindsTranslate
<1> QED BY <1>2 DEF FunctionRules, JsFunctionRules

LEMMA LoadBalancerIsSound == SoundTable(LoadBalancerRules)
<1>1. Sound(LoadBalancerRules[1])
  BY BalancerRows, SharedIsSound DEF LoadBalancerRules, JsBalancerRules
<1>2. Sound(LoadBalancerRules[2])
  BY BalancerRows, SharedIsSound DEF LoadBalancerRules, JsBalancerRules
<1>3. Sound(LoadBalancerRules[3])
  BY BalancerRows, SharedIsSound DEF LoadBalancerRules, JsBalancerRules
<1>4. Sound(LoadBalancerRules[4])
  BY BalancerRows, SharedIsSound DEF LoadBalancerRules, JsBalancerRules
<1>5. Sound(LoadBalancerRules[5])
  BY BalancerRows, SharedIsSound DEF LoadBalancerRules, JsBalancerRules
<1> QED BY <1>1, <1>2, <1>3, <1>4, <1>5, FiveSound DEF LoadBalancerRules

LEMMA FunctionIsSound == SoundTable(FunctionRules)
<1>1. Sound(FunctionRules[1])
  BY FunctionRows, FunctionTranslates, TranslatedIsSound
<1>2. Sound(FunctionRules[2])
  BY FunctionRows, SharedIsSound DEF FunctionRules, JsFunctionRules
<1> QED BY <1>1, <1>2, TwoSound DEF FunctionRules

LEMMA AwsIsSound == SoundTable(AwsRegistered) /\ SoundTable(AwsCrossCutting)
<1>1. SoundTable(AwsRegistered)
  BY StorageIsSound, IdentityIsSound, ComputeIsSound, LoadBalancerIsSound, FunctionIsSound,
     SecurityGroupIsSound, JoinedSoundTables DEF AwsRegistered
<1>2. SoundTable(AwsCrossCutting)
  BY ContainerAndQueueIsSound, GlueIsSound, RoutingIsSound, GatewayIsSound,
     ObservabilityIsSound, JoinedSoundTables DEF AwsCrossCutting
<1> QED BY <1>1, <1>2

\* Cloudflare's services are two that the browser knows and three it does not.
LEMMA CloudflareServicesMirror ==
    Mirrors(CloudflareServiceRules[1], JsIdentityRules[1])
<1>1. \A s, t : Mirrors(Guarded(s), Guarded(t))
  BY RuleFields DEF Guarded, Mirrors
<1> QED BY <1>1 DEF CloudflareServiceRules, JsIdentityRules

LEMMA CloudflareServicesAreSound == SoundTable(CloudflareServiceRules)
<1> DEFINE r == CloudflareServiceRules[1]
           b == JsIdentityRules[1]
<1>1. r.types = {"cloudflare_load_balancer", "cloudflare_custom_ssl", "cloudflare_api_token",
                 "cloudflare_account_member", "cloudflare_pages_project"}
  BY GuardedIs DEF CloudflareServiceRules
<1>2. b.types = {"cloudflare_api_token", "cloudflare_account_member"}
  BY GuardedIs DEF JsIdentityRules
<1>3. Proper(r) /\ Unmissed(r) /\ Harmless(r)
  BY GuardedIs DEF CloudflareServiceRules, BrowserSound
<1>4. Mirrors(r, b) /\ b \in Rows(BrowserRuleTable)
  BY CloudflareServicesMirror, IdentityRow
<1> HIDE DEF r, b
<1>5. {"cloudflare_load_balancer", "cloudflare_custom_ssl", "cloudflare_pages_project"}
        \intersect AuditedTypes = {}
  <2>1. {"cloudflare_load_balancer", "cloudflare_custom_ssl", "cloudflare_pages_project"}
          \intersect AuditedNames = {}
    BY DEF AuditedNames
  <2> QED BY <2>1, AuditedAreNamed
<1>6. r.types \intersect RuleLess = {}
  BY <1>1 DEF RuleLess
<1>7. Sound(r)
  BY <1>1, <1>2, <1>3, <1>4, <1>5, <1>6 DEF Sound
<1>8. Sound(CloudflareServiceRules[2])
  <2>1. Foreign({"cloudflare_logpush_job"})
    BY DEF Foreign, AuditedNames, RuleLess
  <2> QED BY <2>1, ForeignShapes DEF CloudflareServiceRules
<1> QED BY <1>7, <1>8, TwoSound DEF CloudflareServiceRules, r

-----------------------------------------------------------------------------
(* The other rules of the analyzer                                         *)

LEMMA FrequentLadders ==
    /\ Climbable(Stateful("review", "none")) /\ Climbable(Stateful("review", "review"))
    /\ Climbable(Stateful("dangerous", "review"))
    /\ Climbable(Unapplied(Stateful("review", "dangerous")))
    /\ Climbable(Unapplied(Stateful("review", "review")))
    /\ Climbable(Ladder("irreversible", "irreversible", "review", "safe"))
    /\ Climbable(Ladder("dangerous", "dangerous", "review", "review"))
    /\ Climbable(Ladder("dangerous", "dangerous", "dangerous", "dangerous"))
BY LaddersAreClimbable, AllRungs DEF Stateful

LEMMA CloudflareIsSound == SoundTable(CloudflareRules)
<1>1. SoundTable(CloudflareDnsRules)
  BY ThreeSound, ForeignShapes DEF CloudflareDnsRules, Foreign, AuditedNames, RuleLess
<1>2. SoundTable(CloudflareEdgeRules)
  BY TwoSound, ForeignShapes DEF CloudflareEdgeRules, Foreign, AuditedNames, RuleLess
<1>3. SoundTable(CloudflareAccessRules)
  BY TwoSound, ForeignShapes, ForeignRule, ForeignFind, FrequentLadders
     DEF CloudflareAccessRules, Foreign, AuditedNames, RuleLess
<1> QED BY <1>1, <1>2, <1>3, CloudflareServicesAreSound, JoinedSoundTables DEF CloudflareRules

LEMMA DatadogIsSound == SoundTable(DatadogRules)
<1>1. SoundTable(DatadogAccessRules)
  BY TwoSound, ForeignShapes DEF DatadogAccessRules, Foreign, AuditedNames, RuleLess
<1>2. SoundTable(DatadogSecurityRules)
  BY ThreeSound, ForeignShapes DEF DatadogSecurityRules, Foreign, AuditedNames, RuleLess
<1>3. SoundTable(DatadogIntegrationRules)
  BY ThreeSound, ForeignShapes DEF DatadogIntegrationRules, Foreign, AuditedNames, RuleLess
<1>4. SoundTable(DatadogTelemetryRules)
  BY ThreeSound, ForeignShapes DEF DatadogTelemetryRules, Foreign, AuditedNames, RuleLess
<1>5. SoundTable(DatadogMonitoringRules)
  BY TwoSound, ForeignShapes DEF DatadogMonitoringRules, Foreign, AuditedNames, RuleLess
<1>6. SoundTable(DatadogResponseRules)
  BY ThreeSound, ForeignShapes DEF DatadogResponseRules, Foreign, AuditedNames, RuleLess
<1> QED BY <1>1, <1>2, <1>3, <1>4, <1>5, <1>6, JoinedSoundTables DEF DatadogRules

LEMMA NewRelicIsSound == SoundTable(NewRelicRules)
<1>1. SoundTable(NewRelicLinks)
  BY ThreeSound, ForeignShapes DEF NewRelicLinks, Foreign, AuditedNames, RuleLess
<1>2. SoundTable(NewRelicWatchRules)
  <2> DEFINE all == NewRelicClasses.identity \union NewRelicClasses.credential
                      \union NewRelicClasses.alert \union NewRelicClasses.notification
                      \union NewRelicClasses.synthetics
  <2>1. Foreign(all)
    BY DEF NewRelicClasses, Foreign, AuditedNames, RuleLess
  <2> HIDE DEF all
  <2>2. SoundTable(<<Guarded(all)>>)
    BY <2>1, OneSound, ForeignShapes
  <2> QED BY <2>2 DEF NewRelicWatchRules, all
<1>3. SoundTable(NewRelicPlatformRules)
  <2> DEFINE all == NewRelicClasses.cloud \union NewRelicClasses.pipeline
                      \union NewRelicClasses.fleet \union NewRelicClasses.model
             event == {"newrelic_insights_event"}
  <2>1. Foreign(all) /\ Foreign(event)
    BY DEF NewRelicClasses, Foreign, AuditedNames, RuleLess
  <2> HIDE DEF all, event
  <2>2. SoundTable(<<Guarded(all), Reviewed(event, {"sensitive data"})>>)
    BY <2>1, TwoSound, ForeignShapes
  <2> QED BY <2>2 DEF NewRelicPlatformRules, all, event
<1> QED BY <1>1, <1>2, <1>3, JoinedSoundTables DEF NewRelicRules

LEMMA PagerDutyIsSound == SoundTable(PagerDutyRules)
<1>1. SoundTable(PagerDutyLinks)
  BY TwoSound, ForeignShapes DEF PagerDutyLinks, Foreign, AuditedNames, RuleLess
<1>2. SoundTable(PagerDutyWrites)
  <2> DEFINE all == PagerDutyClasses.identity \union PagerDutyClasses.on_call
                      \union PagerDutyClasses.service \union PagerDutyClasses.orchestration
                      \union PagerDutyClasses.automation \union PagerDutyClasses.integration
                      \union PagerDutyClasses.incident
             fields == PagerDutyClasses.customization
  <2>1. Foreign(all) /\ Foreign(fields)
    BY DEF PagerDutyClasses, Foreign, AuditedNames, RuleLess
  <2> HIDE DEF all, fields
  <2>2. SoundTable(<<Guarded(all), Reviewed(fields, {})>>)
    BY <2>1, TwoSound, ForeignShapes
  <2> QED BY <2>2 DEF PagerDutyWrites, all, fields
<1> QED BY <1>1, <1>2, JoinedSoundTables DEF PagerDutyRules

LEMMA TfeIsSound == SoundTable(TfeRules)
<1>1. SoundTable(TfeGuarded)
  BY OneSound, ForeignShapes DEF TfeGuarded, TfeClasses, Foreign, AuditedNames, RuleLess
<1>2. SoundTable(TfeMembershipRules)
  BY TwoSound, ForeignShapes DEF TfeMembershipRules, Foreign, AuditedNames, RuleLess
<1>3. SoundTable(TfeRunRules)
  BY ThreeSound, ForeignShapes DEF TfeRunRules, Foreign, AuditedNames, RuleLess
<1>4. SoundTable(TfeDeliveryRules)
  BY ThreeSound, ForeignShapes DEF TfeDeliveryRules, Foreign, AuditedNames, RuleLess
<1> QED BY <1>1, <1>2, <1>3, <1>4, JoinedSoundTables DEF TfeRules

LEMMA VaultIsSound == SoundTable(VaultRules)
<1>1. SoundTable(VaultDispatch)
  <2> DEFINE all == VaultClasses.secret_state \union VaultClasses.policy
                      \union VaultClasses.auth \union VaultClasses.crypto
                      \union VaultClasses.engine \union VaultClasses.external
                      \union VaultClasses.plugin
  <2>1. Foreign(all)
    BY DEF VaultClasses, Foreign, AuditedNames, RuleLess
  <2> HIDE DEF all
  <2>2. SoundTable(<<Guarded(all)>>)
    BY <2>1, OneSound, ForeignShapes
  <2> QED BY <2>2 DEF VaultDispatch, all
<1>2. SoundTable(VaultAuditRules)
  BY OneSound, ForeignShapes DEF VaultAuditRules, Foreign, AuditedNames, RuleLess
<1>3. SoundTable(VaultPlatformRules)
  BY ThreeSound, ForeignShapes DEF VaultPlatformRules, Foreign, AuditedNames, RuleLess
<1> QED BY <1>1, <1>2, <1>3, JoinedSoundTables DEF VaultRules

LEMMA GithubIsSound == SoundTable(GithubRules)
<1>1. SoundTable(GithubRepositoryRules)
  BY OneSound, ForeignShapes, ForeignRule, ForeignFind, FrequentLadders
     DEF GithubRepositoryRules, Foreign, AuditedNames, RuleLess
<1>2. SoundTable(GithubRoutingRules)
  BY TwoSound, ForeignShapes DEF GithubRoutingRules, Foreign, AuditedNames, RuleLess
<1>3. SoundTable(GithubGovernanceRules)
  BY OneSound, ForeignShapes DEF GithubGovernanceRules, Foreign, AuditedNames, RuleLess
<1>4. SoundTable(GithubMembershipRules)
  BY OneSound, ForeignShapes DEF GithubMembershipRules, Foreign, AuditedNames, RuleLess
<1>5. SoundTable(GithubOrganizationRules)
  BY OneSound, ForeignShapes DEF GithubOrganizationRules, Foreign, AuditedNames, RuleLess
<1>6. SoundTable(GithubActionsRules)
  BY TwoSound, ForeignShapes DEF GithubActionsRules, Foreign, AuditedNames, RuleLess
<1>7. SoundTable(GithubPerimeterRules)
  BY TwoSound, ForeignShapes DEF GithubPerimeterRules, Foreign, AuditedNames, RuleLess
<1>8. SoundTable(GithubSecretRules)
  BY TwoSound, ForeignShapes DEF GithubSecretRules, Foreign, AuditedNames, RuleLess
<1>9. SoundTable(GithubEnvironmentRules)
  BY TwoSound, ForeignShapes DEF GithubEnvironmentRules, Foreign, AuditedNames, RuleLess
<1>10. SoundTable(GithubIntegrationRules)
  BY FourSound, ForeignShapes DEF GithubIntegrationRules, Foreign, AuditedNames, RuleLess
<1>11. SoundTable(GithubContentRules)
  BY TwoSound, ForeignShapes DEF GithubContentRules, Foreign, AuditedNames, RuleLess
<1> QED BY <1>1, <1>2, <1>3, <1>4, <1>5, <1>6, <1>7, <1>8, <1>9, <1>10, <1>11,
           JoinedSoundTables DEF GithubRules

LEMMA GitlabIsSound == SoundTable(GitlabRules)
<1>1. SoundTable(GitlabLifecycleRules)
  BY TwoSound, ForeignShapes DEF GitlabLifecycleRules, Foreign, AuditedNames, RuleLess
<1>2. SoundTable(GitlabInstanceRules)
  BY TwoSound, ForeignShapes DEF GitlabInstanceRules, Foreign, AuditedNames, RuleLess
<1>3. SoundTable(GitlabProtectionRules)
  BY TwoSound, ForeignShapes DEF GitlabProtectionRules, Foreign, AuditedNames, RuleLess
<1>4. SoundTable(GitlabIdentityRules)
  BY OneSound, ForeignShapes DEF GitlabIdentityRules, Foreign, AuditedNames, RuleLess
<1>5. SoundTable(GitlabCredentialRules)
  BY OneSound, ForeignShapes DEF GitlabCredentialRules, Foreign, AuditedNames, RuleLess
<1>6. SoundTable(GitlabRunnerRules)
  BY TwoSound, ForeignShapes DEF GitlabRunnerRules, Foreign, AuditedNames, RuleLess
<1>7. SoundTable(GitlabHookRules)
  BY TwoSound, ForeignShapes DEF GitlabHookRules, Foreign, AuditedNames, RuleLess
<1>8. SoundTable(GitlabMirrorRules)
  BY TwoSound, ForeignShapes DEF GitlabMirrorRules, Foreign, AuditedNames, RuleLess
<1>9. SoundTable(GitlabPipelineRules)
  BY ThreeSound, ForeignShapes DEF GitlabPipelineRules, Foreign, AuditedNames, RuleLess
<1>10. SoundTable(GitlabSupplyRules)
  BY TwoSound, ForeignShapes DEF GitlabSupplyRules, Foreign, AuditedNames, RuleLess
<1>11. SoundTable(GitlabCollaborationRules)
  BY OneSound, ForeignShapes DEF GitlabCollaborationRules, Foreign, AuditedNames, RuleLess
<1> QED BY <1>1, <1>2, <1>3, <1>4, <1>5, <1>6, <1>7, <1>8, <1>9, <1>10, <1>11,
           JoinedSoundTables DEF GitlabRules

LEMMA GrafanaIsSound == SoundTable(GrafanaRules)
<1>1. SoundTable(GrafanaCredentialRules)
  BY OneSound, ForeignShapes DEF GrafanaCredentialRules, GrafanaClasses, Foreign,
     AuditedNames, RuleLess
<1>2. SoundTable(GrafanaIdentityRules)
  BY OneSound, ForeignShapes DEF GrafanaIdentityRules, Foreign, AuditedNames, RuleLess
<1>3. SoundTable(GrafanaAlertingRules)
  BY TwoSound, ForeignShapes DEF GrafanaAlertingRules, Foreign, AuditedNames, RuleLess
<1>4. SoundTable(GrafanaContentRules)
  BY TwoSound, ForeignShapes DEF GrafanaContentRules, Foreign, AuditedNames, RuleLess
<1>5. SoundTable(GrafanaDataRules)
  BY TwoSound, ForeignShapes DEF GrafanaDataRules, Foreign, AuditedNames, RuleLess
<1>6. SoundTable(GrafanaResponderRules)
  BY TwoSound, ForeignShapes DEF GrafanaResponderRules, Foreign, AuditedNames, RuleLess
<1>7. SoundTable(GrafanaSyntheticRules)
  BY TwoSound, ForeignShapes DEF GrafanaSyntheticRules, Foreign, AuditedNames, RuleLess
<1>8. SoundTable(GrafanaAppRules)
  <2>1. /\ Foreign({"grafana_assistant_mcp_server", "grafana_k6_load_test",
                    "grafana_machine_learning_alert"})
        /\ Foreign({"grafana_assistant_rule"}) /\ Foreign({"grafana_k6_project"})
        /\ Foreign({"grafana_machine_learning_job"})
    BY DEF Foreign, AuditedNames, RuleLess
  <2>2. /\ Sound(GrafanaAppRules[1]) /\ Sound(GrafanaAppRules[2])
        /\ Sound(GrafanaAppRules[3]) /\ Sound(GrafanaAppRules[4])
    BY <2>1, ForeignShapes DEF GrafanaAppRules
  <2>3. GrafanaAppRules = <<GrafanaAppRules[1], GrafanaAppRules[2], GrafanaAppRules[3],
                            GrafanaAppRules[4]>>
    BY DEF GrafanaAppRules
  <2> QED BY <2>2, <2>3, FourSound
<1>9. SoundTable(GrafanaPlatformRules)
  <2>1. /\ Foreign({"grafana_asserts_suppressed_assertions_config", "grafana_cloud_stack",
                    "grafana_cloud_plugin_installation"})
        /\ Foreign({"grafana_asserts_thresholds", "grafana_message_template"})
        /\ Foreign({"grafana_apps_productactivation_dbo11yconfig_v1alpha1"})
    BY DEF Foreign, AuditedNames, RuleLess
  <2>2. /\ Sound(GrafanaPlatformRules[1]) /\ Sound(GrafanaPlatformRules[2])
        /\ Sound(GrafanaPlatformRules[3])
    BY <2>1, ForeignShapes DEF GrafanaPlatformRules
  <2>3. GrafanaPlatformRules = <<GrafanaPlatformRules[1], GrafanaPlatformRules[2],
                                 GrafanaPlatformRules[3]>>
    BY DEF GrafanaPlatformRules
  <2> QED BY <2>2, <2>3, ThreeSound
<1> QED BY <1>1, <1>2, <1>3, <1>4, <1>5, <1>6, <1>7, <1>8, <1>9, JoinedSoundTables DEF GrafanaRules

LEMMA AzureIsSound == SoundTable(AzureRules)
<1>1. SoundTable(AzureComputeRules)
  BY TwoSound, ForeignShapes, ForeignRule, ForeignFind, FrequentLadders
     DEF AzureComputeRules, Foreign, AuditedNames, RuleLess
<1>2. SoundTable(AzureStorageRules)
  BY OneSound, ForeignShapes, ForeignRule, ForeignFind, FrequentLadders
     DEF AzureStorageRules, Foreign, AuditedNames, RuleLess
<1>3. SoundTable(AzureAccessRules)
  BY OneSound, ForeignShapes DEF AzureAccessRules, Foreign, AuditedNames, RuleLess
<1>4. SoundTable(AzureNetworkRules)
  BY OneSound, ForeignShapes, ForeignRule, ForeignFind, FrequentLadders
     DEF AzureNetworkRules, Foreign, AuditedNames, RuleLess
<1> QED BY <1>1, <1>2, <1>3, <1>4, JoinedSoundTables DEF AzureRules

LEMMA GcpIsSound == SoundTable(GcpRules)
<1>1. SoundTable(GcpComputeRules)
  BY TwoSound, ForeignShapes, ForeignRule, ForeignFind, FrequentLadders DEF GcpComputeRules,
     Foreign, AuditedNames, RuleLess
<1>2. SoundTable(GcpStorageRules)
  BY TwoSound, ForeignShapes, ForeignRule, ForeignFind, FrequentLadders DEF GcpStorageRules,
     Foreign, AuditedNames, RuleLess
<1>3. SoundTable(GcpNetworkRules)
  BY OneSound, ForeignShapes, ForeignRule, ForeignFind, FrequentLadders DEF GcpNetworkRules,
     Foreign, AuditedNames, RuleLess
<1> QED BY <1>1, <1>2, <1>3, JoinedSoundTables DEF GcpRules

LEMMA KubernetesProviderIsSound == SoundTable(KubernetesProviderRules)
<1>1. SoundTable(KubernetesProviderWrites)
  <2> DEFINE all == LET C == KubernetesProviderClasses
                    IN  C.workload \union C.scaling \union C.admission \union C.manifest
                          \union C.storage \union C.network \union C.identity \union C.policy
                          \union C.request \union C.live
  <2>1. Foreign(all)
    BY DEF KubernetesProviderClasses, Foreign, AuditedNames, RuleLess
  <2>2. Foreign({"kubernetes_labels"})
    BY DEF Foreign, AuditedNames, RuleLess
  <2>3. KubernetesProviderWrites =
          <<Recreatable(all, "dangerous", {}), Recreatable({"kubernetes_labels"}, "review", {})>>
    BY DEF KubernetesProviderWrites
  <2> HIDE DEF all
  <2>4. Sound(Recreatable(all, "dangerous", {}))
    BY <2>1, ForeignShapes
  <2>5. Sound(Recreatable({"kubernetes_labels"}, "review", {}))
    BY <2>2, ForeignShapes
  <2> QED BY <2>3, <2>4, <2>5, TwoSound
<1>2. SoundTable(KubernetesProviderData)
  BY TwoSound, ForeignShapes DEF KubernetesProviderData, KubernetesProviderClasses, Foreign,
     AuditedNames, RuleLess
<1>3. SoundTable(HelmReleaseRules)
  BY OneSound, ForeignShapes DEF HelmReleaseRules, Foreign, AuditedNames, RuleLess
<1> QED BY <1>1, <1>2, <1>3, JoinedSoundTables DEF KubernetesProviderRules

LEMMA CoreIsSound == SoundTable(CoreRules)
<1>1. SoundTable(WorkloadObjectRules)
  BY OneSound, ForeignShapes, ForeignRule, ForeignFind, FrequentLadders
     DEF WorkloadObjectRules, Foreign, AuditedNames, RuleLess
<1>2. SoundTable(ServiceObjectRules)
  BY TwoSound, ForeignShapes, ForeignRule, ForeignFind, FrequentLadders
     DEF ServiceObjectRules, Foreign, AuditedNames, RuleLess
<1>3. SoundTable(SecretObjectRules)
  BY OneSound, ForeignShapes DEF SecretObjectRules, Foreign, AuditedNames, RuleLess
<1>4. SoundTable(NamespaceObjectRules)
  BY OneSound, ForeignShapes, ForeignRule, ForeignFind, FrequentLadders
     DEF NamespaceObjectRules, Foreign, AuditedNames, RuleLess
<1>5. SoundTable(RbacObjectRules)
  BY TwoSound, ForeignShapes DEF RbacObjectRules, Foreign, AuditedNames, RuleLess
<1>6. SoundTable(NetworkObjectRules)
  BY OneSound, ForeignShapes DEF NetworkObjectRules, Foreign, AuditedNames, RuleLess
<1> QED BY <1>1, <1>2, <1>3, <1>4, <1>5, <1>6, JoinedSoundTables DEF CoreRules

LEMMA K8sRegisteredIsSound == SoundTable(K8sRegistered)
<1>1. SoundTable(ArgoCdRules)
  BY TwoSound, ForeignShapes DEF ArgoCdRules, Foreign, AuditedNames, RuleLess
<1>2. SoundTable(FluxSourceRules)
  BY OneSound, ForeignShapes, ForeignRule, ForeignFind, FrequentLadders DEF FluxSourceRules,
     Foreign, AuditedNames, RuleLess
<1>3. SoundTable(FluxReleaseRules)
  BY OneSound, ForeignShapes DEF FluxReleaseRules, Foreign, AuditedNames, RuleLess
<1>4. SoundTable(FluxAutomationRules)
  BY OneSound, ForeignShapes, ForeignRule, ForeignFind, FrequentLadders
     DEF FluxAutomationRules, Foreign, AuditedNames, RuleLess
<1>5. SoundTable(TektonRules)
  BY TwoSound, ForeignShapes DEF TektonRules, Foreign, AuditedNames, RuleLess
<1>6. SoundTable(TektonRunRules)
  BY OneSound, ForeignShapes DEF TektonRunRules, Foreign, AuditedNames, RuleLess
<1>7. SoundTable(TektonTriggerRules)
  BY TwoSound, ForeignShapes DEF TektonTriggerRules, Foreign, AuditedNames, RuleLess
<1>8. SoundTable(ArgoWorkflowRules)
  BY OneSound, ForeignShapes DEF ArgoWorkflowRules, Foreign, AuditedNames, RuleLess
<1>9. SoundTable(ArgoEventRules)
  BY OneSound, ForeignShapes DEF ArgoEventRules, Foreign, AuditedNames, RuleLess
<1>10. SoundTable(GatewayApiRules)
  BY OneSound, ForeignShapes DEF GatewayApiRules, Foreign, AuditedNames, RuleLess
<1>11. SoundTable(CertManagerRules)
  BY OneSound, ForeignShapes DEF CertManagerRules, Foreign, AuditedNames, RuleLess
<1>12. SoundTable(ExternalSecretsRules)
  BY OneSound, ForeignShapes DEF ExternalSecretsRules, Foreign, AuditedNames, RuleLess
<1>13. SoundTable(IstioTrafficRules)
  BY OneSound, ForeignShapes DEF IstioTrafficRules, Foreign, AuditedNames, RuleLess
<1>14. SoundTable(IstioSecurityRules)
  BY TwoSound, ForeignShapes DEF IstioSecurityRules, Foreign, AuditedNames, RuleLess
<1>15. SoundTable(KyvernoRules)
  BY OneSound, ForeignShapes DEF KyvernoRules, Foreign, AuditedNames, RuleLess
<1>16. SoundTable(GatekeeperRules)
  BY TwoSound, ForeignShapes DEF GatekeeperRules, Foreign, AuditedNames, RuleLess
<1>17. SoundTable(KedaRules)
  BY TwoSound, ForeignShapes DEF KedaRules, Foreign, AuditedNames, RuleLess
<1>18. SoundTable(KnativeRules)
  BY OneSound, ForeignShapes DEF KnativeRules, Foreign, AuditedNames, RuleLess
<1>19. SoundTable(ClusterApiRules)
  BY OneSound, ForeignShapes DEF ClusterApiRules, Foreign, AuditedNames, RuleLess
<1>20. SoundTable(ClusterBootstrapRules)
  BY OneSound, ForeignShapes DEF ClusterBootstrapRules, Foreign, AuditedNames, RuleLess
<1>21. SoundTable(ClusterExtensionRules)
  BY TwoSound, ForeignShapes DEF ClusterExtensionRules, Foreign, AuditedNames, RuleLess
<1>22. SoundTable(KarpenterRules)
  BY OneSound, ForeignShapes DEF KarpenterRules, Foreign, AuditedNames, RuleLess
<1> QED BY CoreIsSound, <1>1, <1>2, <1>3, <1>4, <1>5, <1>6, <1>7, <1>8, <1>9, <1>10, <1>11,
           <1>12, <1>13, <1>14, <1>15, <1>16, <1>17, <1>18, <1>19, <1>20, <1>21, <1>22,
           JoinedSoundTables DEF K8sRegistered

LEMMA InfrastructureIsSound == SoundTable(K8sCrossCutting)
BY OneSound, ForeignShapes DEF K8sCrossCutting, Foreign, AuditedNames, RuleLess

\* Every rule of the analyzer is one of those.
LEMMA PythonTablesAreSound == SoundTable(Registered) /\ SoundTable(PythonTable)
<1>1. SoundTable(Registered)
  BY AwsIsSound, CloudflareIsSound, DatadogIsSound, NewRelicIsSound, PagerDutyIsSound, TfeIsSound,
     VaultIsSound, GithubIsSound, GitlabIsSound, GrafanaIsSound, AzureIsSound, GcpIsSound,
     KubernetesProviderIsSound, K8sRegisteredIsSound, JoinedSoundTables DEF Registered
<1>2. SoundTable(CrossCutting)
  BY AwsIsSound, InfrastructureIsSound, JoinedSoundTables DEF CrossCutting
<1> QED BY <1>1, <1>2, JoinedSoundTables DEF PythonTable
-----------------------------------------------------------------------------
(* Every rule of the browser is the translation of a rule of the analyzer  *)

Originated(b) == \A t \in b.types : \E r \in Rows(PythonTable) : t \in r.types /\ Mirrors(r, b)
OriginatedTable(table) == IsTable(table) /\ \A b \in Rows(table) : Originated(b)

LEMMA JoinedCoveredTables ==
    ASSUME NEW s, OriginatedTable(s), NEW t, OriginatedTable(t)
    PROVE  OriginatedTable(s \o t)
BY JoinedTables DEF OriginatedTable

LEMMA PythonRows ==
    ASSUME NEW r
    PROVE  r \in Rows(AwsRegistered) \union Rows(AwsCrossCutting) \union Rows(CloudflareRules)
           => r \in Rows(PythonTable)
<1>1. /\ IsTable(AwsRegistered) /\ IsTable(AwsCrossCutting) /\ IsTable(CloudflareRules)
      /\ IsTable(K8sCrossCutting)
  BY AwsIsSound, CloudflareIsSound, InfrastructureIsSound DEF SoundTable
<1>2. /\ IsTable(DatadogRules) /\ IsTable(NewRelicRules) /\ IsTable(PagerDutyRules)
      /\ IsTable(TfeRules) /\ IsTable(VaultRules) /\ IsTable(GithubRules) /\ IsTable(GitlabRules)
      /\ IsTable(GrafanaRules) /\ IsTable(AzureRules) /\ IsTable(GcpRules)
      /\ IsTable(KubernetesProviderRules) /\ IsTable(K8sRegistered)
  BY DatadogIsSound, NewRelicIsSound, PagerDutyIsSound, TfeIsSound, VaultIsSound, GithubIsSound,
     GitlabIsSound, GrafanaIsSound, AzureIsSound, GcpIsSound, KubernetesProviderIsSound,
     K8sRegisteredIsSound DEF SoundTable
<1>3. IsTable(Registered) /\ Rows(AwsRegistered) \union Rows(CloudflareRules) \subseteq Rows(Registered)
  BY <1>1, <1>2, JoinedTables DEF Registered
<1>4. IsTable(CrossCutting) /\ Rows(AwsCrossCutting) \subseteq Rows(CrossCutting)
  BY <1>1, JoinedTables DEF CrossCutting
<1> QED BY <1>3, <1>4, JoinedTables DEF PythonTable

LEMMA AwsRows ==
    /\ Rows(StorageRules) \subseteq Rows(PythonTable)
    /\ Rows(IdentityRules) \subseteq Rows(PythonTable)
    /\ Rows(ComputeRules) \subseteq Rows(PythonTable)
    /\ Rows(LoadBalancerRules) \subseteq Rows(PythonTable)
    /\ Rows(FunctionRules) \subseteq Rows(PythonTable)
    /\ Rows(SecurityGroupRules) \subseteq Rows(PythonTable)
    /\ Rows(ContainerAndQueueRules) \subseteq Rows(PythonTable)
    /\ Rows(GlueRules) \subseteq Rows(PythonTable)
    /\ Rows(RoutingRules) \subseteq Rows(PythonTable)
    /\ Rows(GatewayRules) \subseteq Rows(PythonTable)
    /\ Rows(ObservabilityRules) \subseteq Rows(PythonTable)
    /\ Rows(CloudflareServiceRules) \subseteq Rows(PythonTable)
<1>1. /\ IsTable(StorageRules)
      /\ IsTable(IdentityRules)
      /\ IsTable(ComputeRules)
      /\ IsTable(LoadBalancerRules)
      /\ IsTable(FunctionRules)
      /\ IsTable(SecurityGroupRules)
      /\ IsTable(ContainerAndQueueRules)
      /\ IsTable(GlueRules)
      /\ IsTable(RoutingRules)
      /\ IsTable(GatewayRules)
      /\ IsTable(ObservabilityRules)
  BY StorageIsSound, IdentityIsSound, ComputeIsSound, LoadBalancerIsSound, FunctionIsSound,
     SecurityGroupIsSound, ContainerAndQueueIsSound, GlueIsSound, RoutingIsSound, GatewayIsSound,
     ObservabilityIsSound DEF SoundTable
<1>2. /\ Rows(StorageRules) \subseteq Rows(AwsRegistered)
      /\ Rows(IdentityRules) \subseteq Rows(AwsRegistered)
      /\ Rows(ComputeRules) \subseteq Rows(AwsRegistered)
      /\ Rows(LoadBalancerRules) \subseteq Rows(AwsRegistered)
      /\ Rows(FunctionRules) \subseteq Rows(AwsRegistered)
      /\ Rows(SecurityGroupRules) \subseteq Rows(AwsRegistered)
  BY <1>1, JoinedTables DEF AwsRegistered
<1>3. /\ Rows(ContainerAndQueueRules) \subseteq Rows(AwsCrossCutting)
      /\ Rows(GlueRules) \subseteq Rows(AwsCrossCutting)
      /\ Rows(RoutingRules) \subseteq Rows(AwsCrossCutting)
      /\ Rows(GatewayRules) \subseteq Rows(AwsCrossCutting)
      /\ Rows(ObservabilityRules) \subseteq Rows(AwsCrossCutting)
  BY <1>1, JoinedTables DEF AwsCrossCutting
<1>4. Rows(CloudflareServiceRules) \subseteq Rows(CloudflareRules)
  <2>1. IsTable(CloudflareServiceRules) /\ IsTable(CloudflareDnsRules)
          /\ IsTable(CloudflareEdgeRules) /\ IsTable(CloudflareAccessRules)
    BY CloudflareServicesAreSound, TwoRows, ThreeRows
    DEF SoundTable, CloudflareDnsRules, CloudflareEdgeRules, CloudflareAccessRules
  <2> QED BY <2>1, JoinedTables DEF CloudflareRules
<1> QED BY <1>2, <1>3, <1>4, PythonRows

LEMMA RowOfPython ==
    ASSUME NEW table, NEW k \in DOMAIN table, Rows(table) \subseteq Rows(PythonTable)
    PROVE  table[k] \in Rows(PythonTable)
BY DEF Rows

LEMMA AwsRowsByPlace ==
    /\ StorageRules[1] \in Rows(PythonTable) /\ StorageRules[2] \in Rows(PythonTable)
    /\ IdentityRules[1] \in Rows(PythonTable) /\ IdentityRules[2] \in Rows(PythonTable)
    /\ IdentityRules[3] \in Rows(PythonTable) /\ IdentityRules[4] \in Rows(PythonTable)
    /\ ComputeRules[1] \in Rows(PythonTable) /\ ComputeRules[2] \in Rows(PythonTable)
    /\ LoadBalancerRules[1] \in Rows(PythonTable)
    /\ LoadBalancerRules[2] \in Rows(PythonTable)
    /\ LoadBalancerRules[3] \in Rows(PythonTable)
    /\ LoadBalancerRules[4] \in Rows(PythonTable)
    /\ LoadBalancerRules[5] \in Rows(PythonTable)
    /\ FunctionRules[1] \in Rows(PythonTable) /\ FunctionRules[2] \in Rows(PythonTable)
    /\ SecurityGroupRules[1] \in Rows(PythonTable)
    /\ ContainerAndQueueRules[1] \in Rows(PythonTable)
    /\ ContainerAndQueueRules[2] \in Rows(PythonTable)
    /\ ContainerAndQueueRules[3] \in Rows(PythonTable)
    /\ ContainerAndQueueRules[4] \in Rows(PythonTable)
    /\ GlueRules[1] \in Rows(PythonTable) /\ GlueRules[2] \in Rows(PythonTable)
    /\ RoutingRules[1] \in Rows(PythonTable) /\ RoutingRules[2] \in Rows(PythonTable)
    /\ RoutingRules[3] \in Rows(PythonTable)
    /\ GatewayRules[1] \in Rows(PythonTable)
    /\ ObservabilityRules[1] \in Rows(PythonTable)
    /\ ObservabilityRules[2] \in Rows(PythonTable)
    /\ ObservabilityRules[3] \in Rows(PythonTable)
    /\ CloudflareServiceRules[1] \in Rows(PythonTable)
<1>1. DOMAIN StorageRules = 1..2
  BY DEF StorageRules
<1>2. DOMAIN IdentityRules = 1..4
  BY DEF IdentityRules
<1>3. DOMAIN ComputeRules = 1..2
  BY DEF ComputeRules
<1>4. DOMAIN LoadBalancerRules = 1..5
  BY DEF LoadBalancerRules
<1>5. DOMAIN FunctionRules = 1..2
  BY DEF FunctionRules
<1>6. DOMAIN SecurityGroupRules = 1..1
  BY DEF SecurityGroupRules
<1>7. DOMAIN ContainerAndQueueRules = 1..4
  BY DEF ContainerAndQueueRules
<1>8. DOMAIN GlueRules = 1..2
  BY DEF GlueRules
<1>9. DOMAIN RoutingRules = 1..3
  BY DEF RoutingRules
<1>10. DOMAIN GatewayRules = 1..1
  BY DEF GatewayRules
<1>11. DOMAIN ObservabilityRules = 1..3
  BY DEF ObservabilityRules
<1>12. DOMAIN CloudflareServiceRules = 1..2
  BY DEF CloudflareServiceRules
<1> QED BY <1>1, <1>2, <1>3, <1>4, <1>5, <1>6, <1>7, <1>8, <1>9, <1>10, <1>11, <1>12,
           AwsRows, RowOfPython

LEMMA SharedIsCovered ==
    ASSUME NEW b \in Rows(PythonTable)
    PROVE  Originated(b)
<1>1. Mirrors(b, b)
  BY DEF Mirrors
<1> QED BY <1>1 DEF Originated

LEMMA TranslatedIsCovered ==
    ASSUME NEW r \in Rows(PythonTable), NEW b, Translates(r, b)
    PROVE  Originated(b)
BY DEF Originated, Translates

LEMMA TwinsMirror ==
    ASSUME NEW types, NEW more, NEW ladder, NEW finds
    PROVE  Mirrors(Rule(types, ladder, finds), Rule(more, ladder, finds))
BY RuleFields DEF Mirrors

LEMMA OneCovered ==
    ASSUME NEW a, Originated(a)
    PROVE  OriginatedTable(<<a>>)
BY OneRow DEF OriginatedTable

LEMMA TwoCovered ==
    ASSUME NEW a, Originated(a), NEW b, Originated(b)
    PROVE  OriginatedTable(<<a, b>>)
BY TwoRows DEF OriginatedTable

LEMMA ThreeCovered ==
    ASSUME NEW a, Originated(a), NEW b, Originated(b), NEW c, Originated(c)
    PROVE  OriginatedTable(<<a, b, c>>)
BY ThreeRows DEF OriginatedTable

LEMMA FourCovered ==
    ASSUME NEW a, Originated(a), NEW b, Originated(b), NEW c, Originated(c), NEW d, Originated(d)
    PROVE  OriginatedTable(<<a, b, c, d>>)
BY FourRows DEF OriginatedTable

LEMMA FiveCovered ==
    ASSUME NEW a, Originated(a), NEW b, Originated(b), NEW c, Originated(c), NEW d,
           Originated(d), NEW e, Originated(e)
    PROVE  OriginatedTable(<<a, b, c, d, e>>)
BY FiveRows DEF OriginatedTable

LEMMA SixCovered ==
    ASSUME NEW a, Originated(a), NEW b, Originated(b), NEW c, Originated(c), NEW d,
           Originated(d), NEW e, Originated(e), NEW f, Originated(f)
    PROVE  OriginatedTable(<<a, b, c, d, e, f>>)
BY SixRows DEF OriginatedTable

LEMMA IdentityIsCovered == OriginatedTable(JsIdentityRules)
<1> DEFINE r == CloudflareServiceRules[1]
           b == JsIdentityRules[1]
<1>1. r.types = {"cloudflare_load_balancer", "cloudflare_custom_ssl", "cloudflare_api_token",
                 "cloudflare_account_member", "cloudflare_pages_project"}
  BY GuardedIs DEF CloudflareServiceRules
<1>2. b.types = {"cloudflare_api_token", "cloudflare_account_member"}
  BY GuardedIs DEF JsIdentityRules
<1>3. Mirrors(r, b) /\ r \in Rows(PythonTable)
  BY CloudflareServicesMirror, AwsRowsByPlace
<1> HIDE DEF r, b
<1>4. Originated(b)
  BY <1>1, <1>2, <1>3 DEF Originated
<1> QED BY <1>4, OneCovered DEF JsIdentityRules, b

\* Three types that the browser takes together have a rule each.
LEMMA KeyIsCovered == OriginatedTable(JsKeyRules)
<1> DEFINE ladder == Stateful("review", "none")
           b == JsKeyRules[1]
           key == Rule({"aws_kms_key"}, ladder, {})
           zone == Rule({"aws_route53_zone"}, ladder, {})
           group == Rule({"aws_eks_node_group"}, ladder, {})
<1>1. key \in Rows(PythonTable) /\ zone \in Rows(PythonTable)
  BY AwsRowsByPlace DEF IdentityRules
<1>2. group \in Rows(PythonTable)
  BY AwsRowsByPlace DEF ComputeRules
<1>3. b = Rule({"aws_kms_key", "aws_route53_zone", "aws_eks_node_group"}, ladder, {})
  BY DEF JsKeyRules
<1>4. /\ b.types = {"aws_kms_key", "aws_route53_zone", "aws_eks_node_group"}
      /\ key.types = {"aws_kms_key"} /\ zone.types = {"aws_route53_zone"}
      /\ group.types = {"aws_eks_node_group"}
  BY <1>3, RuleFields
<1>5. Mirrors(key, b) /\ Mirrors(zone, b) /\ Mirrors(group, b)
  BY <1>3, TwinsMirror
<1> HIDE DEF b, key, zone, group
<1>6. Originated(b)
  BY <1>1, <1>2, <1>4, <1>5 DEF Originated
<1> QED BY <1>6, OneCovered DEF JsKeyRules, b

LEMMA DatabaseIsCovered == OriginatedTable(JsDatabaseRules)
<1>1. Originated(JsDatabaseRules[1])
  BY AwsRowsByPlace, SharedIsCovered DEF JsDatabaseRules, StorageRules
<1> QED BY <1>1, OneCovered DEF JsDatabaseRules

LEMMA BucketIsCovered == OriginatedTable(JsBucketRules)
<1>1. Originated(JsBucketRules[1])
  BY AwsRowsByPlace, SharedIsCovered DEF JsBucketRules, StorageRules
<1> QED BY <1>1, OneCovered DEF JsBucketRules

LEMMA IamIsCovered == OriginatedTable(JsIamRules)
<1>1. Originated(JsIamRules[1])
  BY AwsRowsByPlace, SharedIsCovered DEF JsIamRules, IdentityRules
<1>2. Originated(JsIamRules[2])
  BY AwsRowsByPlace, SharedIsCovered DEF JsIamRules, IdentityRules
<1> QED BY <1>1, <1>2, TwoCovered DEF JsIamRules

LEMMA ServiceIsCovered == OriginatedTable(JsServiceRules)
<1>1. Originated(JsServiceRules[1])
  BY AwsRowsByPlace, SharedIsCovered DEF JsServiceRules, ComputeRules
<1> QED BY <1>1, OneCovered DEF JsServiceRules

LEMMA BalancerIsCovered == OriginatedTable(JsBalancerRules)
<1>1. Originated(JsBalancerRules[1])
  BY AwsRowsByPlace, SharedIsCovered DEF JsBalancerRules, LoadBalancerRules
<1>2. Originated(JsBalancerRules[2])
  BY AwsRowsByPlace, SharedIsCovered DEF JsBalancerRules, LoadBalancerRules
<1>3. Originated(JsBalancerRules[3])
  BY AwsRowsByPlace, SharedIsCovered DEF JsBalancerRules, LoadBalancerRules
<1>4. Originated(JsBalancerRules[4])
  BY AwsRowsByPlace, SharedIsCovered DEF JsBalancerRules, LoadBalancerRules
<1>5. Originated(JsBalancerRules[5])
  BY AwsRowsByPlace, SharedIsCovered DEF JsBalancerRules, LoadBalancerRules
<1> QED BY <1>1, <1>2, <1>3, <1>4, <1>5, FiveCovered DEF JsBalancerRules

LEMMA FunctionIsCovered == OriginatedTable(JsFunctionRules)
<1>1. Originated(JsFunctionRules[1])
  BY AwsRowsByPlace, FunctionTranslates, TranslatedIsCovered
<1>2. Originated(JsFunctionRules[2])
  BY AwsRowsByPlace, SharedIsCovered DEF JsFunctionRules, FunctionRules
<1> QED BY <1>1, <1>2, TwoCovered DEF JsFunctionRules

LEMMA PlatformIsCovered == OriginatedTable(JsPlatformRules)
<1>1. Originated(JsPlatformRules[1])
  BY AwsRowsByPlace, SharedIsCovered DEF JsPlatformRules, ContainerAndQueueRules
<1>2. Originated(JsPlatformRules[2])
  BY AwsRowsByPlace, SharedIsCovered DEF JsPlatformRules, ContainerAndQueueRules
<1>3. Originated(JsPlatformRules[3])
  BY AwsRowsByPlace, SharedIsCovered DEF JsPlatformRules, ContainerAndQueueRules
<1>4. Originated(JsPlatformRules[4])
  BY AwsRowsByPlace, SharedIsCovered DEF JsPlatformRules, ContainerAndQueueRules
<1>5. Originated(JsPlatformRules[5])
  BY AwsRowsByPlace, SharedIsCovered DEF JsPlatformRules, GlueRules
<1>6. Originated(JsPlatformRules[6])
  BY AwsRowsByPlace, SharedIsCovered DEF JsPlatformRules, GlueRules
<1> QED BY <1>1, <1>2, <1>3, <1>4, <1>5, <1>6, SixCovered DEF JsPlatformRules

LEMMA GroupIsCovered == OriginatedTable(JsGroupRules)
<1>1. Originated(JsGroupRules[1])
  BY AwsRowsByPlace, SharedIsCovered DEF JsGroupRules, SecurityGroupRules
<1> QED BY <1>1, OneCovered DEF JsGroupRules

LEMMA TopologyIsCovered == OriginatedTable(JsTopologyRules)
<1>1. Originated(JsTopologyRules[1])
  BY AwsRowsByPlace, SharedIsCovered DEF JsTopologyRules, RoutingRules
<1>2. Originated(JsTopologyRules[2])
  BY AwsRowsByPlace, SharedIsCovered DEF JsTopologyRules, RoutingRules
<1>3. Originated(JsTopologyRules[3])
  BY AwsRowsByPlace, SharedIsCovered DEF JsTopologyRules, RoutingRules
<1>4. Originated(JsTopologyRules[4])
  BY AwsRowsByPlace, SharedIsCovered DEF JsTopologyRules, GatewayRules
<1> QED BY <1>1, <1>2, <1>3, <1>4, FourCovered DEF JsTopologyRules

LEMMA ObservabilityIsCovered == OriginatedTable(JsObservabilityRules)
<1>1. Originated(JsObservabilityRules[1])
  BY AwsRowsByPlace, SharedIsCovered DEF JsObservabilityRules, ObservabilityRules
<1>2. Originated(JsObservabilityRules[2])
  BY AwsRowsByPlace, SharedIsCovered DEF JsObservabilityRules, ObservabilityRules
<1>3. Originated(JsObservabilityRules[3])
  BY AwsRowsByPlace, SharedIsCovered DEF JsObservabilityRules, ObservabilityRules
<1> QED BY <1>1, <1>2, <1>3, ThreeCovered DEF JsObservabilityRules

LEMMA BrowserIsCovered == OriginatedTable(BrowserRuleTable)
BY IdentityIsCovered, DatabaseIsCovered, BucketIsCovered, KeyIsCovered, IamIsCovered,
   ServiceIsCovered, BalancerIsCovered, FunctionIsCovered, PlatformIsCovered, GroupIsCovered,
   TopologyIsCovered, ObservabilityIsCovered, JoinedCoveredTables DEF BrowserRuleTable
-----------------------------------------------------------------------------
(* What the rules of a type result in                                      *)

LEMMA PythonRulesOf ==
    ASSUME NEW t \in Types, NEW r
    PROVE  r \in PythonRules[t] <=> r \in Rows(PythonTable) /\ t \in r.types
<1> DEFINE table == PythonTable
<1>1. PythonRules[t] = {table[k] : k \in {j \in DOMAIN table : t \in table[j].types}}
  BY DEF PythonRules, Table, PythonTable
<1> HIDE DEF table
<1>2. PythonRules[t] = {x \in Rows(table) : t \in x.types}
  BY <1>1 DEF Rows
<1> QED BY <1>2 DEF table

LEMMA BrowserRulesOf ==
    ASSUME NEW t \in Types, NEW r
    PROVE  r \in BrowserByType[t] <=> r \in Rows(BrowserRuleTable) /\ t \in r.types
<1> DEFINE table == BrowserRuleTable
<1>1. BrowserByType[t] = {table[k] : k \in {j \in DOMAIN table : t \in table[j].types}}
  BY DEF BrowserByType, Table
<1> HIDE DEF table
<1>2. BrowserByType[t] = {x \in Rows(table) : t \in x.types}
  BY <1>1 DEF Rows
<1> QED BY <1>2 DEF table

LEMMA PythonRuleIsSound ==
    ASSUME NEW t \in Types, NEW r \in PythonRules[t]
    PROVE  Sound(r) /\ Proper(r) /\ t \in r.types
<1>1. Sound(r) /\ t \in r.types
  BY PythonRulesOf, PythonTablesAreSound DEF SoundTable
<1> QED BY <1>1 DEF Sound

LEMMA BrowserRuleIsSound ==
    ASSUME NEW t \in Types, NEW b \in BrowserByType[t]
    PROVE  Proper(b) /\ Unmissed(b) /\ t \in b.types /\ t \in AuditedTypes
BY BrowserRulesOf, BrowserTables, TypesOfRows DEF BrowserTable, BrowserSound, AuditedTypes

Triggered(r, a, facts, risk) ==
    \E f \in r.finds : a \in f.on /\ f.facts \intersect facts # {} /\ f.risk = risk

LEMMA ResultIs ==
    ASSUME NEW r, NEW a, NEW facts, NEW risk
    PROVE  risk \in Results(r, a, facts)
             <=> (risk = Rung(r.ladder, a) /\ risk # "none") \/ Triggered(r, a, facts, risk)
BY DEF Results, Triggered

LEMMA ResultsAreRisks ==
    ASSUME NEW r, Proper(r), NEW a \in Actions, NEW facts
    PROVE  Results(r, a, facts) \subseteq Risks
BY ResultIs DEF Proper, ProperFind, Climbable, Triggered

LEMMA ResultsGrow ==
    ASSUME NEW r, NEW a, NEW facts, NEW more, facts \subseteq more
    PROVE  Results(r, a, facts) \subseteq Results(r, a, more)
<1>1. \A risk : Triggered(r, a, facts, risk) => Triggered(r, a, more, risk)
  BY DEF Triggered
<1> QED BY <1>1, ResultIs

\* What an update results in, a replacement results in, or it is not worse than
\* a replacement is by itself.
LEMMA ReplacingIsWorse ==
    ASSUME NEW r, Proper(r), NEW facts, NEW risk \in Results(r, "update", facts)
    PROVE  Rank(risk) <= Rank("dangerous") \/ risk \in Results(r, "replace", facts)
<1>0. "update" \in Actions /\ "replace" \in Actions
  BY DEF Actions
<1>1. risk \in Risks
  BY <1>0, ResultsAreRisks
<1>2. CASE risk # "irreversible"
  BY <1>1, <1>2, Ranks DEF Risks
<1>3. CASE risk = "irreversible"
  <2>1. Triggered(r, "update", facts, risk)
    BY <1>3, ResultIs DEF Proper, Climbable
  <2>2. Triggered(r, "replace", facts, risk)
    BY <1>0, <1>3, <2>1 DEF Triggered, Proper, ProperFind
  <2> QED BY <2>2, ResultIs
<1> QED BY <1>2, <1>3

Worsens(a, b) == a = b \/ (a = "update" /\ b = "replace")

LEMMA BaselineRisks ==
    /\ BaselineRisk("create") = "safe" /\ BaselineRisk("apply") = "safe"
    /\ BaselineRisk("read") = "safe" /\ BaselineRisk("delete") = "irreversible"
    /\ BaselineRisk("replace") = "dangerous" /\ BaselineRisk("forget") = "dangerous"
    /\ BaselineRisk("update") = "review" /\ BaselineRisk("unknown") = "review"
    /\ \A a \in Actions : BaselineRisk(a) \in Risks
BY DEF BaselineRisk, Creating, Actions, Risks

\* The results of rules, whichever of them apply.
ResultsOf(rules, a, facts) == UNION {Results(r, a, facts) : r \in rules}

LEMMA ResultsOfWorsen ==
    ASSUME NEW rules, \A r \in rules : Proper(r),
           NEW a, NEW b, Worsens(a, b), NEW facts, NEW more, facts \subseteq more,
           NEW risk \in ResultsOf(rules, a, facts)
    PROVE  \E worse \in {BaselineRisk(b)} \union ResultsOf(rules, b, more) :
               Rank(risk) <= Rank(worse)
<1>1. PICK r \in rules : risk \in Results(r, a, facts)
  BY DEF ResultsOf
<1>2. Rank(risk) <= Rank(risk)
  BY Ranks
<1>3. CASE a = b
  BY <1>1, <1>2, <1>3, ResultsGrow DEF ResultsOf
<1>4. CASE a = "update" /\ b = "replace"
  <2>1. CASE Rank(risk) <= Rank("dangerous")
    BY <1>4, <2>1, BaselineRisks
  <2>2. CASE risk \in Results(r, "replace", facts)
    BY <1>2, <1>4, <2>2, ResultsGrow DEF ResultsOf
  <2> QED BY <1>1, <1>4, <2>1, <2>2, ReplacingIsWorse
<1> QED BY <1>3, <1>4 DEF Worsens

LEMMA BaselineWorsens ==
    ASSUME NEW a, NEW b, Worsens(a, b)
    PROVE  Rank(BaselineRisk(a)) <= Rank(BaselineRisk(b))
BY BaselineRisks, Ranks DEF Worsens

LEMMA PythonWorsens ==
    ASSUME NEW t \in Types, NEW a, NEW b, Worsens(a, b),
           NEW facts, NEW more, facts \subseteq more
    PROVE  Rank(PythonRisk(t, a, facts)) <= Rank(PythonRisk(t, b, more))
<1> DEFINE S == {BaselineRisk(a)} \union ResultsOf(PythonRules[t], a, facts)
           T == {BaselineRisk(b)} \union ResultsOf(PythonRules[t], b, more)
<1>1. PythonRisk(t, a, facts) = Highest(S) /\ PythonRisk(t, b, more) = Highest(T)
  BY DEF PythonRisk, ResultsOf
<1>2. \A s \in S : \E x \in T : Rank(s) <= Rank(x)
  BY PythonRuleIsSound, ResultsOfWorsen, BaselineWorsens
<1>3. S # {}
  OBVIOUS
<1> HIDE DEF S, T
<1> QED BY <1>1, <1>2, <1>3, HighestGrows

\* What both classifiers say is one of the risks.
LEMMA PythonRisks ==
    ASSUME NEW t \in Types, NEW a \in Actions, NEW facts
    PROVE  /\ PythonRisk(t, a, facts) \in {BaselineRisk(a)} \union ResultsOf(PythonRules[t], a, facts)
           /\ PythonRisk(t, a, facts) \in Risks
<1> DEFINE S == {BaselineRisk(a)} \union ResultsOf(PythonRules[t], a, facts)
<1>1. PythonRisk(t, a, facts) = Highest(S)
  BY DEF PythonRisk, ResultsOf
<1>2. S \subseteq Risks
  BY PythonRuleIsSound, ResultsAreRisks, BaselineRisks DEF ResultsOf
<1>3. S # {}
  OBVIOUS
<1> HIDE DEF S
<1>4. PythonRisk(t, a, facts) \in S /\ PythonRisk(t, a, facts) \in Risks
  BY <1>1, <1>2, <1>3, HighestIs
<1> QED BY <1>4 DEF S
-----------------------------------------------------------------------------
(* The browser                                                             *)

LEMMA Registrations == RegisteredTypes \subseteq Types
BY DEF Types

LEMMA FloorIs ==
    ASSUME NEW t, NEW a
    PROVE  GeneratedRiskFloor(t, a) =
               IF t \in RegisteredTypes /\ a \in Canonical THEN {PythonRisk(t, a, Bare(t))} ELSE {}
BY DEF GeneratedRiskFloor, Floors

LEMMA FloorWorsens ==
    ASSUME NEW t, NEW a, NEW b, Worsens(a, b), NEW risk \in GeneratedRiskFloor(t, a)
    PROVE  \E worse \in GeneratedRiskFloor(t, b) : Rank(risk) <= Rank(worse)
<1>1. t \in RegisteredTypes /\ a \in Canonical /\ risk = PythonRisk(t, a, Bare(t))
  BY FloorIs
<1>2. b \in Canonical
  BY <1>1 DEF Worsens, Canonical
<1>3. Rank(risk) <= Rank(PythonRisk(t, b, Bare(t)))
  BY <1>1, Registrations, PythonWorsens
<1> QED BY <1>1, <1>2, <1>3, FloorIs

LEMMA BrowserWorsens ==
    ASSUME NEW t \in Types, NEW a, NEW b, Worsens(a, b),
           NEW facts, NEW more, facts \subseteq more
    PROVE  Rank(BrowserRisk(t, a, facts)) <= Rank(BrowserRisk(t, b, more))
<1> DEFINE S == {BaselineRisk(a)} \union RuleCandidates(t, a, facts) \union GeneratedRiskFloor(t, a)
           T == {BaselineRisk(b)} \union RuleCandidates(t, b, more) \union GeneratedRiskFloor(t, b)
<1>1. BrowserRisk(t, a, facts) = Highest(S) /\ BrowserRisk(t, b, more) = Highest(T)
  BY DEF BrowserRisk
<1>2. ASSUME NEW s \in S
      PROVE  \E x \in T : Rank(s) <= Rank(x)
  <2>1. CASE s = BaselineRisk(a)
    BY <2>1, BaselineWorsens
  <2>2. CASE s \in GeneratedRiskFloor(t, a)
    BY <2>2, FloorWorsens
  <2>3. CASE s \in RuleCandidates(t, a, facts)
    <3>1. CASE t \in AuditedTypes \union BaselineOnly
      <4>1. s \in ResultsOf(BrowserByType[t], a, facts)
        BY <2>3, <3>1 DEF RuleCandidates, ResultsOf
      <4>2. RuleCandidates(t, b, more) = ResultsOf(BrowserByType[t], b, more)
        BY <3>1 DEF RuleCandidates, ResultsOf
      <4> QED BY <4>1, <4>2, BrowserRuleIsSound, ResultsOfWorsen
    <3>2. CASE t \notin AuditedTypes \union BaselineOnly
      <4>1. /\ s = "dangerous" \/ s \in GeneratedRiskFloor(t, a)
            /\ a \in {"create", "update", "replace", "forget"}
        BY <2>3, <3>2 DEF RuleCandidates, UnsupportedResults
      <4>2. "dangerous" \in RuleCandidates(t, b, more)
        BY <3>2, <4>1 DEF RuleCandidates, UnsupportedResults, Worsens
      <4>3. Rank("dangerous") <= Rank("dangerous")
        BY Ranks
      <4> QED BY <4>1, <4>2, <4>3, FloorWorsens
    <3> QED BY <3>1, <3>2
  <2> QED BY <2>1, <2>2, <2>3
<1>3. S # {}
  OBVIOUS
<1> HIDE DEF S, T
<1> QED BY <1>1, <1>2, <1>3, HighestGrows

-----------------------------------------------------------------------------
(* Revisions                                                               *)

\* The verdicts are those of the change as it stands.
ChangeInv ==
    /\ change = [type |-> change.type, action |-> change.action, facts |-> change.facts,
                 respelled |-> change.respelled]
    /\ change.type \in Types /\ change.action \in Recorded
    /\ change.facts \subseteq FactsFor[change.type] /\ change.respelled \subseteq Compared
    /\ verdicts = Verdict(change)

\* What a revision of the change is.
Revised ==
    /\ change'.type = change.type
    /\ Worsens(change.action, change'.action)
    /\ verdicts' = Verdict(change')

LEMMA Reads ==
    ASSUME NEW a, NEW b, Worsens(a, b)
    PROVE  Worsens(PythonReads(a), PythonReads(b)) /\ Worsens(BrowserReads(a), BrowserReads(b))
BY DEF Worsens, PythonReads, BrowserReads

LEMMA BareIsKnown ==
    ASSUME NEW t
    PROVE  Bare(t) \subseteq FactsFor[t]
BY DEF Bare

LEMMA InputsStart == InputsInit => ChangeInv
<1> SUFFICES ASSUME InputsInit PROVE ChangeInv
  OBVIOUS
<1>1. CASE Init
  <2>1. PICK t \in Types, a \in Recorded :
            change = [type |-> t, action |-> a, facts |-> Bare(t), respelled |-> {}]
    BY <1>1 DEF Init
  <2>2. verdicts = Verdict(change)
    BY <1>1 DEF Init
  <2> QED BY <2>1, <2>2, BareIsKnown DEF ChangeInv
<1>2. CASE NoPlan
  <2>1. change = [type |-> "acme_widget", action |-> "create", facts |-> {}, respelled |-> {}]
    BY <1>2 DEF NoPlan, NoChange
  <2>2. verdicts = Verdict(change)
    BY <1>2 DEF NoPlan
  <2>3. "acme_widget" \in Types /\ "create" \in Recorded
    BY DEF Types, PlainTypes, Recorded, Actions
  <2> QED BY <2>1, <2>2, <2>3 DEF ChangeInv
<1> QED BY <1>1, <1>2 DEF InputsInit

LEMMA RevisionStep ==
    ASSUME ChangeInv, Next
    PROVE  ChangeInv' /\ Revised
<1>1. ASSUME NEW fact \in FactsFor[change.type], Learn(fact)
      PROVE  ChangeInv' /\ Revised
  <2>1. change' = [type |-> change.type, action |-> change.action,
                   facts |-> change.facts \union {fact},
                   respelled |-> change.respelled \ {fact}]
    BY <1>1 DEF Learn, Classify, ChangeInv
  <2>2. verdicts' = Verdict(change')
    BY <1>1 DEF Learn, Classify
  <2> QED BY <1>1, <2>1, <2>2, Zenon DEF ChangeInv, Revised, Worsens
<1>2. ASSUME NEW fact \in FactsFor[change.type], Settle(fact)
      PROVE  ChangeInv' /\ Revised
  <2>1. change' = [type |-> change.type, action |-> change.action,
                   facts |-> change.facts \ {fact}, respelled |-> change.respelled]
    BY <1>2 DEF Settle, Classify, ChangeInv
  <2>2. verdicts' = Verdict(change')
    BY <1>2 DEF Settle, Classify
  <2> QED BY <1>2, <2>1, <2>2, Zenon DEF ChangeInv, Revised, Worsens
<1>3. ASSUME ForceReplacement
      PROVE  ChangeInv' /\ Revised
  <2>1. change' = [type |-> change.type, action |-> "replace", facts |-> change.facts,
                   respelled |-> change.respelled]
          /\ change.action = "update"
    BY <1>3 DEF ForceReplacement, Classify, ChangeInv
  <2>2. verdicts' = Verdict(change')
    BY <1>3 DEF ForceReplacement, Classify
  <2>3. "replace" \in Recorded
    BY DEF Recorded, Actions
  <2> QED BY <2>1, <2>2, <2>3, Zenon DEF ChangeInv, Revised, Worsens
<1>4. ASSUME NEW fact \in FactsFor[change.type], Respell(fact)
      PROVE  ChangeInv' /\ Revised
  <2>1. change' = [type |-> change.type, action |-> change.action, facts |-> change.facts,
                   respelled |-> change.respelled \union {fact}]
    BY <1>4 DEF Respell, Classify, ChangeInv
  <2>2. verdicts' = Verdict(change') /\ fact \in Compared
    BY <1>4 DEF Respell, Classify
  <2> QED BY <1>4, <2>1, <2>2, Zenon DEF ChangeInv, Revised, Worsens
<1> QED BY <1>1, <1>2, <1>3, <1>4 DEF Next

LEMMA InputsStep ==
    ASSUME ChangeInv, [InputsNext]_inputs
    PROVE  ChangeInv' /\ (vars' = vars \/ Revised)
<1>1. CASE UNCHANGED vars
  <2>1. change' = change /\ verdicts' = verdicts
    BY <1>1 DEF vars
  <2> QED BY <1>1, <2>1 DEF ChangeInv
<1>2. CASE Next
  BY <1>2, RevisionStep
<1> QED BY <1>1, <1>2 DEF InputsNext, inputs

\* The verdicts are always those of the change as it stands, whatever was learnt of
\* it and in whatever order: the classifiers keep nothing (plan.py 276-330).
THEOREM VerdictsAreThoseOfTheChange == InputsSpec => []ChangeInv
<1>1. ChangeInv /\ [InputsNext]_inputs => ChangeInv'
  BY InputsStep
<1> QED BY <1>1, InputsStart, PTL DEF InputsSpec

LEMMA EscalationStep ==
    ASSUME ChangeInv, [InputsNext]_inputs
    PROVE  [Worse => /\ Rank(verdicts'.python) >= Rank(verdicts.python)
                     /\ Rank(verdicts'.browser) >= Rank(verdicts.browser)]_vars
<1>1. CASE vars' = vars
  BY <1>1
<1>2. CASE Revised /\ Worse
  <2>1. /\ verdicts.python = PythonRisk(change.type, PythonReads(change.action), change.facts)
        /\ verdicts.browser = BrowserRisk(change.type, BrowserReads(change.action),
                                          SeenByBrowser(change))
    BY DEF ChangeInv, Verdict
  <2>2. /\ verdicts'.python = PythonRisk(change'.type, PythonReads(change'.action), change'.facts)
        /\ verdicts'.browser = BrowserRisk(change'.type, BrowserReads(change'.action),
                                           SeenByBrowser(change'))
    BY <1>2 DEF Revised, Verdict
  <2>3. /\ change'.type = change.type /\ change.type \in Types
        /\ Worsens(PythonReads(change.action), PythonReads(change'.action))
        /\ Worsens(BrowserReads(change.action), BrowserReads(change'.action))
        /\ change.facts \subseteq change'.facts
        /\ SeenByBrowser(change) \subseteq SeenByBrowser(change')
    BY <1>2, Reads DEF Revised, ChangeInv, Worse, SeenByBrowser
  <2>4. /\ Rank(verdicts.python) <= Rank(verdicts'.python)
        /\ Rank(verdicts.browser) <= Rank(verdicts'.browser)
    BY <2>1, <2>2, <2>3, PythonWorsens, BrowserWorsens
  <2> QED BY <2>4, Ranks
<1>3. CASE ~Worse
  BY <1>3
<1> QED BY <1>1, <1>2, <1>3, InputsStep

\* A change that gets worse never looks better to either classifier, whatever the
\* rules test and in whatever order: for every type of the tables, for any number
\* of facts together, and for a replacement instead of an update (plan.py 276-330,
\* classifier.js 746-799).
THEOREM EscalationIsNeverLowered == InputsSpec => EscalationNeverLowers
<1>1. ChangeInv /\ [InputsNext]_inputs
        => [Worse => /\ Rank(verdicts'.python) >= Rank(verdicts.python)
                     /\ Rank(verdicts'.browser) >= Rank(verdicts.browser)]_vars
  BY EscalationStep
<1> QED BY <1>1, VerdictsAreThoseOfTheChange, PTL DEF InputsSpec, EscalationNeverLowers

-----------------------------------------------------------------------------
(* The two copies of the rules                                             *)

LEMMA MirrorsFind ==
    ASSUME NEW r, NEW b, Mirrors(r, b), NEW a, NEW facts
    PROVE  /\ facts \intersect BrowserBlind = {}
                => Results(r, a, facts) \subseteq Results(b, a, facts)
           /\ Results(b, a, facts) \subseteq Results(r, a, facts)
<1>1. r.ladder = b.ladder
  BY DEF Mirrors
<1>2. ASSUME facts \intersect BrowserBlind = {}, NEW risk, Triggered(r, a, facts, risk)
      PROVE  Triggered(b, a, facts, risk)
  <2>1. PICK f \in r.finds : a \in f.on /\ f.facts \intersect facts # {} /\ f.risk = risk
    BY <1>2 DEF Triggered
  <2>2. PICK g \in b.finds : f.on = g.on /\ f.risk = g.risk
                               /\ f.facts \subseteq g.facts \union BrowserBlind
    BY DEF Mirrors
  <2>3. g.facts \intersect facts # {}
    BY <1>2, <2>1, <2>2
  <2> QED BY <2>1, <2>2, <2>3 DEF Triggered
<1>3. ASSUME NEW risk, Triggered(b, a, facts, risk)
      PROVE  Triggered(r, a, facts, risk)
  <2>1. PICK g \in b.finds : a \in g.on /\ g.facts \intersect facts # {} /\ g.risk = risk
    BY <1>3 DEF Triggered
  <2>2. PICK f \in r.finds : f.on = g.on /\ f.risk = g.risk
                               /\ g.facts \subseteq f.facts
    BY DEF Mirrors
  <2>3. f.facts \intersect facts # {}
    BY <1>3, <2>1, <2>2
  <2> QED BY <2>1, <2>2, <2>3 DEF Triggered
<1> QED BY <1>1, <1>2, <1>3, ResultIs

\* What the analyzer finds of a type that the browser knows, the browser finds.
LEMMA AuditedResults ==
    ASSUME NEW t \in Types, t \in AuditedTypes, NEW a, NEW facts
    PROVE  /\ facts \intersect BrowserBlind = {}
                => ResultsOf(PythonRules[t], a, facts) \subseteq ResultsOf(BrowserByType[t], a, facts)
           /\ ResultsOf(BrowserByType[t], a, facts) \subseteq ResultsOf(PythonRules[t], a, facts)
<1>1. ASSUME NEW r \in PythonRules[t]
      PROVE  \E b \in BrowserByType[t] : Mirrors(r, b)
  BY <1>1, PythonRuleIsSound, BrowserRulesOf DEF Sound
<1>2. ASSUME NEW b \in BrowserByType[t]
      PROVE  \E r \in PythonRules[t] : Mirrors(r, b)
  BY <1>2, BrowserRulesOf, PythonRulesOf, BrowserIsCovered DEF OriginatedTable, Originated
<1>3. ASSUME facts \intersect BrowserBlind = {}, NEW risk \in ResultsOf(PythonRules[t], a, facts)
      PROVE  risk \in ResultsOf(BrowserByType[t], a, facts)
  <2>1. PICK r \in PythonRules[t] : risk \in Results(r, a, facts)
    BY DEF ResultsOf
  <2>2. PICK b \in BrowserByType[t] : Mirrors(r, b)
    BY <1>1
  <2> QED BY <1>3, <2>1, <2>2, MirrorsFind DEF ResultsOf
<1>4. ASSUME NEW risk \in ResultsOf(BrowserByType[t], a, facts)
      PROVE  risk \in ResultsOf(PythonRules[t], a, facts)
  <2>1. PICK b \in BrowserByType[t] : risk \in Results(b, a, facts)
    BY DEF ResultsOf
  <2>2. PICK r \in PythonRules[t] : Mirrors(r, b)
    BY <1>2
  <2> QED BY <1>4, <2>1, <2>2, MirrorsFind DEF ResultsOf
<1> QED BY <1>3, <1>4

\* Of the types that the browser knows, no rule looks for something missing.
LEMMA NothingIsMissing ==
    ASSUME NEW t \in Types, t \in AuditedTypes
    PROVE  Bare(t) = {}
<1>1. \A r \in PythonRules[t] \union BrowserByType[t] : Unmissed(r)
  BY PythonRuleIsSound, BrowserRuleIsSound DEF Sound
<1>2. \A r \in PythonRules[t] \union BrowserByType[t] : FactsOf(r) \intersect AbsenceFacts = {}
  BY <1>1 DEF Unmissed, PresentFind, FactsOf
<1>3. FactsFor[t] = UNION {FactsOf(r) : r \in PythonRules[t] \union BrowserByType[t]}
  BY DEF FactsFor
<1> QED BY <1>2, <1>3 DEF Bare

LEMMA BrowserKnows ==
    ASSUME NEW t, t \in AuditedTypes, NEW a, NEW facts
    PROVE  BrowserRisk(t, a, facts) =
               Highest({BaselineRisk(a)} \union ResultsOf(BrowserByType[t], a, facts)
                         \union GeneratedRiskFloor(t, a))
BY DEF BrowserRisk, RuleCandidates, ResultsOf

\* For a type with rules in the browser.
LEMMA AuditedNotLower ==
    ASSUME NEW t \in Types, t \in AuditedTypes, NEW a, NEW facts,
           facts \intersect BrowserBlind = {}
    PROVE  Rank(PythonRisk(t, a, facts)) <= Rank(BrowserRisk(t, a, facts))
<1> DEFINE S == {BaselineRisk(a)} \union ResultsOf(PythonRules[t], a, facts)
           T == {BaselineRisk(a)} \union ResultsOf(BrowserByType[t], a, facts)
                  \union GeneratedRiskFloor(t, a)
<1>1. PythonRisk(t, a, facts) = Highest(S) /\ BrowserRisk(t, a, facts) = Highest(T)
  BY BrowserKnows DEF PythonRisk, ResultsOf
<1>2. S \subseteq T /\ S # {}
  BY AuditedResults
<1> HIDE DEF S, T
<1> QED BY <1>1, <1>2, HighestOfMore

\* For a type without: the floor has what the ladders say, and whatever else is
\* found is not worse than dangerous.
LEMMA UnknownNotLower ==
    ASSUME NEW t \in RegisteredTypes, t \notin AuditedTypes, NEW a \in Canonical, NEW facts
    PROVE  Rank(PythonRisk(t, a, facts)) <= Rank(BrowserRisk(t, a, facts))
<1> DEFINE S == {BaselineRisk(a)} \union ResultsOf(PythonRules[t], a, facts)
           T == {BaselineRisk(a)} \union RuleCandidates(t, a, facts) \union GeneratedRiskFloor(t, a)
<1>1. PythonRisk(t, a, facts) = Highest(S) /\ BrowserRisk(t, a, facts) = Highest(T)
  BY DEF PythonRisk, BrowserRisk, ResultsOf
<1>2. t \in Types /\ a \in Actions /\ PythonRisk(t, a, Bare(t)) \in T
  BY Registrations, FloorIs DEF Canonical, Actions
<1>3. t \notin BaselineOnly
  <2>1. PICK r \in Rows(Registered) : t \in r.types
    BY TypesOfRows DEF RegisteredTypes
  <2> QED BY <2>1, PythonTablesAreSound, RuleLessAre DEF SoundTable, Sound
<1>4. ASSUME NEW risk \in ResultsOf(PythonRules[t], a, facts)
      PROVE  \E x \in T : Rank(risk) <= Rank(x)
  <2>1. PICK r \in PythonRules[t] : risk \in Results(r, a, facts)
    BY DEF ResultsOf
  <2>2. Proper(r) /\ Harmless(r)
    BY <1>2, PythonRuleIsSound, TypesOfRows DEF Sound, AuditedTypes
  <2>3. risk \in Risks
    BY <1>2, <2>1, <2>2, ResultsAreRisks
  <2>4. CASE risk # "irreversible" /\ a # "delete"
    <3>1. "dangerous" \in T
      BY <1>3, <2>4 DEF RuleCandidates, UnsupportedResults, Canonical
    <3>2. Rank(risk) <= Rank("dangerous")
      BY <2>3, <2>4, Ranks DEF Risks
    <3> QED BY <3>1, <3>2
  <2>5. CASE a = "delete"
    <3>1. Rank(risk) <= Rank(BaselineRisk(a))
      BY <2>5, BaselineRisks, Ranks
    <3> QED BY <3>1
  <2>6. CASE risk = "irreversible"
    <3>1. risk \in Results(r, a, Bare(t))
      BY <2>1, <2>2, <2>6, ResultIs DEF Harmless, HarmlessFind, Triggered
    <3> DEFINE B == {BaselineRisk(a)} \union ResultsOf(PythonRules[t], a, Bare(t))
    <3>2. risk \in B /\ PythonRisk(t, a, Bare(t)) = Highest(B)
      BY <3>1 DEF ResultsOf, PythonRisk
    <3> HIDE DEF B
    <3>3. Rank(risk) <= Rank(PythonRisk(t, a, Bare(t)))
      BY <3>2, HighestIs
    <3> QED BY <1>2, <3>3
  <2> QED BY <2>4, <2>5, <2>6
<1>5. Rank(BaselineRisk(a)) <= Rank(BaselineRisk(a))
  BY Ranks
<1>6. S # {} /\ \A s \in S : \E x \in T : Rank(s) <= Rank(x)
  BY <1>4, <1>5
<1> HIDE DEF S, T
<1> QED BY <1>1, <1>6, HighestGrows

\* What is respelled is nothing the browser is blind for.
LEMMA RespelledIsSeen ==
    ASSUME ChangeInv, change.facts \intersect BrowserBlind = {}
    PROVE  SeenByBrowser(change) \intersect BrowserBlind = {}
BY DEF ChangeInv, SeenByBrowser, BrowserBlind, Compared

\* More is found among what the browser sees than among the facts.
LEMMA PythonOfSeen ==
    ASSUME NEW t \in Types, NEW a
    PROVE  Rank(PythonRisk(t, a, change.facts)) <= Rank(PythonRisk(t, a, SeenByBrowser(change)))
<1>1. change.facts \subseteq SeenByBrowser(change) /\ Worsens(a, a)
  BY DEF SeenByBrowser, Worsens
<1> QED BY <1>1, PythonWorsens

LEMMA NotLowerFollows == ChangeInv => BrowserNotLower
<1> SUFFICES ASSUME ChangeInv, change.action \in Canonical,
                    change.type \in RegisteredTypes \union AuditedTypes,
                    change.facts \intersect BrowserBlind = {}
             PROVE  Rank(verdicts.browser) >= Rank(verdicts.python)
  BY DEF BrowserNotLower
<1>1. change.type \in Types /\ PythonReads(change.action) = change.action
        /\ BrowserReads(change.action) = change.action
  BY DEF ChangeInv, Canonical, PythonReads, BrowserReads
<1> DEFINE t == change.type
           a == change.action
           seen == SeenByBrowser(change)
<1>2. /\ verdicts.python = PythonRisk(t, a, change.facts)
      /\ verdicts.browser = BrowserRisk(t, a, seen)
  BY <1>1 DEF ChangeInv, Verdict
<1>3. Rank(PythonRisk(t, a, change.facts)) <= Rank(PythonRisk(t, a, seen))
  BY <1>1, PythonOfSeen
<1>4. Rank(PythonRisk(t, a, seen)) <= Rank(BrowserRisk(t, a, seen))
  BY <1>1, RespelledIsSeen, AuditedNotLower, UnknownNotLower
<1>5. \A l, m, n \in {0, 1, 2, 3} : l <= m /\ m <= n => n >= l
  OBVIOUS
<1> QED BY <1>2, <1>3, <1>4, <1>5, Ranks

\* The playground never shows a lower risk than the analyzer, for every registered
\* type and whatever facts meet, the one runtime list apart that the browser has an
\* older copy of (classifier.js 1-14, 746-799).
THEOREM BrowserIsNeverLower == InputsSpec => []BrowserNotLower
BY VerdictsAreThoseOfTheChange, NotLowerFollows, PTL

LEMMA AuditedVerdicts ==
    ASSUME NEW t \in Types, t \in AuditedTypes, NEW a \in Actions, NEW facts,
           facts \intersect BrowserBlind = {}
    PROVE  BrowserRisk(t, a, facts) = PythonRisk(t, a, facts)
<1> DEFINE S == {BaselineRisk(a)} \union ResultsOf(PythonRules[t], a, facts)
           T == {BaselineRisk(a)} \union ResultsOf(BrowserByType[t], a, facts)
                  \union GeneratedRiskFloor(t, a)
<1>1. PythonRisk(t, a, facts) = Highest(S) /\ BrowserRisk(t, a, facts) = Highest(T)
  BY BrowserKnows DEF PythonRisk, ResultsOf
<1>2. S # {} /\ T # {}
  OBVIOUS
<1>3. S \subseteq Risks
  BY PythonRuleIsSound, ResultsAreRisks, BaselineRisks DEF ResultsOf
<1>4. \A x \in GeneratedRiskFloor(t, a) : x \in Risks /\ Rank(x) <= Rank(Highest(S))
  <2>1. ASSUME NEW x \in GeneratedRiskFloor(t, a)
        PROVE  x = PythonRisk(t, a, {})
    BY FloorIs, NothingIsMissing
  <2>2. PythonRisk(t, a, {}) \in Risks
    BY PythonRisks
  <2>3. Rank(PythonRisk(t, a, {})) <= Rank(PythonRisk(t, a, facts))
    BY PythonWorsens DEF Worsens
  <2> QED BY <1>1, <2>1, <2>2, <2>3
<1>5. \A x \in S : Rank(x) <= Rank(Highest(S))
  BY <1>2, HighestIs
<1>6. \A x \in T : x \in Risks /\ Rank(x) <= Rank(Highest(S))
  <2>1. ResultsOf(BrowserByType[t], a, facts) \subseteq ResultsOf(PythonRules[t], a, facts)
    BY AuditedResults
  <2> QED BY <1>3, <1>4, <1>5, <2>1
<1>7. Rank(PythonRisk(t, a, facts)) <= Rank(BrowserRisk(t, a, facts))
  BY AuditedNotLower
<1>8. Highest(S) \in Risks /\ Highest(T) \in T
  BY <1>2, <1>3, HighestIs
<1> HIDE DEF S, T
<1> QED BY <1>1, <1>6, <1>7, <1>8, Ranks

LEMMA AgreementFollows == ChangeInv => AuditedAgree
<1> SUFFICES ASSUME ChangeInv, change.type \in AuditedTypes, change.action # "missing",
                    change.facts \intersect BrowserBlind = {}
             PROVE  /\ change.respelled = {} => verdicts.browser = verdicts.python
                    /\ verdicts.browser
                         = PythonRisk(change.type, change.action,
                                      change.facts \union change.respelled)
  BY DEF AuditedAgree
<1>1. change.type \in Types /\ change.action \in Actions
        /\ PythonReads(change.action) = change.action
        /\ BrowserReads(change.action) = change.action
  BY DEF ChangeInv, Recorded, PythonReads, BrowserReads
<1>2. /\ verdicts.python = PythonRisk(change.type, change.action, change.facts)
      /\ verdicts.browser = BrowserRisk(change.type, change.action, SeenByBrowser(change))
  BY <1>1 DEF ChangeInv, Verdict
<1>3. verdicts.browser = PythonRisk(change.type, change.action, SeenByBrowser(change))
  BY <1>1, <1>2, RespelledIsSeen, AuditedVerdicts
<1>4. change.respelled = {} => SeenByBrowser(change) = change.facts
  BY DEF SeenByBrowser
<1> QED BY <1>2, <1>3, <1>4 DEF SeenByBrowser

\* For the types that the browser has rules for, the two copies agree on every action
\* and whatever facts meet, as long as the attributes they compare are written alike;
\* one that is only respelled has the browser say what the analyzer says of a change
\* of it, and no more (classifier.js 103-120, 188-651, rules/_shared.py 293-298).
THEOREM AuditedTypesAgree == InputsSpec => []AuditedAgree
BY VerdictsAreThoseOfTheChange, AgreementFollows, PTL

-----------------------------------------------------------------------------
(* Planning tools                                                          *)

\* What each tool calls an action means that action, and the risk it starts with.
Meaning(means, a) == means = [action |-> a, risk |-> BaselineRisk(a)]

LEMMA CloudFormationMeansIt ==
    ASSUME NEW a \in DOMAIN Does, NEW op \in Does[a].cfn
    PROVE  Meaning(CloudFormationMeans(op), a)
<1>1. /\ a = "create" => op = "Add"
      /\ a = "update" => op = "Modify" \/ op = "Conditional"
      /\ a = "replace" => op = "Replace"
      /\ a = "delete" => op = "Remove"
      /\ a # "read"
      /\ a = "unknown" => op = "Dynamic"
  BY DEF Does, TemplateDiffOperation
<1>2. a \in {"create", "update", "replace", "delete", "read", "unknown"}
  BY DEF Does
<1> QED BY <1>1, <1>2, BaselineRisks DEF Meaning, CloudFormationMeans, Means

LEMMA PulumiMeansIt ==
    ASSUME NEW a \in DOMAIN Does, NEW op \in Does[a].pulumi
    PROVE  Meaning(PulumiMeans(op), a)
<1>1. /\ a = "create" => op = "create"
      /\ a = "update" => op \in {"update", "diff"}
      /\ a = "replace" => op \in {"replace", "create-replacement", "delete-replaced"}
      /\ a = "delete" => op = "delete"
      /\ a = "read" => op \in {"read", "same"}
      /\ a = "unknown" => op = "unknown"
  BY DEF Does
<1>2. a \in {"create", "update", "replace", "delete", "read", "unknown"}
  BY DEF Does
<1> QED BY <1>1, <1>2, BaselineRisks
        DEF Meaning, PulumiMeans, Means, PulumiReplacementOps, PulumiSafeOps, PulumiReviewOps

LEMMA AzureMeansIt ==
    ASSUME NEW a \in DOMAIN Does, NEW op \in Does[a].azure, NEW potential \in BOOLEAN
    PROVE  AzureMeans(op, potential) = [action |-> a, risk |-> AzureRisk(BaselineRisk(a), potential)]
<1>1. /\ a = "create" => op = "create"
      /\ a = "update" => op \in {"modify", "deploy"}
      /\ a # "replace"
      /\ a = "delete" => op = "delete"
      /\ a = "read" => op = "nochange"
      /\ a = "unknown" => op = "unsupported"
  BY DEF Does
<1>2. a \in {"create", "update", "replace", "delete", "read", "unknown"}
  BY DEF Does
<1> QED BY <1>1, <1>2, BaselineRisks DEF AzureMeans, Means

LEMMA AnalysisIsPython ==
    ASSUME NEW a, NEW means, Meaning(means, a), NEW t, NEW facts
    PROVE  Analyze(means, t, facts) = PythonRisk(t, a, facts)
BY DEF Analyze, PythonRisk, Meaning

\* What is only potential is not better, and never safe.
LEMMA PotentialIsNotSafe ==
    ASSUME NEW a, BaselineRisk(a) \in Risks, NEW t, NEW facts
    PROVE  LET certain == Analyze([action |-> a, risk |-> AzureRisk(BaselineRisk(a), FALSE)], t, facts)
               potential == Analyze([action |-> a, risk |-> AzureRisk(BaselineRisk(a), TRUE)], t, facts)
           IN /\ certain = PythonRisk(t, a, facts)
              /\ Rank(potential) >= Rank(certain)
              /\ potential # "safe"
<1> DEFINE U == ResultsOf(PythonRules[t], a, facts)
           S == {AzureRisk(BaselineRisk(a), FALSE)} \union U
           T == {AzureRisk(BaselineRisk(a), TRUE)} \union U
           certain == Analyze([action |-> a, risk |-> AzureRisk(BaselineRisk(a), FALSE)], t, facts)
           potential == Analyze([action |-> a, risk |-> AzureRisk(BaselineRisk(a), TRUE)], t, facts)
<1>1. certain = Highest(S) /\ potential = Highest(T)
  BY DEF Analyze, ResultsOf
<1>2. AzureRisk(BaselineRisk(a), FALSE) = BaselineRisk(a)
  BY DEF AzureRisk
<1>3. certain = PythonRisk(t, a, facts)
  <2>1. Meaning([action |-> a, risk |-> AzureRisk(BaselineRisk(a), FALSE)], a)
    BY <1>2 DEF Meaning
  <2> QED BY <2>1, AnalysisIsPython
<1>4. /\ Rank(BaselineRisk(a)) <= Rank(AzureRisk(BaselineRisk(a), TRUE))
      /\ Rank(AzureRisk(BaselineRisk(a), TRUE)) >= 1
  BY Ranks DEF AzureRisk, Risks
<1>5. S # {} /\ \A s \in S : \E x \in T : Rank(s) <= Rank(x)
  <2>1. \A s \in U : Rank(s) <= Rank(s)
    BY Ranks
  <2> HIDE DEF U
  <2> QED BY <1>2, <1>4, <2>1
<1>6. Rank(AzureRisk(BaselineRisk(a), TRUE)) <= Rank(Highest(T))
  BY HighestIs
<1> HIDE DEF S, T
<1>7. Rank(Highest(S)) <= Rank(Highest(T))
  BY <1>5, HighestGrows
<1>8. Rank(Highest(T)) >= 1
  <2>1. \A m, n \in {0, 1, 2, 3} : m >= 1 /\ m <= n => n >= 1
    OBVIOUS
  <2>2. Rank(AzureRisk(BaselineRisk(a), TRUE)) \in {0, 1, 2, 3} /\ Rank(Highest(T)) \in {0, 1, 2, 3}
    BY Ranks
  <2> QED BY <1>4, <1>6, <2>1, <2>2
<1>9. Highest(T) # "safe"
  BY <1>8, Ranks
<1> HIDE DEF certain, potential
<1>10. Rank(potential) >= Rank(certain) /\ potential # "safe"
  BY <1>1, <1>7, <1>9, Ranks
<1> QED BY <1>3, <1>10 DEF certain, potential

LEMMA DoesIsKnown == DOMAIN Does \subseteq Actions
BY DEF Does, Actions

\* Whatever a tool shows of a change, the rules make of it what they make of a plan.
LEMMA PlannersAgreeAlways == PlannersAgree
<1> DEFINE a == change.action
           t == change.type
           facts == change.facts
           JudgedOn(shown) == PythonRisk(t, a, shown)
           ofAzure == {"azurerm_storage_account", "azurerm_role_assignment",
                       "azurerm_network_security_group"}
<1> SUFFICES ASSUME a \in DOMAIN Does
             PROVE  /\ t \in CloudFormationTypes => \A op \in Does[a].cfn :
                         CloudFormationVerdict(op, t, facts) = JudgedOn({})
                    /\ t \in PulumiTypes => \A op \in Does[a].pulumi :
                         PulumiVerdict(op, t, facts)
                           = JudgedOn(IF t \in ofAzure THEN {} ELSE facts)
                    /\ t \in AzureTypes => \A op \in Does[a].azure :
                         /\ AzureVerdict(op, FALSE, t, facts)
                              = JudgedOn(IF op = "deploy" THEN {} ELSE facts)
                         /\ Rank(AzureVerdict(op, TRUE, t, facts))
                              >= Rank(AzureVerdict(op, FALSE, t, facts))
                         /\ AzureVerdict(op, TRUE, t, facts) # "safe"
  BY DEF PlannersAgree
<1>1. ASSUME NEW op \in Does[a].cfn
      PROVE  CloudFormationVerdict(op, t, facts) = JudgedOn({})
  BY <1>1, CloudFormationMeansIt, AnalysisIsPython DEF CloudFormationVerdict, CloudFormationSees
<1>2. ASSUME t \in PulumiTypes, NEW op \in Does[a].pulumi
      PROVE  PulumiVerdict(op, t, facts) = JudgedOn(IF t \in ofAzure THEN {} ELSE facts)
  <2>1. t \in ReadUnderProperties <=> t \in ofAzure
    BY <1>2 DEF PulumiTypes, PulumiTokens, ReadUnderProperties
  <2>2. PulumiSees(t, facts) = IF t \in ofAzure THEN {} ELSE facts
    BY <2>1 DEF PulumiSees
  <2> QED BY <1>2, <2>2, PulumiMeansIt, AnalysisIsPython DEF PulumiVerdict
<1>3. BaselineRisk(a) \in Risks
  BY DoesIsKnown, BaselineRisks
<1>4. ASSUME NEW op \in Does[a].azure
      PROVE  /\ AzureVerdict(op, FALSE, t, facts) = JudgedOn(IF op = "deploy" THEN {} ELSE facts)
             /\ Rank(AzureVerdict(op, TRUE, t, facts)) >= Rank(AzureVerdict(op, FALSE, t, facts))
             /\ AzureVerdict(op, TRUE, t, facts) # "safe"
  <2>1. /\ AzureMeans(op, FALSE) = [action |-> a, risk |-> AzureRisk(BaselineRisk(a), FALSE)]
        /\ AzureMeans(op, TRUE) = [action |-> a, risk |-> AzureRisk(BaselineRisk(a), TRUE)]
    BY <1>4, AzureMeansIt
  <2>2. AzureSees(op, t, facts) = IF op = "deploy" THEN {} ELSE facts
    BY DEF AzureSees, WithPayload
  <2> QED BY <1>3, <2>1, <2>2, PotentialIsNotSafe DEF AzureVerdict
<1> QED BY <1>1, <1>2, <1>4

\* The same operation is judged as a plan's, with all that its attributes show, by
\* whatever tool reports it, for every type that the adapters translate and any number
\* of findings; but as if nothing showed for CloudFormation, for Azure's types from
\* Pulumi, and for what Azure only says to deploy.  What is only potential is never safe
\* (adapters/base.py 34-77, azure.py 54-73, pulumi.py 87-141).
THEOREM PlannersAlwaysAgree == InputsSpec => []PlannersAgree
BY PlannersAgreeAlways, PTL

-----------------------------------------------------------------------------
(* States                                                                  *)

Instances ==
    [marks : Schemas, values : SUBSET Leaves, posture : SUBSET Postures,
     tainted : BOOLEAN, deposed : BOOLEAN]

StateWith(used, instances, paths, outputs, check, steps) ==
    [used |-> used, instances |-> instances, paths |-> paths, outputs |-> outputs,
     check |-> check, steps |-> steps]

IsState(s) ==
    /\ s = StateWith(s.used, s.instances, s.paths, s.outputs, s.check, s.steps)
    /\ s.instances \in Seq(Instances)
    /\ s.paths \in PathForms

\* What is deposed is beside the instance that took its place.
StateInv ==
    /\ IsState(state)
    /\ Len(state.instances) \in 0..2
    /\ \A k \in DOMAIN state.instances : state.instances[k].deposed => Len(state.instances) = 2

LEMMA StateRecord ==
    ASSUME NEW used, NEW instances \in Seq(Instances), NEW paths \in PathForms,
           NEW outputs, NEW check, NEW steps
    PROVE  /\ IsState(StateWith(used, instances, paths, outputs, check, steps))
           /\ StateWith(used, instances, paths, outputs, check, steps).instances = instances
BY DEF IsState, StateWith

\* A step revises one part of the state and counts itself.
LEMMA StateRevisions ==
    ASSUME NEW s, IsState(s), NEW t, NEW new
    PROVE  /\ /\ t = [s EXCEPT !.instances = new] /\ new \in Seq(Instances)
              /\ state' = [t EXCEPT !.steps = @ + 1]
              => IsState(state') /\ state'.instances = new
           /\ /\ t = [s EXCEPT !.outputs = new] \/ t = [s EXCEPT !.check = new]
              /\ state' = [t EXCEPT !.steps = @ + 1]
              => IsState(state') /\ state'.instances = s.instances
<1>1. /\ s = StateWith(s.used, s.instances, s.paths, s.outputs, s.check, s.steps)
      /\ s.instances \in Seq(Instances)
      /\ s.paths \in PathForms
  BY DEF IsState
<1>2. ASSUME t = [s EXCEPT !.instances = new], new \in Seq(Instances),
             state' = [t EXCEPT !.steps = @ + 1]
      PROVE  IsState(state') /\ state'.instances = new
  <2>1. t = StateWith(s.used, new, s.paths, s.outputs, s.check, s.steps)
    BY <1>1, <1>2 DEF StateWith
  <2>2. state' = StateWith(s.used, new, s.paths, s.outputs, s.check, t.steps + 1)
    BY <1>2, <2>1 DEF StateWith
  <2> QED BY <1>1, <1>2, <2>2, StateRecord
<1>3. ASSUME t = [s EXCEPT !.outputs = new], state' = [t EXCEPT !.steps = @ + 1]
      PROVE  IsState(state') /\ state'.instances = s.instances
  <2>1. t = StateWith(s.used, s.instances, s.paths, new, s.check, s.steps)
    BY <1>1, <1>3 DEF StateWith
  <2>2. state' = StateWith(s.used, s.instances, s.paths, new, s.check, t.steps + 1)
    BY <1>3, <2>1 DEF StateWith
  <2> QED BY <1>1, <2>2, StateRecord
<1>4. ASSUME t = [s EXCEPT !.check = new], state' = [t EXCEPT !.steps = @ + 1]
      PROVE  IsState(state') /\ state'.instances = s.instances
  <2>1. t = StateWith(s.used, s.instances, s.paths, s.outputs, new, s.steps)
    BY <1>1, <1>4 DEF StateWith
  <2>2. state' = StateWith(s.used, s.instances, s.paths, s.outputs, new, t.steps + 1)
    BY <1>4, <2>1 DEF StateWith
  <2> QED BY <1>1, <2>2, StateRecord
<1> QED BY <1>2, <1>3, <1>4

LEMMA NoStateIsAState == state = NoState => StateInv
<1> SUFFICES ASSUME state = NoState PROVE StateInv
  OBVIOUS
<1>1. /\ state.instances = <<>> /\ IsState(state)
  BY DEF NoState, IsState, StateWith, PathForms
<1> QED BY <1>1 DEF StateInv

LEMMA FreshIsAnInstance ==
    ASSUME NEW m \in Schemas, NEW v \in SUBSET Leaves
    PROVE  Fresh(m, v) \in Instances /\ Fresh(m, v).deposed = FALSE
BY DEF Fresh, Instances

LEMMA StateStart == StateInit => StateInv
<1> SUFFICES ASSUME NEW m \in Schemas, NEW v \in SUBSET Leaves, NEW p \in PathForms,
                    state = [NoState EXCEPT !.used = TRUE, !.instances = <<Fresh(m, v)>>,
                                            !.paths = p]
             PROVE  StateInv
  BY DEF StateInit
<1> DEFINE i == Fresh(m, v)
<1>1. i \in Instances /\ i.deposed = FALSE
  BY FreshIsAnInstance
<1> HIDE DEF i
<1>2. state = StateWith(TRUE, <<i>>, p, {}, "pass", 0)
  BY DEF NoState, StateWith, i
<1>3. /\ <<i>> \in Seq(Instances) /\ Len(<<i>>) = 1
      /\ \A k \in DOMAIN <<i>> : <<i>>[k] = i
  BY <1>1
<1>4. IsState(state) /\ state.instances = <<i>>
  <2>1. /\ IsState(StateWith(TRUE, <<i>>, p, {}, "pass", 0))
        /\ StateWith(TRUE, <<i>>, p, {}, "pass", 0).instances = <<i>>
    BY <1>3 DEF IsState, StateWith
  <2> QED BY <1>2, <2>1, Zenon
<1> QED BY <1>1, <1>3, <1>4 DEF StateInv

\* A step of the state that changes one instance.
LEMMA InstanceStep ==
    ASSUME StateInv, NEW k \in DOMAIN state.instances, NEW i \in Instances,
           i.deposed = state.instances[k].deposed,
           state'.instances = [state.instances EXCEPT ![k] = i],
           IsState(state')
    PROVE  StateInv'
<1>1. state.instances \in Seq(Instances)
  BY DEF StateInv, IsState
<1>2. /\ DOMAIN state'.instances = DOMAIN state.instances
      /\ Len(state'.instances) = Len(state.instances)
      /\ \A j \in DOMAIN state.instances :
            state'.instances[j].deposed = state.instances[j].deposed
  BY <1>1
<1> QED BY <1>2 DEF StateInv

LEMMA StateSteps ==
    ASSUME StateInv, StateNext
    PROVE  StateInv'
<1> DEFINE s == state.instances
<1>1. IsState(state) /\ s \in Seq(Instances)
  BY DEF StateInv, IsState
<1>2. ASSUME Expose
      PROVE  StateInv'
  <2>1. PICK k \in DOMAIN s, w \in Postures :
            StateStep([state EXCEPT !.instances[k].posture = @ \union {w}])
    BY <1>2 DEF Expose
  <2> DEFINE i == [s[k] EXCEPT !.posture = @ \union {w}]
  <2>2. s[k] \in Instances
    BY <1>1
  <2>3. i \in Instances /\ i.deposed = s[k].deposed
    BY <2>2 DEF Instances
  <2>4. state' = [[state EXCEPT !.instances = [s EXCEPT ![k] = i]] EXCEPT !.steps = @ + 1]
    BY <2>1, <1>1 DEF StateStep
  <2> HIDE DEF i
  <2>5. [s EXCEPT ![k] = i] \in Seq(Instances)
    BY <1>1, <2>3
  <2>6. IsState(state') /\ state'.instances = [s EXCEPT ![k] = i]
    BY <1>1, <2>4, <2>5, StateRevisions
  <2> QED BY <2>3, <2>6, InstanceStep
<1>3. ASSUME Taint
      PROVE  StateInv'
  <2>1. PICK k \in DOMAIN s : StateStep([state EXCEPT !.instances[k].tainted = TRUE])
    BY <1>3 DEF Taint
  <2> DEFINE i == [s[k] EXCEPT !.tainted = TRUE]
  <2>2. s[k] \in Instances
    BY <1>1
  <2>3. i \in Instances /\ i.deposed = s[k].deposed
    BY <2>2 DEF Instances
  <2>4. state' = [[state EXCEPT !.instances = [s EXCEPT ![k] = i]] EXCEPT !.steps = @ + 1]
    BY <2>1, <1>1 DEF StateStep
  <2> HIDE DEF i
  <2>5. [s EXCEPT ![k] = i] \in Seq(Instances)
    BY <1>1, <2>3
  <2>6. IsState(state') /\ state'.instances = [s EXCEPT ![k] = i]
    BY <1>1, <2>4, <2>5, StateRevisions
  <2> QED BY <2>3, <2>6, InstanceStep
<1>4. ASSUME Depose
      PROVE  StateInv'
  <2> DEFINE i == Fresh(s[1].marks, s[1].values)
             j == [s[1] EXCEPT !.deposed = TRUE]
  <2>1. s[1] \in Instances
    BY <1>1, <1>4 DEF Depose
  <2>2. i \in Instances /\ j \in Instances
    BY <2>1, FreshIsAnInstance DEF Instances
  <2>3. state' = [[state EXCEPT !.instances = <<i, j>>] EXCEPT !.steps = @ + 1]
    BY <1>4 DEF Depose, StateStep
  <2> HIDE DEF i, j
  <2>4. <<i, j>> \in Seq(Instances) /\ Len(<<i, j>>) = 2
    BY <2>2
  <2>5. IsState(state') /\ state'.instances = <<i, j>>
    BY <1>1, <2>3, <2>4, StateRevisions
  <2> QED BY <2>4, <2>5 DEF StateInv
<1>5. ASSUME AddOutput \/ RunChecks
      PROVE  StateInv'
  <2>1. IsState(state') /\ state'.instances = s
    <3>1. CASE AddOutput
      <4>1. PICK secret \in BOOLEAN, sensitive \in BOOLEAN :
                StateStep([state EXCEPT !.outputs =
                             @ \union {[secret |-> secret, sensitive |-> sensitive]}])
        BY <3>1 DEF AddOutput
      <4> DEFINE more == state.outputs \union {[secret |-> secret, sensitive |-> sensitive]}
      <4>2. state' = [[state EXCEPT !.outputs = more] EXCEPT !.steps = @ + 1]
        BY <4>1 DEF StateStep
      <4> HIDE DEF more
      <4> QED BY <1>1, <4>2, StateRevisions
    <3>2. CASE RunChecks
      BY <1>1, <3>2, StateRevisions DEF RunChecks, StateStep
    <3> QED BY <1>5, <3>1, <3>2
  <2> QED BY <2>1 DEF StateInv
<1> QED BY <1>2, <1>3, <1>4, <1>5 DEF StateNext

LEMMA StateKept ==
    ASSUME StateInv, [InputsNext]_inputs
    PROVE  StateInv'
<1>1. CASE UNCHANGED state
  BY <1>1 DEF StateInv
<1>2. CASE StateNext
  BY <1>2, StateSteps
<1> QED BY <1>1, <1>2 DEF InputsNext, inputs

LEMMA StateStarts == InputsInit => StateInv
BY NoStateIsAState, StateStart DEF InputsInit, Terraform, NoSnapshot

\* A state has at most two instances, and one that is deposed is never alone: what took
\* its place is in the state beside it (terraform_state.py 364-580).
THEOREM StatesAreStates == InputsSpec => []StateInv
<1>1. StateInv /\ [InputsNext]_inputs => StateInv'
  BY StateKept
<1> QED BY <1>1, StateStarts, PTL DEF InputsSpec

\* Every finding is for a review, or dangerous; one that is decides.
Mild(findings) == \A f \in findings : f.risk \in {"review", "dangerous"}
Grave(findings) == \E f \in findings : f.risk = "dangerous"

LEMMA RiskOfFindings ==
    ASSUME NEW findings, findings # {}, Mild(findings)
    PROVE  RiskOf(findings) = IF Grave(findings) THEN "dangerous" ELSE "review"
<1> DEFINE S == {f.risk : f \in findings}
<1>1. /\ RiskOf(findings) = Highest(S) /\ S # {} /\ S \subseteq {"review", "dangerous"}
      /\ "dangerous" \in S <=> Grave(findings)
  BY DEF RiskOf, Grave, Mild
<1> HIDE DEF S
<1>2. CASE "dangerous" \in S
  BY <1>1, <1>2, HighestIsThe, Ranks DEF Risks
<1>3. CASE "dangerous" \notin S
  <2>1. S = {"review"}
    BY <1>1, <1>3
  <2> QED BY <1>1, <1>3, <2>1, HighestIsThe, Ranks DEF Risks
<1> QED BY <1>1, <1>2, <1>3

LEMMA FoundIs ==
    ASSUME NEW kind, NEW risk
    PROVE  Found(kind, risk).risk = risk
BY DEF Found

LEMMA OneFound ==
    ASSUME NEW kind
    PROVE  /\ Mild({Found(kind, "review")}) /\ Mild({Found(kind, "dangerous")})
           /\ ~Grave({Found(kind, "review")}) /\ Grave({Found(kind, "dangerous")})
BY FoundIs DEF Mild, Grave

LEMMA WhenIs ==
    ASSUME NEW condition, NEW findings, Mild(findings)
    PROVE  /\ Mild(When(condition, findings))
           /\ Grave(When(condition, findings)) <=> (condition /\ Grave(findings))
BY DEF When, Mild, Grave

LEMMA TogetherIs ==
    ASSUME NEW a, NEW b
    PROVE  /\ Mild(a \union b) <=> Mild(a) /\ Mild(b)
           /\ Grave(a \union b) <=> Grave(a) \/ Grave(b)
BY DEF Mild, Grave

\* One finding that is there on a condition: for a review, and dangerous.
LEMMA ReviewWhen ==
    ASSUME NEW condition, NEW kind
    PROVE  /\ Mild(When(condition, {Found(kind, "review")}))
           /\ ~Grave(When(condition, {Found(kind, "review")}))
BY OneFound, WhenIs

LEMMA DangerWhen ==
    ASSUME NEW condition, NEW kind
    PROVE  /\ Mild(When(condition, {Found(kind, "dangerous")}))
           /\ Grave(When(condition, {Found(kind, "dangerous")})) <=> condition
<1>1. Mild({Found(kind, "dangerous")}) /\ Grave({Found(kind, "dangerous")})
  BY OneFound
<1> QED BY <1>1, WhenIs

LEMMA InstanceIsFound ==
    ASSUME NEW i \in Instances
    PROVE  /\ Mild(InstanceFindings(i))
           /\ Grave(InstanceFindings(i))
                <=> {"public", "unencrypted"} \intersect i.posture # {} \/ UnmarkedSecrets(i) # {}
<1>1. \A w \in i.posture : w \in {"public", "unencrypted", "unprotected"}
  BY DEF Instances, Postures
<1>2. Mild(CurrentPosture(i))
  BY FoundIs DEF CurrentPosture, Mild
<1>3. Grave(CurrentPosture(i)) <=> {"public", "unencrypted"} \intersect i.posture # {}
  <2>1. ASSUME NEW w \in i.posture, w \in {"public", "unencrypted"}
        PROVE  Grave(CurrentPosture(i))
    <3>1. Found(w, "dangerous") \in CurrentPosture(i)
      BY <2>1 DEF CurrentPosture
    <3> QED BY <3>1, FoundIs DEF Grave
  <2>2. ASSUME NEW f \in CurrentPosture(i), f.risk = "dangerous"
        PROVE  {"public", "unencrypted"} \intersect i.posture # {}
    <3>1. PICK w \in i.posture : f = Found(w, IF w = "unprotected" THEN "review" ELSE "dangerous")
      BY DEF CurrentPosture
    <3>2. w # "unprotected"
      BY <2>2, <3>1, FoundIs
    <3> QED BY <1>1, <3>1, <3>2
  <2> QED BY <2>1, <2>2 DEF Grave
<1> DEFINE a == {Found("managed_resource", "review")}
           b == CurrentPosture(i)
           c == When(UnmarkedSecrets(i) # {}, {Found("unmarked_sensitive_attribute", "dangerous")})
           d == When(i.marks # {}, {Found("sensitive_attributes", "review")})
<1>4. Mild(a) /\ ~Grave(a)
  BY OneFound
<1>5. Mild(c) /\ (Grave(c) <=> UnmarkedSecrets(i) # {})
  BY DangerWhen
<1>6. Mild(d) /\ ~Grave(d)
  BY ReviewWhen
<1>7. InstanceFindings(i) = ((a \union b) \union c) \union d
  BY Zenon DEF InstanceFindings
<1> HIDE DEF a, b, c, d
<1>8. /\ Mild(((a \union b) \union c) \union d) <=> Mild(a) /\ Mild(b) /\ Mild(c) /\ Mild(d)
      /\ Grave(((a \union b) \union c) \union d) <=> Grave(a) \/ Grave(b) \/ Grave(c) \/ Grave(d)
  <2>1. /\ Mild(a \union b) <=> Mild(a) /\ Mild(b)
        /\ Grave(a \union b) <=> Grave(a) \/ Grave(b)
    BY TogetherIs
  <2>2. /\ Mild((a \union b) \union c) <=> Mild(a \union b) /\ Mild(c)
        /\ Grave((a \union b) \union c) <=> Grave(a \union b) \/ Grave(c)
    BY TogetherIs
  <2>3. /\ Mild(((a \union b) \union c) \union d) <=> Mild((a \union b) \union c) /\ Mild(d)
        /\ Grave(((a \union b) \union c) \union d) <=> Grave((a \union b) \union c) \/ Grave(d)
    BY TogetherIs
  <2> QED BY <2>1, <2>2, <2>3
<1>9. Mild(b) /\ (Grave(b) <=> {"public", "unencrypted"} \intersect i.posture # {})
  BY <1>2, <1>3 DEF b
<1> QED BY <1>4, <1>5, <1>6, <1>7, <1>8, <1>9

LEMMA OutputsAreFound ==
    ASSUME NEW s
    PROVE  Mild(OutputFindings(s))
<1> SUFFICES ASSUME NEW f \in OutputFindings(s)
             PROVE  f.risk \in {"review", "dangerous"}
  BY DEF Mild
<1> DEFINE kind(o) == IF o.sensitive THEN "sensitive_output" ELSE "output"
           bare(o) == When(o.secret /\ ~o.sensitive,
                           {Found("unmarked_sensitive_output", "dangerous")})
<1>1. PICK o \in s.outputs : f \in {Found(kind(o), "review")} \union bare(o)
  BY Zenon DEF OutputFindings
<1>2. CASE f = Found(kind(o), "review")
  BY <1>2, FoundIs
<1>3. CASE f \in bare(o)
  BY <1>3, DangerWhen DEF Mild
<1> QED BY <1>1, <1>2, <1>3

LEMMA CommonIsFound ==
    ASSUME NEW s, s.instances \in Seq(Instances)
    PROVE  /\ Mild(CommonFindings(s)) /\ CommonFindings(s) # {}
           /\ Grave(CommonFindings(s)) <=>
                \/ Grave(OutputFindings(s)) \/ Duplicate(s)
                \/ \E k \in DOMAIN s.instances : Grave(InstanceFindings(s.instances[k]))
<1> DEFINE each == UNION {InstanceFindings(s.instances[k]) : k \in DOMAIN s.instances}
           doubled == When(Duplicate(s), {Found("duplicate_resource_binding", "dangerous")})
           always == {Found("state_snapshot", "review"), Found("state_boundary", "review")}
<1>1. \A k \in DOMAIN s.instances : Mild(InstanceFindings(s.instances[k]))
  BY InstanceIsFound
<1>2. /\ Mild(each)
      /\ Grave(each) <=> \E k \in DOMAIN s.instances : Grave(InstanceFindings(s.instances[k]))
  BY <1>1 DEF Mild, Grave
<1>3. Mild(doubled) /\ (Grave(doubled) <=> Duplicate(s))
  BY DangerWhen
<1>4. Mild(always) /\ ~Grave(always)
  BY FoundIs DEF Mild, Grave
<1>5. CommonFindings(s) = always \union OutputFindings(s) \union each \union doubled
  BY Zenon DEF CommonFindings
<1>6. always # {}
  OBVIOUS
<1> HIDE DEF each, doubled, always
<1>7. /\ Mild(always \union OutputFindings(s))
      /\ Grave(always \union OutputFindings(s)) <=> Grave(OutputFindings(s))
  BY <1>4, OutputsAreFound, TogetherIs
<1>8. /\ Mild((always \union OutputFindings(s)) \union each)
      /\ Grave((always \union OutputFindings(s)) \union each)
           <=> Grave(OutputFindings(s)) \/ Grave(each)
  BY <1>2, <1>7, TogetherIs
<1>9. /\ Mild(CommonFindings(s))
      /\ Grave(CommonFindings(s)) <=> Grave(OutputFindings(s)) \/ Grave(each) \/ Grave(doubled)
  BY <1>3, <1>5, <1>8, TogetherIs
<1>10. CommonFindings(s) # {}
  BY <1>5, <1>6
<1> QED BY <1>2, <1>3, <1>9, <1>10

\* What the raw snapshot makes of a state differs in the marks alone.
LEMMA AsRawIs ==
    ASSUME NEW s, IsState(s)
    PROVE  /\ AsRaw(s).instances \in Seq(Instances)
           /\ DOMAIN AsRaw(s).instances = DOMAIN s.instances
           /\ \A k \in DOMAIN s.instances : AsRaw(s).instances[k] =
                [s.instances[k] EXCEPT !.marks = RawMarks(s.instances[k], s.paths)]
           /\ OutputFindings(AsRaw(s)) = OutputFindings(s)
           /\ Duplicate(AsRaw(s)) <=> Duplicate(s)
<1> DEFINE f == [k \in DOMAIN s.instances |->
                   [s.instances[k] EXCEPT !.marks = RawMarks(s.instances[k], s.paths)]]
<1>1. /\ s = StateWith(s.used, s.instances, s.paths, s.outputs, s.check, s.steps)
      /\ s.instances \in Seq(Instances) /\ DOMAIN s.instances = 1 .. Len(s.instances)
      /\ \A k \in DOMAIN s.instances : s.instances[k] \in Instances
  BY DEF IsState
<1>2. \A k \in DOMAIN s.instances :
        [s.instances[k] EXCEPT !.marks = RawMarks(s.instances[k], s.paths)] \in Instances
  <2> TAKE k \in DOMAIN s.instances
  <2> DEFINE i == s.instances[k]
  <2>1. i \in Instances /\ {} \in Schemas /\ i.marks \in Schemas
    BY <1>1 DEF Instances, Schemas
  <2>2. RawMarks(i, s.paths) \in Schemas
    BY <2>1 DEF RawMarks
  <2> HIDE DEF i
  <2>3. [i EXCEPT !.marks = RawMarks(i, s.paths)] \in Instances
    BY <2>1, <2>2 DEF Instances
  <2> QED BY <2>3 DEF i
<1>3. AsRaw(s) = StateWith(s.used, f, s.paths, s.outputs, s.check, s.steps)
  <2>1. AsRaw(s) = [s EXCEPT !.instances = f]
    BY Zenon DEF AsRaw
  <2> HIDE DEF f
  <2>2. [s EXCEPT !.instances = f] = StateWith(s.used, f, s.paths, s.outputs, s.check, s.steps)
    BY <1>1 DEF StateWith
  <2> QED BY <2>1, <2>2
<1>4. AsRaw(s).instances = f /\ AsRaw(s).outputs = s.outputs
  BY <1>3 DEF StateWith
<1>5. f \in Seq(Instances) /\ Len(f) = Len(s.instances)
  BY <1>1, <1>2
<1> QED BY <1>4, <1>5 DEF OutputFindings, Duplicate

LEMMA ChecksAreFound ==
    ASSUME NEW s
    PROVE  /\ Mild(CheckFindings(s))
           /\ Grave(CheckFindings(s)) <=> s.check \in {"fail", "error"}
<1> DEFINE failed == s.check \in {"fail", "error"}
           a == When(failed, {Found("failed_check", "dangerous")})
           b == When(s.check = "unknown", {Found("unknown_check", "review")})
<1>1. Mild(a) /\ (Grave(a) <=> failed)
  <2> HIDE DEF failed
  <2> QED BY DangerWhen
<1>2. Mild(b) /\ ~Grave(b)
  BY ReviewWhen
<1>3. CheckFindings(s) = a \union b
  BY Zenon DEF CheckFindings
<1> HIDE DEF a, b
<1> QED BY <1>1, <1>2, <1>3, TogetherIs

LEMMA ShowIsFound ==
    ASSUME NEW s, s.instances \in Seq(Instances)
    PROVE  RiskOf(ShowFindings(s)) =
               IF Grave(CommonFindings(s)) \/ s.check \in {"fail", "error"}
               THEN "dangerous" ELSE "review"
<1>1. /\ Mild(ShowFindings(s)) /\ ShowFindings(s) # {}
      /\ Grave(ShowFindings(s)) <=> Grave(CommonFindings(s)) \/ s.check \in {"fail", "error"}
  BY CommonIsFound, ChecksAreFound, TogetherIs DEF ShowFindings
<1> QED BY <1>1, RiskOfFindings

LEMMA RawInstanceIsFound ==
    ASSUME NEW i
    PROVE  /\ Mild(RawInstanceFindings(i))
           /\ Grave(RawInstanceFindings(i)) <=> i.tainted \/ i.deposed
<1> DEFINE a == When(i.tainted, {Found("tainted_instance", "dangerous")})
           b == When(i.deposed, {Found("deposed_instance", "dangerous")})
<1>1. Mild(a) /\ (Grave(a) <=> i.tainted)
  BY DangerWhen
<1>2. Mild(b) /\ (Grave(b) <=> i.deposed)
  BY DangerWhen
<1>3. RawInstanceFindings(i) = a \union b
  BY Zenon DEF RawInstanceFindings
<1> HIDE DEF a, b
<1> QED BY <1>1, <1>2, <1>3, TogetherIs

LEMMA RawIsFound ==
    ASSUME NEW s, AsRaw(s).instances \in Seq(Instances)
    PROVE  RiskOf(RawFindings(s)) =
               IF \/ Grave(CommonFindings(AsRaw(s)))
                  \/ \E k \in DOMAIN s.instances : s.instances[k].tainted \/ s.instances[k].deposed
               THEN "dangerous" ELSE "review"
<1> DEFINE each == UNION {RawInstanceFindings(s.instances[k]) : k \in DOMAIN s.instances}
           unstable == {Found("unstable_raw_format", "review")}
<1>1. /\ Mild(each)
      /\ Grave(each) <=> \E k \in DOMAIN s.instances : s.instances[k].tainted \/ s.instances[k].deposed
  <2>1. \A k \in DOMAIN s.instances :
          /\ Mild(RawInstanceFindings(s.instances[k]))
          /\ Grave(RawInstanceFindings(s.instances[k]))
                <=> s.instances[k].tainted \/ s.instances[k].deposed
    BY RawInstanceIsFound
  <2>2. Mild(each)
    BY <2>1 DEF Mild
  <2>3. Grave(each) <=> \E k \in DOMAIN s.instances : Grave(RawInstanceFindings(s.instances[k]))
    BY DEF Grave
  <2> QED BY <2>1, <2>2, <2>3
<1>2. Mild(unstable) /\ ~Grave(unstable)
  BY OneFound
<1>3. RawFindings(s) = CommonFindings(AsRaw(s)) \union unstable \union each
  BY DEF RawFindings
<1> HIDE DEF each, unstable
<1>4. /\ Mild(RawFindings(s)) /\ RawFindings(s) # {}
      /\ Grave(RawFindings(s)) <=> Grave(CommonFindings(AsRaw(s))) \/ Grave(each)
  <2>1. Mild(CommonFindings(AsRaw(s))) /\ CommonFindings(AsRaw(s)) # {}
    BY CommonIsFound
  <2> DEFINE some == CommonFindings(AsRaw(s)) \union unstable
  <2>2. RawFindings(s) # {} /\ RawFindings(s) = some \union each
    BY <1>3, <2>1
  <2>3. Mild(some) /\ (Grave(some) <=> Grave(CommonFindings(AsRaw(s))))
    BY <1>2, <2>1, TogetherIs
  <2> HIDE DEF some
  <2>4. Mild(each)
    BY <1>1
  <2>5. Mild(some \union each) /\ (Grave(some \union each) <=> Grave(some) \/ Grave(each))
    BY <2>3, <2>4, TogetherIs
  <2> QED BY <2>2, <2>3, <2>5
<1> QED BY <1>1, <1>4, RiskOfFindings

\* What the rules get to see is neither marked nor named like a secret.
LEMMA LeavesAre ==
    ASSUME NEW l \in Leaves
    PROVE  /\ SubSeq(l, 1, 1) = <<l[1]>>
           /\ SecretLike(l) <=> "secret" \in {l[1], l[2]}
           /\ ~SecretLike(l) => l = <<"plain", "plain">>
<1>1. PICK a \in Keys, b \in Keys : l = <<a, b>>
  BY DEF Leaves
<1>2. DOMAIN l = 1 .. 2 /\ l[1] = a /\ l[2] = b
  BY <1>1
<1>3. SubSeq(l, 1, 1) = <<a>>
  <2>1. \A n \in 1 .. 1 : l[n] \in Keys
    BY <1>1, <1>2
  <2>2. SubSeq(l, 1, 1) \in Seq(Keys) /\ Len(SubSeq(l, 1, 1)) = 1 /\ SubSeq(l, 1, 1)[1] = l[1]
    BY <2>1, SubSeqProperties
  <2> DEFINE u == SubSeq(l, 1, 1)
  <2>3. u \in Seq(Keys) /\ Len(u) = 1 /\ u[1] = a
    BY <1>2, <2>2
  <2> HIDE DEF u
  <2>4. u = <<a>>
    BY <2>3
  <2> QED BY <2>4 DEF u
<1>4. SecretLike(l) <=> a = "secret" \/ b = "secret"
  BY <1>2 DEF SecretLike
<1> QED BY <1>1, <1>2, <1>3, <1>4 DEF Keys

LEMMA ShownIsPlain ==
    ASSUME NEW i \in Instances, NEW l \in Shown(i)
    PROVE  /\ l \in i.values
           /\ "secret" \notin {l[1], l[2]} /\ {l, <<l[1]>>} \intersect i.marks = {}
<1>1. l \in i.values /\ ~Covered(l, i.marks) /\ ~SecretLike(l) /\ l \in Leaves
  BY DEF Shown, Instances
<1> QED BY <1>1, LeavesAre DEF Covered

LEMMA UnmarkedAre ==
    ASSUME NEW i \in Instances
    PROVE  UnmarkedSecrets(i) # {} <=>
             \E l \in i.values : "secret" \in {l[1], l[2]} /\ {l, <<l[1]>>} \intersect i.marks = {}
<1>1. i.values \subseteq Leaves
  BY DEF Instances
<1>2. \A l \in i.values : SecretLike(l) /\ ~Covered(l, i.marks) <=>
           "secret" \in {l[1], l[2]} /\ {l, <<l[1]>>} \intersect i.marks = {}
  BY <1>1, LeavesAre DEF Covered
<1> QED BY <1>2 DEF UnmarkedSecrets

LEMMA SnapshotFollows == StateInv => SnapshotIsReported
<1> SUFFICES ASSUME StateInv, state.used
             PROVE  SnapshotIsReported
  BY DEF SnapshotIsReported
<1> DEFINE s == state.instances
           r == AsRaw(state).instances
           Secret(l) == "secret" \in {l[1], l[2]}
           Marked(i, l) == {l, <<l[1]>>} \intersect i.marks # {}
           Open(i) == {"public", "unencrypted"} \intersect i.posture # {}
           some == \E k \in DOMAIN s : LET i == s[k] IN
                     \/ i.deposed
                     \/ {"public", "unencrypted"} \intersect i.posture # {}
                     \/ \E l \in i.values : Secret(l) /\ ~Marked(i, l)
           lost == state.paths = "steps"
           missed == /\ lost
                     /\ \E k \in DOMAIN s : LET i == s[k] IN
                          \E l \in i.values : Secret(l) /\ Marked(i, l)
           tainted == \E k \in DOMAIN s : s[k].tainted
           failed == state.check \in {"fail", "error"}
           raw == RiskOf(RawFindings(state))
           show == RiskOf(ShowFindings(state))
           graveShow == Grave(CommonFindings(state))
           graveRaw == Grave(CommonFindings(AsRaw(state)))
<1>1. s \in Seq(Instances) /\ \A k \in DOMAIN s : s[k] \in Instances
  BY DEF StateInv, IsState
<1>2. \A k \in DOMAIN s : s[k].deposed => Duplicate(state)
  BY DEF StateInv, Duplicate
<1>3. /\ r \in Seq(Instances) /\ DOMAIN r = DOMAIN s
      /\ \A k \in DOMAIN s : r[k] \in Instances
      /\ \A k \in DOMAIN s : r[k] = [s[k] EXCEPT !.marks = RawMarks(s[k], state.paths)]
      /\ OutputFindings(AsRaw(state)) = OutputFindings(state)
      /\ Duplicate(AsRaw(state)) <=> Duplicate(state)
  BY AsRawIs DEF StateInv
<1>4. \A k \in DOMAIN s :
        /\ r[k].values = s[k].values /\ r[k].posture = s[k].posture
        /\ r[k].marks = IF lost THEN {} ELSE s[k].marks
  <2> TAKE k \in DOMAIN s
  <2>1. s[k] \in Instances /\ state.paths \in PathForms
    BY <1>1 DEF StateInv, IsState
  <2> QED BY <1>3, <2>1 DEF Instances, RawMarks, PathForms
<1>5. \A k \in DOMAIN s :
        /\ \A l \in Shown(s[k]) : ~Secret(l) /\ ~Marked(s[k], l)
        /\ \A l \in Shown(r[k]) : ~Secret(l) /\ (Marked(s[k], l) => lost)
  <2> TAKE k \in DOMAIN s
  <2>1. \A l \in Shown(s[k]) : ~Secret(l) /\ ~Marked(s[k], l)
    BY <1>1, ShownIsPlain
  <2>2. \A l \in Shown(r[k]) : ~Secret(l) /\ ~Marked(r[k], l)
    BY <1>3, ShownIsPlain
  <2>3. r[k].marks = IF lost THEN {} ELSE s[k].marks
    BY <1>4
  <2> QED BY <2>1, <2>2, <2>3
<1>6. \A k \in DOMAIN s :
        /\ Grave(InstanceFindings(s[k])) <=>
             Open(s[k]) \/ \E l \in s[k].values : Secret(l) /\ ~Marked(s[k], l)
        /\ Grave(InstanceFindings(r[k])) <=>
             Open(s[k]) \/ \E l \in s[k].values : Secret(l) /\ (lost \/ ~Marked(s[k], l))
  <2> TAKE k \in DOMAIN s
  <2>1. Grave(InstanceFindings(s[k])) <=>
          Open(s[k]) \/ \E l \in s[k].values : Secret(l) /\ ~Marked(s[k], l)
    BY <1>1, InstanceIsFound, UnmarkedAre
  <2>2. Grave(InstanceFindings(r[k])) <=>
          Open(r[k]) \/ \E l \in r[k].values : Secret(l) /\ ~Marked(r[k], l)
    BY <1>3, InstanceIsFound, UnmarkedAre
  <2>3. \A l : ~Marked(r[k], l) <=> lost \/ ~Marked(s[k], l)
    BY <1>4
  <2>4. Open(r[k]) <=> Open(s[k])
    BY <1>4
  <2> HIDE DEF Open, Marked, Secret, lost
  <2> QED BY <1>4, <2>1, <2>2, <2>3, <2>4
<1>7. graveShow <=> \/ Grave(OutputFindings(state)) \/ Duplicate(state)
                    \/ \E k \in DOMAIN s : Grave(InstanceFindings(s[k]))
  BY <1>1, CommonIsFound
<1>8. graveRaw <=> \/ Grave(OutputFindings(state)) \/ Duplicate(state)
                   \/ \E k \in DOMAIN s : Grave(InstanceFindings(r[k]))
  BY <1>3, CommonIsFound
<1>9. show = IF graveShow \/ failed THEN "dangerous" ELSE "review"
  BY <1>1, ShowIsFound
<1>10. raw = IF graveRaw \/ tainted THEN "dangerous" ELSE "review"
  BY <1>2, <1>3, <1>8, RawIsFound
<1> HIDE DEF Secret, Marked, Open, lost, graveShow, graveRaw, raw, show, failed, r, s
<1>11. graveRaw <=> graveShow \/ missed
  BY <1>6, <1>7, <1>8
<1>12. some => graveShow
  <2> SUFFICES ASSUME NEW k \in DOMAIN s,
                      \/ s[k].deposed \/ Open(s[k])
                      \/ \E l \in s[k].values : Secret(l) /\ ~Marked(s[k], l)
               PROVE  graveShow
    BY DEF Open
  <2> QED BY <1>2, <1>6, <1>7
<1> HIDE DEF some, tainted, missed
<1>13. /\ some => raw = "dangerous" /\ show = "dangerous"
       /\ tainted => raw = "dangerous"
       /\ failed => show = "dangerous"
       /\ ~tainted /\ ~failed => raw = IF missed THEN "dangerous" ELSE show
  BY <1>9, <1>10, <1>11, <1>12
<1> QED BY <1>5, <1>13, Zenon
     DEF SnapshotIsReported, some, missed, lost, tainted, failed, raw, show, r, s, Secret, Marked

\* What is named like a secret reaches the rules at no depth of any attributes, what is
\* only marked does so in raw snapshots with paths of step objects, a mark that is missing
\* is reported, and but for those snapshots, taint and checks the two representations of
\* a state agree: for any number of steps between two snapshots
\* (adapters/terraform_state.py 148-255, 366-600).
THEOREM SnapshotsAreReported == InputsSpec => []SnapshotIsReported
BY StatesAreStates, SnapshotFollows, PTL

-----------------------------------------------------------------------------
(* Services, Nomad plans, job specifications and pipelines                 *)

\* Findings of the adapters that report their own risks call nothing irreversible.
Judged3(findings) == \A r \in findings : r = "safe" \/ r = "review" \/ r = "dangerous"

LEMMA WorstIs ==
    ASSUME NEW S, Judged3(S), S # {}
    PROVE  /\ "dangerous" \in S => Highest(S) = "dangerous"
           /\ "dangerous" \notin S /\ "review" \in S => Highest(S) = "review"
           /\ "dangerous" \notin S /\ "review" \notin S => Highest(S) = "safe"
           /\ Highest(S) \in S
<1>1. S \in SUBSET Risks
  BY DEF Judged3, Risks
<1>2. /\ Rank("safe") = 0 /\ Rank("review") = 1 /\ Rank("dangerous") = 2
      /\ \A r \in S : \/ r = "safe" /\ Rank(r) = 0
                      \/ r = "review" /\ Rank(r) = 1
                      \/ r = "dangerous" /\ Rank(r) = 2
  BY Ranks DEF Judged3
<1>3. CASE "dangerous" \in S
  <2>1. \A r \in S : Rank(r) <= Rank("dangerous")
    BY <1>2
  <2> QED BY <1>1, <1>3, <2>1, HighestIsThe
<1>4. CASE "dangerous" \notin S /\ "review" \in S
  <2>1. \A r \in S : Rank(r) <= Rank("review")
    BY <1>2, <1>4
  <2> QED BY <1>1, <1>4, <2>1, HighestIsThe
<1>5. CASE "dangerous" \notin S /\ "review" \notin S
  <2>1. "safe" \in S /\ \A r \in S : Rank(r) <= Rank("safe")
    BY <1>2, <1>5
  <2> QED BY <1>1, <1>5, <2>1, HighestIsThe
<1> QED BY <1>3, <1>4, <1>5

-----------------------------------------------------------------------------
\* Services: what hardens one is neither reviewed nor dangerous.
LEMMA HardeningIsSafe ==
    \A f \in Hardening : f \notin DangerousInCompose /\ f \notin ReviewedInCompose
BY DEF Hardening, DangerousInCompose, ReviewedInCompose

LEMMA ServiceIsFound ==
    ASSUME NEW facts, facts # {}
    PROVE  /\ Judged3(ServiceFindings(facts))
           /\ "dangerous" \in ServiceFindings(facts) <=> facts \intersect DangerousInCompose # {}
           /\ "review" \in ServiceFindings(facts) <=> facts \intersect ReviewedInCompose # {}
<1> DEFINE dangerous == {"dangerous" : f \in facts \intersect DangerousInCompose}
           review == {"review" : f \in facts \intersect ReviewedInCompose}
           safe == {"safe" : f \in facts \intersect Hardening}
<1>1. ServiceFindings(facts) = (dangerous \union review) \union safe
  BY DEF ServiceFindings
<1>2. /\ \A r \in dangerous : r = "dangerous"
      /\ "dangerous" \in dangerous <=> facts \intersect DangerousInCompose # {}
  OBVIOUS
<1>3. /\ \A r \in review : r = "review"
      /\ "review" \in review <=> facts \intersect ReviewedInCompose # {}
  OBVIOUS
<1>4. \A r \in safe : r = "safe"
  OBVIOUS
<1> HIDE DEF dangerous, review, safe
<1> QED BY <1>1, <1>2, <1>3, <1>4 DEF Judged3

LEMMA HardeningHidesNothing ==
    ASSUME NEW facts \in SUBSET ServiceFacts, facts \ Hardening # {}
    PROVE  Highest(ServiceFindings(facts)) = Highest(ServiceFindings(facts \ Hardening))
<1> DEFINE rest == facts \ Hardening
           S == ServiceFindings(facts)
           T == ServiceFindings(rest)
<1>1. facts # {} /\ rest # {}
  OBVIOUS
<1>2. /\ facts \intersect DangerousInCompose # {} <=> rest \intersect DangerousInCompose # {}
      /\ facts \intersect ReviewedInCompose # {} <=> rest \intersect ReviewedInCompose # {}
  BY HardeningIsSafe
<1>3. rest \intersect DangerousInCompose # {} \/ rest \intersect ReviewedInCompose # {}
  BY <1>1 DEF ServiceFacts
<1> HIDE DEF rest
<1>4. /\ Judged3(S) /\ Judged3(T)
      /\ "dangerous" \in S <=> "dangerous" \in T
      /\ "review" \in S <=> "review" \in T
      /\ "dangerous" \in T \/ "review" \in T
  BY <1>1, <1>2, <1>3, ServiceIsFound
<1> HIDE DEF S, T
<1>5. S # {} /\ T # {}
  BY <1>4
<1>6. Highest(S) = Highest(T)
  <2>1. CASE "dangerous" \in T
    BY <1>4, <1>5, <2>1, WorstIs
  <2>2. CASE "dangerous" \notin T
    BY <1>4, <1>5, <2>2, WorstIs
  <2> QED BY <2>1, <2>2
<1> QED BY <1>6 DEF S, T, rest

ServiceWith(used, facts) == [used |-> used, facts |-> facts]
ServiceInv ==
    /\ service = ServiceWith(service.used, service.facts)
    /\ service.facts \in SUBSET ServiceFacts

LEMMA NoServiceIsOne ==
    ASSUME service = NoService \/ ServiceInit
    PROVE  ServiceInv
<1>1. service = ServiceWith(FALSE, {}) \/ service = ServiceWith(TRUE, {})
  BY DEF ServiceInit, NoService, ServiceWith
<1> QED BY <1>1 DEF ServiceInv, ServiceWith

LEMMA ServiceStep ==
    ASSUME ServiceInv, NEW f \in ServiceFacts, AskFor(f)
    PROVE  ServiceInv'
<1>1. service' = [service EXCEPT !.facts = @ \union {f}]
  BY DEF AskFor
<1>2. service' = ServiceWith(service.used, service.facts \union {f})
  BY <1>1 DEF ServiceInv, ServiceWith
<1>3. service.facts \union {f} \in SUBSET ServiceFacts
  BY DEF ServiceInv
<1> QED BY <1>2, <1>3 DEF ServiceInv, ServiceWith

-----------------------------------------------------------------------------
\* Nomad plans
PlanWith(used, warnings, failed, counters, diff, steps) ==
    [used |-> used, warnings |-> warnings, failed |-> failed, counters |-> counters,
     diff |-> diff, steps |-> steps]

Nodes == [type : NodeTypes, fields : SUBSET Fields]
Diffs == [Levels -> Nodes]
NoDiff == [l \in Levels |-> [type |-> "none", fields |-> {}]]

IsPlan(p) ==
    /\ p = PlanWith(p.used, p.warnings, p.failed, p.counters, p.diff, p.steps)
    /\ p.warnings = TRUE \/ p.warnings = FALSE
    /\ p.failed = TRUE \/ p.failed = FALSE
    /\ p.diff \in Diffs
    /\ p.steps \in Nat

\* What a plan says, before it is said to change nothing.
FoundIn(plan) == (SchedulerRisk(plan) \union CounterRisk(plan.counters)) \union WalkDiff(plan.diff)

LEMMA FindingsAreThese ==
    \A plan : NomadFindings(plan) = IF FoundIn(plan) = {} THEN {"safe"} ELSE FoundIn(plan)
BY DEF NomadFindings, FoundIn

\* Every step adds something to report.
PlanInv ==
    /\ IsPlan(nomad)
    /\ nomad.used = TRUE \/ nomad.used = FALSE
    /\ nomad.steps # 0 => FoundIn(nomad) # {}

LEMMA WalkIs ==
    ASSUME NEW diff
    PROVE  /\ \A l \in Levels : NodeRisk(diff[l].type) \subseteq WalkDiff(diff)
           /\ \A l \in Levels : \A f \in diff[l].fields : FieldRisk(f) \in WalkDiff(diff)
           /\ \A r \in WalkDiff(diff) : r = "review" \/ r = "dangerous"
<1> DEFINE Here(l) == NodeRisk(diff[l].type) \union {FieldRisk(f) : f \in diff[l].fields}
<1>1. WalkDiff(diff) = UNION {Here(l) : l \in Levels}
  BY DEF WalkDiff
<1>2. \A l : \A r \in Here(l) : r = "review" \/ r = "dangerous"
  <2> SUFFICES ASSUME NEW l, NEW r \in Here(l) PROVE r = "review" \/ r = "dangerous"
    OBVIOUS
  <2>1. CASE r \in NodeRisk(diff[l].type)
    BY <2>1 DEF NodeRisk
  <2>2. CASE \E f \in diff[l].fields : r = FieldRisk(f)
    BY <2>2 DEF FieldRisk
  <2> QED BY <2>1, <2>2
<1>3. \A l : /\ NodeRisk(diff[l].type) \subseteq Here(l)
             /\ \A f \in diff[l].fields : FieldRisk(f) \in Here(l)
  OBVIOUS
<1> HIDE DEF Here
<1> QED BY <1>1, <1>2, <1>3

LEMMA NodeIs ==
    /\ \A type \in NodeTypes \ {"none"} : NodeRisk(type) # {}
    /\ "dangerous" \in NodeRisk("deleted")
    /\ \A f : f \notin {"count", "pinned image"} => FieldRisk(f) = "dangerous"
<1>1. NodeRisk("deleted") = {"dangerous"} /\ NodeRisk("added") = {"review"}
      /\ NodeRisk("edited") = {"review"}
  BY DEF NodeRisk
<1>2. \A type \in NodeTypes \ {"none"} : type = "deleted" \/ type = "added" \/ type = "edited"
  BY DEF NodeTypes
<1> QED BY <1>1, <1>2 DEF FieldRisk

LEMMA FoundInIs ==
    ASSUME NEW p
    PROVE  /\ \A r \in FoundIn(p) : r = "review" \/ r = "dangerous"
           /\ p.warnings \/ p.failed => "dangerous" \in FoundIn(p)
           /\ \A c \in p.counters :
                 /\ FoundIn(p) # {}
                 /\ c = "Stop" \/ c = "DestructiveUpdate" => "dangerous" \in FoundIn(p)
           /\ WalkDiff(p.diff) \subseteq FoundIn(p)
<1>1. /\ \A r \in SchedulerRisk(p) : r = "dangerous"
      /\ p.warnings \/ p.failed => "dangerous" \in SchedulerRisk(p)
  BY DEF SchedulerRisk
<1>2. /\ \A r \in CounterRisk(p.counters) : r = "review" \/ r = "dangerous"
      /\ \A c \in p.counters :
            /\ CounterRisk(p.counters) # {}
            /\ c = "Stop" \/ c = "DestructiveUpdate" => "dangerous" \in CounterRisk(p.counters)
  <2> DEFINE Is(c) == IF c \in {"DestructiveUpdate", "Stop"} THEN "dangerous" ELSE "review"
  <2>1. CounterRisk(p.counters) = {Is(c) : c \in p.counters}
    BY DEF CounterRisk
  <2>2. /\ \A c : Is(c) = "review" \/ Is(c) = "dangerous"
        /\ \A c : c = "Stop" \/ c = "DestructiveUpdate" => Is(c) = "dangerous"
    OBVIOUS
  <2> HIDE DEF Is
  <2> QED BY <2>1, <2>2
<1>3. \A r \in WalkDiff(p.diff) : r = "review" \/ r = "dangerous"
  BY WalkIs
<1> QED BY <1>1, <1>2, <1>3 DEF FoundIn

\* What is not found is not there.
LEMMA NothingFound ==
    ASSUME NEW p, IsPlan(p), FoundIn(p) = {}
    PROVE  /\ p.warnings = FALSE /\ p.failed = FALSE /\ p.counters = {}
           /\ p.diff = NoDiff
<1>1. p.warnings = FALSE /\ p.failed = FALSE
  BY FoundInIs DEF IsPlan
<1>2. \A c : c \notin p.counters
  BY FoundInIs
<1>3. WalkDiff(p.diff) = {}
  BY FoundInIs
<1>4. \A l \in Levels : p.diff[l] = [type |-> "none", fields |-> {}]
  <2> SUFFICES ASSUME NEW l \in Levels PROVE p.diff[l] = [type |-> "none", fields |-> {}]
    OBVIOUS
  <2>1. p.diff[l] \in Nodes
    BY DEF IsPlan, Diffs
  <2>2. p.diff[l].type = "none"
    BY <1>3, <2>1, WalkIs, NodeIs DEF Nodes
  <2>3. p.diff[l].fields = {}
    BY <1>3, WalkIs
  <2> QED BY <2>1, <2>2, <2>3 DEF Nodes
<1>5. p.diff = NoDiff
  BY <1>4 DEF IsPlan, Diffs, NoDiff
<1>6. p.counters = {}
  BY <1>2
<1> QED BY <1>1, <1>5, <1>6

LEMMA PlanReported ==
    ASSUME PlanInv, nomad.used
    PROVE  PlanIsReported
<1> DEFINE risk == Highest(NomadFindings(nomad))
<1>1. IsPlan(nomad) /\ nomad.used = TRUE
  BY DEF PlanInv
<1>2. CASE FoundIn(nomad) = {}
  <2>1. NomadFindings(nomad) = {"safe"}
    BY <1>2, FindingsAreThese
  <2>2. risk = "safe"
    <3>1. Judged3({"safe"}) /\ {"safe"} # {} /\ "dangerous" \notin {"safe"} /\ "review" \notin {"safe"}
      BY DEF Judged3
    <3> QED BY <2>1, <3>1, WorstIs
  <2>3. nomad.steps = 0
    BY <1>2 DEF PlanInv
  <2>4. /\ nomad.warnings = FALSE /\ nomad.failed = FALSE /\ nomad.counters = {}
        /\ nomad.diff = NoDiff
    BY <1>1, <1>2, NothingFound
  <2>5. nomad = PlanWith(TRUE, FALSE, FALSE, {}, NoDiff, 0)
    BY <1>1, <2>3, <2>4 DEF IsPlan
  <2>6. nomad = [NothingPlanned EXCEPT !.used = TRUE]
    <3> DEFINE p == [NothingPlanned EXCEPT !.used = TRUE]
    <3>1. p = [NothingPlanned EXCEPT !.used = TRUE]
      OBVIOUS
    <3> HIDE DEF p
    <3>2. p = PlanWith(TRUE, FALSE, FALSE, {}, NoDiff, 0)
      BY <3>1 DEF PlanWith, NothingPlanned, NoDiff
    <3>3. nomad = p
      BY <2>5, <3>2, Zenon
    <3> QED BY <3>3, Zenon DEF p
  <2>7. \A l \in Levels : nomad.diff[l].type # "deleted" /\ nomad.diff[l].fields = {}
    BY <2>4 DEF NoDiff
  <2> QED BY <2>2, <2>4, <2>6, <2>7 DEF PlanIsReported
<1>3. CASE FoundIn(nomad) # {}
  <2>1. NomadFindings(nomad) = FoundIn(nomad)
    BY <1>3, FindingsAreThese
  <2>2. /\ Judged3(FoundIn(nomad)) /\ "safe" \notin FoundIn(nomad)
        /\ "dangerous" \in FoundIn(nomad) => risk = "dangerous"
        /\ risk \in FoundIn(nomad)
    <3>1. Judged3(FoundIn(nomad)) /\ "safe" \notin FoundIn(nomad)
      BY FoundInIs DEF Judged3
    <3> QED BY <1>3, <2>1, <3>1, WorstIs
  <2>3. risk # "safe"
    BY <2>2
  <2>4. nomad # [NothingPlanned EXCEPT !.used = TRUE]
    <3> SUFFICES ASSUME nomad = [NothingPlanned EXCEPT !.used = TRUE] PROVE FALSE
      OBVIOUS
    <3>1. nomad.warnings = FALSE /\ nomad.failed = FALSE /\ nomad.counters = {} /\ nomad.diff = NoDiff
      BY DEF NothingPlanned, NoDiff
    <3>2. SchedulerRisk(nomad) = {} /\ CounterRisk(nomad.counters) = {}
      BY <3>1 DEF SchedulerRisk, CounterRisk
    <3>3. WalkDiff(NoDiff) = {}
      BY DEF WalkDiff, NoDiff, NodeRisk
    <3> QED BY <1>3, <3>1, <3>2, <3>3 DEF FoundIn
  <2>5. ASSUME NEW l \in Levels,
               nomad.diff[l].type = "deleted" \/ nomad.diff[l].fields \ {"count", "pinned image"} # {}
        PROVE  "dangerous" \in FoundIn(nomad)
    <3>1. "dangerous" \in WalkDiff(nomad.diff)
      <4>1. CASE nomad.diff[l].type = "deleted"
        BY <4>1, WalkIs, NodeIs
      <4>2. CASE nomad.diff[l].fields \ {"count", "pinned image"} # {}
        <5>1. PICK f \in nomad.diff[l].fields : f \notin {"count", "pinned image"}
          BY <4>2
        <5>2. FieldRisk(f) \in WalkDiff(nomad.diff)
          BY WalkIs
        <5> QED BY <5>1, <5>2, NodeIs
      <4> QED BY <2>5, <4>1, <4>2
    <3> QED BY <3>1, FoundInIs
  <2>6. {"Stop", "DestructiveUpdate"} \intersect nomad.counters # {} => "dangerous" \in FoundIn(nomad)
    BY FoundInIs
  <2> HIDE DEF risk
  <2> QED BY <2>2, <2>3, <2>4, <2>5, <2>6 DEF PlanIsReported, risk
<1> QED BY <1>2, <1>3

LEMMA NoPlanIsOne ==
    ASSUME nomad = NothingPlanned \/ NomadInit
    PROVE  PlanInv
<1>1. NoDiff \in Diffs
  BY DEF NoDiff, Diffs, Nodes, NodeTypes
<1>2. nomad = PlanWith(FALSE, FALSE, FALSE, {}, NoDiff, 0) \/ nomad = PlanWith(TRUE, FALSE, FALSE, {}, NoDiff, 0)
  BY DEF NomadInit, NothingPlanned, NoDiff, PlanWith
<1> HIDE DEF NoDiff
<1>3. IsPlan(nomad) /\ nomad.steps = 0 /\ (nomad.used = TRUE \/ nomad.used = FALSE)
  BY <1>1, <1>2 DEF IsPlan, PlanWith
<1> QED BY <1>3 DEF PlanInv

\* A plan with something to report, counted as a step.
LEMMA PlanCounted ==
    ASSUME PlanInv, NEW w, NEW f, NEW c, NEW d \in Diffs,
           w = TRUE \/ w = FALSE, f = TRUE \/ f = FALSE,
           w \/ f \/ c # {} \/ WalkDiff(d) # {},
           nomad' = PlanWith(nomad.used, w, f, c, d, nomad.steps + 1)
    PROVE  PlanInv'
<1>1. /\ nomad'.warnings = w /\ nomad'.failed = f /\ nomad'.counters = c /\ nomad'.diff = d
      /\ nomad'.steps = nomad.steps + 1 /\ nomad'.used = nomad.used
  BY DEF PlanWith
<1>2. nomad.steps \in Nat
  BY DEF PlanInv, IsPlan
<1>3. IsPlan(nomad')
  BY <1>1, <1>2 DEF IsPlan
<1>4. FoundIn(nomad') # {}
  BY <1>1, FoundInIs
<1> QED BY <1>1, <1>3, <1>4 DEF PlanInv

LEMMA TouchedIs ==
    ASSUME PlanInv, NEW level \in Levels
    PROVE  Touched(level) \in Diffs
<1>1. \A l \in Levels : nomad.diff[l] \in Nodes
  BY DEF PlanInv, IsPlan, Diffs
<1>2. \A n \in Nodes : [n EXCEPT !.type = "edited"] \in Nodes
  BY DEF Nodes, NodeTypes
<1> QED BY <1>1, <1>2 DEF Touched, Diffs

LEMMA PlanStep ==
    ASSUME PlanInv, NomadNext
    PROVE  PlanInv'
<1>1. /\ nomad = PlanWith(nomad.used, nomad.warnings, nomad.failed, nomad.counters,
                          nomad.diff, nomad.steps)
      /\ nomad.warnings = TRUE \/ nomad.warnings = FALSE
      /\ nomad.failed = TRUE \/ nomad.failed = FALSE
      /\ nomad.diff \in Diffs
  BY DEF PlanInv, IsPlan
<1>2. CASE Warn
  <2> DEFINE yes == TRUE
             p == [nomad EXCEPT !.warnings = yes]
  <2>1. nomad' = [p EXCEPT !.steps = @ + 1]
    BY <1>2 DEF Warn, PlanJob
  <2>2. yes = TRUE
    OBVIOUS
  <2> HIDE DEF yes
  <2>3. p = PlanWith(nomad.used, yes, nomad.failed, nomad.counters, nomad.diff, nomad.steps)
    BY <1>1 DEF PlanWith
  <2>4. nomad' = PlanWith(nomad.used, yes, nomad.failed, nomad.counters, nomad.diff, nomad.steps + 1)
    BY <2>1, <2>3 DEF PlanWith
  <2> QED BY <1>1, <2>2, <2>4, PlanCounted
<1>3. CASE FailToPlace
  <2> DEFINE yes == TRUE
             p == [nomad EXCEPT !.failed = yes]
  <2>1. nomad' = [p EXCEPT !.steps = @ + 1]
    BY <1>3 DEF FailToPlace, PlanJob
  <2>2. yes = TRUE
    OBVIOUS
  <2> HIDE DEF yes
  <2>3. p = PlanWith(nomad.used, nomad.warnings, yes, nomad.counters, nomad.diff, nomad.steps)
    BY <1>1 DEF PlanWith
  <2>4. nomad' = PlanWith(nomad.used, nomad.warnings, yes, nomad.counters, nomad.diff, nomad.steps + 1)
    BY <2>1, <2>3 DEF PlanWith
  <2> QED BY <1>1, <2>2, <2>4, PlanCounted
<1>4. ASSUME NEW c \in Counters, Schedule(c)
      PROVE  PlanInv'
  <2> DEFINE new == nomad.counters \union {c}
             p == [nomad EXCEPT !.counters = new]
  <2>1. nomad' = [p EXCEPT !.steps = @ + 1]
    BY <1>4 DEF Schedule, PlanJob
  <2>2. new # {}
    OBVIOUS
  <2> HIDE DEF new
  <2>3. p = PlanWith(nomad.used, nomad.warnings, nomad.failed, new, nomad.diff, nomad.steps)
    BY <1>1 DEF PlanWith
  <2>4. nomad' = PlanWith(nomad.used, nomad.warnings, nomad.failed, new, nomad.diff, nomad.steps + 1)
    BY <2>1, <2>3 DEF PlanWith
  <2> QED BY <1>1, <2>2, <2>4, PlanCounted
<1>5. ASSUME NEW d \in Diffs, WalkDiff(d) # {}, PlanJob([nomad EXCEPT !.diff = d])
      PROVE  PlanInv'
  <2> DEFINE p == [nomad EXCEPT !.diff = d]
  <2>1. p = PlanWith(nomad.used, nomad.warnings, nomad.failed, nomad.counters, d, nomad.steps)
    BY <1>1 DEF PlanWith
  <2>2. nomad' = [p EXCEPT !.steps = @ + 1]
    BY <1>5 DEF PlanJob
  <2>3. nomad' = PlanWith(nomad.used, nomad.warnings, nomad.failed, nomad.counters, d, nomad.steps + 1)
    BY <2>1, <2>2 DEF PlanWith
  <2> QED BY <1>1, <1>5, <2>3, PlanCounted
<1>6. ASSUME NEW l \in Levels, NEW t \in NodeTypes \ {"none"}, ChangeNode(l, t)
      PROVE  PlanInv'
  <2> DEFINE old == Touched(l)
             d == [old EXCEPT ![l].type = t]
  <2>1. PlanJob([nomad EXCEPT !.diff = d])
    BY <1>6 DEF ChangeNode
  <2>2. old \in Diffs
    BY TouchedIs
  <2> HIDE DEF old
  <2>3. d \in Diffs /\ d[l].type = t
    BY <2>2 DEF Diffs, Nodes
  <2> HIDE DEF d
  <2>4. WalkDiff(d) # {}
    BY <2>3, WalkIs, NodeIs
  <2> QED BY <1>5, <2>1, <2>3, <2>4
<1>7. ASSUME NEW l \in Levels, NEW f \in Fields, ChangeField(l, f)
      PROVE  PlanInv'
  <2> DEFINE old == Touched(l)
             d == [old EXCEPT ![l].fields = @ \union {f},
                              ![l].type = IF @ = "none" THEN "edited" ELSE @]
  <2>1. PlanJob([nomad EXCEPT !.diff = d])
    BY <1>7 DEF ChangeField
  <2>2. old \in Diffs
    BY TouchedIs
  <2> HIDE DEF old
  <2>3. d \in Diffs /\ f \in d[l].fields
    BY <2>2 DEF Diffs, Nodes, NodeTypes
  <2> HIDE DEF d
  <2>4. WalkDiff(d) # {}
    BY <2>3, WalkIs
  <2> QED BY <1>5, <2>1, <2>3, <2>4
<1> QED BY <1>2, <1>3, <1>4, <1>6, <1>7 DEF NomadNext

-----------------------------------------------------------------------------
\* Nomad job specifications
JobWith(used, json, null, depth, job, group, task) ==
    [used |-> used, json |-> json, null |-> null, depth |-> depth, job |-> job, group |-> group, task |-> task]

IsJob(spec) ==
    spec = JobWith(spec.used, spec.json, spec.null, spec.depth, spec.job, spec.group, spec.task)

\* There is a task only where there is a level for it.
JobInv ==
    /\ IsJob(jobspec)
    /\ jobspec.depth = 1 \/ jobspec.depth = 2 \/ jobspec.depth = 3
    /\ jobspec.depth # 3 => jobspec.task = {}

LEMMA JudgedIs ==
    ASSUME NEW facts
    PROVE  /\ Judged3(Judged(facts))
           /\ \A f \in facts : f \in DangerousInJob => "dangerous" \in Judged(facts)
           /\ \A more : facts \subseteq more => Judged(facts) \subseteq Judged(more)
<1> DEFINE Is(f) == IF f \in DangerousInJob THEN "dangerous" ELSE "review"
<1>1. \A s : Judged(s) = {Is(f) : f \in s}
  BY DEF Judged
<1>2. /\ \A f : Is(f) = "dangerous" \/ Is(f) = "review"
      /\ \A f \in DangerousInJob : Is(f) = "dangerous"
  OBVIOUS
<1> HIDE DEF Is
<1> QED BY <1>1, <1>2 DEF Judged3

Missing(task) ==
    \/ {"driver", "host driver"} \intersect task = {}
    \/ "user" \notin task
    \/ "artifact" \in task /\ "checksum" \notin task
    \/ "identity" \in task /\ "ttl" \notin task

DriverRisk(task) == IF "driver" \in task THEN {"review"} ELSE {}
MissingRisk(task) == IF Missing(task) THEN {"dangerous"} ELSE {}

LEMMA TaskRisksAre ==
    \A task : TaskRisks(task) = (Judged(task \ Settling) \union DriverRisk(task)) \union MissingRisk(task)
BY Zenon DEF TaskRisks, DriverRisk, MissingRisk, Missing

LEMMA TaskIsJudged ==
    ASSUME NEW task
    PROVE  /\ Judged3(TaskRisks(task))
           /\ "literal secret" \in task => "dangerous" \in TaskRisks(task)
<1>1. Judged3(DriverRisk(task)) /\ Judged3(MissingRisk(task))
  BY DEF DriverRisk, MissingRisk, Judged3
<1>2. "literal secret" \in DangerousInJob /\ "literal secret" \notin Settling
  BY DEF DangerousInJob, Settling
<1>3. "literal secret" \in task => "dangerous" \in Judged(task \ Settling)
  BY <1>2, JudgedIs
<1>4. Judged3(Judged(task \ Settling))
  BY JudgedIs
<1> QED BY <1>1, <1>3, <1>4, TaskRisksAre DEF Judged3

\* A task that lacks nothing lacks nothing for not asking for something.
LEMMA AskingForLess ==
    ASSUME NEW task, NEW fact, fact \notin Settling, fact # "host driver"
    PROVE  TaskRisks(task \ {fact}) \subseteq TaskRisks(task)
<1> DEFINE less == task \ {fact}
<1>1. Judged(less \ Settling) \subseteq Judged(task \ Settling)
  <2>1. less \ Settling \subseteq task \ Settling
    OBVIOUS
  <2> QED BY <2>1, JudgedIs
<1>2. /\ fact # "driver" /\ fact # "user" /\ fact # "checksum" /\ fact # "ttl"
  BY DEF Settling
<1>3. /\ "driver" \in less <=> "driver" \in task
      /\ "host driver" \in less <=> "host driver" \in task
      /\ "user" \in less <=> "user" \in task
      /\ "checksum" \in less <=> "checksum" \in task
      /\ "ttl" \in less <=> "ttl" \in task
      /\ "artifact" \in less => "artifact" \in task
      /\ "identity" \in less => "identity" \in task
  BY <1>2
<1> HIDE DEF less
<1>4. \A t : {"driver", "host driver"} \intersect t = {} <=> "driver" \notin t /\ "host driver" \notin t
  OBVIOUS
<1>5. Missing(less) => Missing(task)
  BY <1>3, <1>4 DEF Missing
<1>6. DriverRisk(less) \subseteq DriverRisk(task) /\ MissingRisk(less) \subseteq MissingRisk(task)
  BY <1>3, <1>5 DEF DriverRisk, MissingRisk
<1>7. TaskRisks(less) \subseteq TaskRisks(task)
  BY <1>1, <1>6, TaskRisksAre
<1> QED BY <1>7 DEF less

GroupRisks(spec) ==
    {"review"} \union IF HasGroups(spec) THEN Judged(GroupRead(spec)) ELSE {"dangerous"}
InnerRisks(spec) ==
    IF HasGroups(spec) /\ spec.depth > 2 THEN TaskRisks(spec.task) ELSE {}

LEMMA JobFindingsAre ==
    /\ \A spec : Findings(spec)
                  = ({"review"} \union Judged(spec.job)) \union GroupRisks(spec) \union InnerRisks(spec)
    /\ \A spec : JobFindings(spec) = IF spec.null THEN {} ELSE Findings(spec)
<1>1. ASSUME NEW spec
      PROVE  Findings(spec)
               = ({"review"} \union Judged(spec.job)) \union GroupRisks(spec) \union InnerRisks(spec)
  <2> DEFINE job == Judged(spec.job)
             group == IF HasGroups(spec) THEN Judged(GroupRead(spec)) ELSE {"dangerous"}
             inner == InnerRisks(spec)
  <2>1. Findings(spec) = {"review"} \union job \union group \union inner
    BY Zenon DEF Findings, InnerRisks
  <2>2. GroupRisks(spec) = {"review"} \union group
    BY DEF GroupRisks
  <2> HIDE DEF job, group, inner
  <2>3. Findings(spec) = ({"review"} \union job) \union GroupRisks(spec) \union inner
    BY <2>1, <2>2
  <2> QED BY <2>3 DEF job, inner
<1>2. ASSUME NEW spec
      PROVE  JobFindings(spec) = IF spec.null THEN {} ELSE Findings(spec)
  BY Zenon DEF JobFindings
<1> QED BY <1>1, <1>2

LEMMA JobIsJudged ==
    ASSUME NEW spec
    PROVE  /\ Judged3(Findings(spec)) /\ "review" \in Findings(spec)
           /\ "dangerous" \in Judged(spec.job) => "dangerous" \in Findings(spec)
           /\ "dangerous" \in GroupRisks(spec) => "dangerous" \in Findings(spec)
           /\ "dangerous" \in InnerRisks(spec) => "dangerous" \in Findings(spec)
<1>1. Judged3(GroupRisks(spec))
  <2>1. Judged3({"dangerous"})
    BY DEF Judged3
  <2>2. Judged3(Judged(GroupRead(spec)))
    BY JudgedIs
  <2> QED BY <2>1, <2>2 DEF GroupRisks, Judged3
<1>2. Judged3(InnerRisks(spec))
  <2>1. Judged3({})
    BY DEF Judged3
  <2> QED BY <2>1, TaskIsJudged DEF InnerRisks
<1>3. Judged3(Judged(spec.job))
  BY JudgedIs
<1> QED BY <1>1, <1>2, <1>3, JobFindingsAre DEF Judged3

\* That a static port is not read costs a finding for review, and there is always one.
LEMMA PortsCostNothing ==
    ASSUME NEW s, NEW t, s.group = t.group, VolumesRead(s) = VolumesRead(t)
    PROVE  {"review"} \union Judged(GroupRead(s)) = {"review"} \union Judged(GroupRead(t))
<1> DEFINE base(x) == (x.group \ (Volumes \union Ports)) \union VolumesRead(x)
<1>1. base(s) = base(t)
  OBVIOUS
<1>2. \A x : GroupRead(x) = base(x) \union PortsRead(x)
  BY Zenon DEF GroupRead
<1> HIDE DEF base
<1>3. \A x, p : p \in PortsRead(x) => p = "static port"
  BY DEF PortsRead
<1>4. "static port" \notin DangerousInJob
  BY DEF DangerousInJob
<1>5. \A x : {"review"} \union Judged(GroupRead(x)) = {"review"} \union Judged(base(x))
  BY <1>2, <1>3, <1>4 DEF Judged
<1> QED BY <1>1, <1>5

\* A specification is read through these fields.
LEMMA ReadAlike ==
    ASSUME NEW s, NEW t, s.depth = t.depth, s.job = t.job, s.group = t.group, s.null = t.null,
           VolumesRead(s) = VolumesRead(t)
    PROVE  /\ GroupRisks(s) = GroupRisks(t)
           /\ TaskRisks(s.task) \subseteq TaskRisks(t.task) => JobFindings(s) \subseteq JobFindings(t)
           /\ s.task = t.task => JobFindings(s) = JobFindings(t)
<1>1. HasGroups(s) <=> HasGroups(t)
  BY DEF HasGroups
<1>2. GroupRisks(s) = GroupRisks(t)
  BY <1>1, PortsCostNothing DEF GroupRisks
<1>3. /\ TaskRisks(s.task) \subseteq TaskRisks(t.task) => InnerRisks(s) \subseteq InnerRisks(t)
      /\ s.task = t.task => InnerRisks(s) = InnerRisks(t)
  BY <1>1 DEF InnerRisks
<1> QED BY <1>2, <1>3, JobFindingsAre

\* What JobIsReported says of a job that gets a verdict.
LEMMA VerdictOfJob ==
    ASSUME JobInv, ~jobspec.null
    PROVE  LET risk == Highest(JobFindings(jobspec))
           IN /\ risk # "safe"
              /\ ~(Volumes \subseteq jobspec.group)
                   => risk = Highest(JobFindings([jobspec EXCEPT !.json = ~@]))
              /\ "literal secret" \in jobspec.job \union jobspec.group \union jobspec.task
                   => risk = "dangerous"
              /\ \A fact \in jobspec.task \ (Settling \union {"host driver"}) :
                   Rank(Highest(JobFindings([jobspec EXCEPT !.task = @ \ {fact}]))) <= Rank(risk)
<1> DEFINE S == JobFindings(jobspec)
           risk == Highest(S)
<1>1. /\ IsJob(jobspec)
      /\ jobspec.depth = 1 \/ jobspec.depth = 2 \/ jobspec.depth = 3
      /\ jobspec.depth # 3 => jobspec.task = {}
  BY DEF JobInv
<1>a. S = Findings(jobspec)
  BY JobFindingsAre
<1>2. Judged3(S) /\ S # {} /\ "review" \in S
  BY <1>a, JobIsJudged
<1>3. risk # "safe" /\ ("dangerous" \in S => risk = "dangerous")
  BY <1>2, WorstIs
<1>4. ASSUME ~(Volumes \subseteq jobspec.group)
      PROVE  JobFindings([jobspec EXCEPT !.json = ~@]) = S
  <2> DEFINE t == [jobspec EXCEPT !.json = ~@]
  <2>1. /\ t.depth = jobspec.depth /\ t.job = jobspec.job /\ t.group = jobspec.group
        /\ t.task = jobspec.task /\ t.null = jobspec.null
    BY <1>1 DEF IsJob, JobWith
  <2> HIDE DEF t
  <2>2. \A s : s.group = jobspec.group => VolumesRead(s) = jobspec.group \intersect Volumes
    <3>1. jobspec.group \intersect Volumes # Volumes
      BY <1>4
    <3> QED BY <3>1 DEF VolumesRead
  <2>3. JobFindings(t) = S
    BY <2>1, <2>2, ReadAlike
  <2> QED BY <2>3 DEF t
<1>5. ASSUME "literal secret" \in (jobspec.job \union jobspec.group) \union jobspec.task
      PROVE  "dangerous" \in S
  <2>1. "literal secret" \in DangerousInJob /\ "literal secret" \notin Volumes \union Ports
    BY DEF DangerousInJob, Volumes, Ports
  <2>2. CASE "literal secret" \in jobspec.job
    BY <1>a, <2>1, <2>2, JudgedIs, JobIsJudged
  <2>3. CASE jobspec.depth = 1
    <3>1. ~HasGroups(jobspec)
      BY <2>3 DEF HasGroups
    <3> QED BY <1>a, <3>1, JobIsJudged DEF GroupRisks
  <2>4. CASE "literal secret" \in jobspec.group /\ jobspec.depth # 1
    <3>1. HasGroups(jobspec)
      <4>1. jobspec.depth = 2 \/ jobspec.depth = 3
        BY <1>1, <2>4
      <4> QED BY <4>1 DEF HasGroups
    <3>2. "dangerous" \in Judged(GroupRead(jobspec))
      <4>1. "literal secret" \in GroupRead(jobspec)
        BY <2>1, <2>4 DEF GroupRead
      <4> QED BY <2>1, <4>1, JudgedIs
    <3> QED BY <1>a, <3>1, <3>2, JobIsJudged DEF GroupRisks
  <2>5. CASE "literal secret" \in jobspec.task
    <3>1. jobspec.depth = 3
      BY <1>1, <2>5
    <3>2. HasGroups(jobspec) /\ jobspec.depth > 2
      BY <3>1 DEF HasGroups
    <3>3. "dangerous" \in TaskRisks(jobspec.task)
      BY <2>5, TaskIsJudged
    <3> QED BY <1>a, <3>2, <3>3, JobIsJudged DEF InnerRisks
  <2> QED BY <1>5, <2>2, <2>3, <2>4, <2>5
<1>6. ASSUME NEW fact \in jobspec.task \ (Settling \union {"host driver"})
      PROVE  Rank(Highest(JobFindings([jobspec EXCEPT !.task = @ \ {fact}]))) <= Rank(risk)
  <2> DEFINE t == [jobspec EXCEPT !.task = @ \ {fact}]
  <2>1. /\ t.depth = jobspec.depth /\ t.job = jobspec.job /\ t.group = jobspec.group
        /\ t.json = jobspec.json /\ t.task = jobspec.task \ {fact} /\ t.null = jobspec.null
    BY <1>1 DEF IsJob, JobWith
  <2> HIDE DEF t
  <2>2. VolumesRead(t) = VolumesRead(jobspec)
    BY <2>1 DEF VolumesRead
  <2>3. TaskRisks(t.task) \subseteq TaskRisks(jobspec.task)
    BY <2>1, AskingForLess
  <2>4. JobFindings(t) \subseteq S
    BY <2>1, <2>2, <2>3, ReadAlike
  <2>5. JobFindings(t) # {}
    BY <2>1, JobIsJudged, JobFindingsAre
  <2> HIDE DEF S
  <2>6. Rank(Highest(JobFindings(t))) <= Rank(risk)
    BY <2>4, <2>5, HighestOfMore
  <2> QED BY <2>6 DEF t
<1> HIDE DEF risk
<1>7. /\ ~(Volumes \subseteq jobspec.group)
            => risk = Highest(JobFindings([jobspec EXCEPT !.json = ~@]))
      /\ "literal secret" \in (jobspec.job \union jobspec.group) \union jobspec.task
            => risk = "dangerous"
  BY <1>3, <1>4, <1>5 DEF risk
<1>8. \A fact \in jobspec.task \ (Settling \union {"host driver"}) :
        Rank(Highest(JobFindings([jobspec EXCEPT !.task = @ \ {fact}]))) <= Rank(risk)
  BY <1>6, Zenon
<1>9. risk # "safe"
  BY <1>3
<1> QED BY <1>7, <1>8, <1>9, Zenon DEF risk, S

LEMMA JobReported == JobInv => JobIsReported
<1> SUFFICES ASSUME JobInv PROVE JobIsReported
  OBVIOUS
<1>1. JobFindings(jobspec) = {} <=> jobspec.null
  BY JobIsJudged, JobFindingsAre
<1>2. CASE jobspec.null
  BY <1>1, <1>2, Zenon DEF JobIsReported
<1>3. CASE ~jobspec.null
  BY <1>1, <1>3, VerdictOfJob, Zenon DEF JobIsReported
<1> QED BY <1>2, <1>3

LEMMA JobIs ==
    ASSUME NEW used, NEW json, NEW null, NEW depth, NEW job, NEW group, NEW task
    PROVE  LET s == JobWith(used, json, null, depth, job, group, task)
           IN IsJob(s) /\ s.depth = depth /\ s.task = task
BY DEF IsJob, JobWith

LEMMA NoJobIsOne ==
    ASSUME jobspec = NoJob \/ JobInit
    PROVE  JobInv
<1>1. CASE jobspec = NoJob
  <2>1. jobspec = JobWith(FALSE, FALSE, FALSE, 1, {}, {}, {})
    BY <1>1 DEF NoJob, JobWith
  <2> QED BY <2>1 DEF JobInv, IsJob, JobWith
<1>2. CASE JobInit
  <2>1. PICK json \in BOOLEAN, depth \in 1..3 :
            jobspec = [NoJob EXCEPT !.used = TRUE, !.json = json, !.depth = depth,
                                    !.task = IF depth = 3 THEN {"driver", "user"} ELSE {}]
    BY <1>2 DEF JobInit
  <2> DEFINE task == IF depth = 3 THEN {"driver", "user"} ELSE {}
             yes == TRUE
             no == FALSE
             a == [NoJob EXCEPT !.used = TRUE]
             b == [a EXCEPT !.json = json]
             c == [b EXCEPT !.depth = depth]
  <2>2. depth # 3 => task = {}
    OBVIOUS
  <2>3. jobspec = [c EXCEPT !.task = task]
    BY <2>1
  <2>4. a = [NoJob EXCEPT !.used = TRUE]
    OBVIOUS
  <2> HIDE DEF task, a
  <2>5. a = JobWith(TRUE, FALSE, FALSE, 1, {}, {}, {})
    BY <2>4 DEF NoJob, JobWith
  <2>6. a = JobWith(yes, no, no, 1, {}, {}, {})
    BY <2>5
  <2> HIDE DEF yes, no
  <2>7. b = JobWith(yes, json, no, 1, {}, {}, {})
    BY <2>6 DEF JobWith
  <2> HIDE DEF b
  <2>8. c = JobWith(yes, json, no, depth, {}, {}, {})
    BY <2>7 DEF JobWith
  <2> HIDE DEF c
  <2>9. jobspec = JobWith(yes, json, no, depth, {}, {}, task)
    BY <2>3, <2>8 DEF JobWith
  <2>10. IsJob(jobspec) /\ jobspec.depth = depth /\ jobspec.task = task
    BY <2>9 DEF IsJob, JobWith
  <2>11. depth = 1 \/ depth = 2 \/ depth = 3
    OBVIOUS
  <2> QED BY <2>2, <2>10, <2>11 DEF JobInv
<1> QED BY <1>1, <1>2

LEMMA JobRevisions ==
    ASSUME JobInv, NEW new,
           \/ jobspec' = [jobspec EXCEPT !.job = new]
           \/ jobspec' = [jobspec EXCEPT !.group = new]
           \/ jobspec' = [jobspec EXCEPT !.task = new] /\ jobspec.depth = 3
           \/ jobspec' = [jobspec EXCEPT !.null = new]
    PROVE  JobInv'
<1> DEFINE s == jobspec
<1>1. s = JobWith(s.used, s.json, s.null, s.depth, s.job, s.group, s.task)
  BY DEF JobInv, IsJob
<1>2. CASE jobspec' = [jobspec EXCEPT !.job = new]
  <2>1. jobspec' = JobWith(s.used, s.json, s.null, s.depth, new, s.group, s.task)
    BY <1>1, <1>2 DEF JobWith
  <2>2. IsJob(jobspec') /\ jobspec'.depth = s.depth /\ jobspec'.task = s.task
    BY <2>1, JobIs
  <2> QED BY <2>2 DEF JobInv
<1>3. CASE jobspec' = [jobspec EXCEPT !.group = new]
  <2>1. jobspec' = JobWith(s.used, s.json, s.null, s.depth, s.job, new, s.task)
    BY <1>1, <1>3 DEF JobWith
  <2>2. IsJob(jobspec') /\ jobspec'.depth = s.depth /\ jobspec'.task = s.task
    BY <2>1, JobIs
  <2> QED BY <2>2 DEF JobInv
<1>4. CASE jobspec' = [jobspec EXCEPT !.task = new] /\ jobspec.depth = 3
  <2>1. jobspec' = JobWith(s.used, s.json, s.null, s.depth, s.job, s.group, new)
    BY <1>1, <1>4 DEF JobWith
  <2>2. IsJob(jobspec') /\ jobspec'.depth = s.depth
    BY <2>1, JobIs
  <2> QED BY <1>4, <2>2 DEF JobInv
<1>5. CASE jobspec' = [jobspec EXCEPT !.null = new]
  <2>1. jobspec' = JobWith(s.used, s.json, new, s.depth, s.job, s.group, s.task)
    BY <1>1, <1>5 DEF JobWith
  <2>2. IsJob(jobspec') /\ jobspec'.depth = s.depth /\ jobspec'.task = s.task
    BY <2>1, JobIs
  <2> QED BY <2>2 DEF JobInv
<1> QED BY <1>2, <1>3, <1>4, <1>5

LEMMA JobStep ==
    ASSUME JobInv, JobNext
    PROVE  JobInv'
<1>1. jobspec.depth > 2 => jobspec.depth = 3
  BY DEF JobInv
<1>2. ASSUME NEW f, Require(f) PROVE JobInv'
  BY <1>2, JobRevisions DEF Require, EditJob
<1>3. ASSUME NEW f, InGroup(f) PROVE JobInv'
  BY <1>3, JobRevisions DEF InGroup, EditJob
<1>4. ASSUME NEW f, InTask(f) PROVE JobInv'
  BY <1>1, <1>4, JobRevisions DEF InTask, EditJob
<1>5. ASSUME NEW f, Forget(f) PROVE JobInv'
  BY <1>1, <1>5, JobRevisions DEF Forget, EditJob
<1>6. ASSUME LeaveNull PROVE JobInv'
  BY <1>6, JobRevisions DEF LeaveNull, EditJob
<1> QED BY <1>2, <1>3, <1>4, <1>5, <1>6 DEF JobNext

-----------------------------------------------------------------------------
\* Pipelines
Systems == DOMAIN Adapter

LEMMA SystemsAre ==
    ASSUME NEW ci \in Systems
    PROVE  \/ ci = "github"
           \/ ci = "gitlab"
           \/ ci = "circleci"
           \/ ci = "azure"
           \/ ci = "bitbucket"
           \/ ci = "buildkite"
           \/ ci = "travis"
           \/ ci = "drone"
           \/ ci = "woodpecker"
           \/ ci = "concourse"
           \/ ci = "bamboo"
BY DEF Systems, Adapter

\* What an adapter walks of the places and nestings of its system.
WalksAll(ci) ==
    /\ \A place \in Places[ci] : place \in NotWalked \/ place \in Adapter[ci].walks
    /\ \A n \in Nestings[ci] : n \in NotWalked \/ n \in Asks(Adapter[ci].nests)
    /\ \A r \in Adapter[ci].always : r = "review"

LEMMA Walks_github == WalksAll("github")
<1>1. PICK d, s, r :
        Adapter["github"] = [document |-> d, step |-> s,
            walks |-> {"jobs"},
            nests |-> Nothing, always |-> {}, resolved |-> r]
  <2>1. Adapter["github"] = GitHubActions
    BY DEF Adapter
  <2> QED BY <2>1, Zenon DEF GitHubActions
<1>2. Adapter["github"].walks = {"jobs"}
  BY <1>1
<1>3. Adapter["github"].always = {}
  BY <1>1
<1>4. \A place \in Places["github"] : place \in NotWalked \/ place \in Adapter["github"].walks
  <2>1. Places["github"] = {"jobs"}
    BY DEF Places
  <2> QED BY <1>2, <2>1 DEF NotWalked
<1>5. \A n \in Nestings["github"] : n \in NotWalked \/ n \in Asks(Adapter["github"].nests)
  <2>1. Nestings["github"] = {}
    BY DEF Nestings, Places
  <2> QED BY <2>1 DEF NotWalked
<1> QED BY <1>2, <1>3, <1>4, <1>5 DEF WalksAll

LEMMA Walks_gitlab == WalksAll("gitlab")
<1>1. PICK d, s, r :
        Adapter["gitlab"] = [document |-> d, step |-> s,
            walks |-> {"jobs"},
            nests |-> Nothing, always |-> {}, resolved |-> r]
  <2>1. Adapter["gitlab"] = GitLabCI
    BY DEF Adapter
  <2> QED BY <2>1, Zenon DEF GitLabCI
<1>2. Adapter["gitlab"].walks = {"jobs"}
  BY <1>1
<1>3. Adapter["gitlab"].always = {}
  BY <1>1
<1>4. \A place \in Places["gitlab"] : place \in NotWalked \/ place \in Adapter["gitlab"].walks
  <2>1. Places["gitlab"] = {"jobs", "hidden job"}
    BY DEF Places
  <2> QED BY <1>2, <2>1 DEF NotWalked
<1>5. \A n \in Nestings["gitlab"] : n \in NotWalked \/ n \in Asks(Adapter["gitlab"].nests)
  <2>1. Nestings["gitlab"] = {}
    BY DEF Nestings, Places
  <2> QED BY <2>1 DEF NotWalked
<1> QED BY <1>2, <1>3, <1>4, <1>5 DEF WalksAll

LEMMA Walks_circleci == WalksAll("circleci")
<1>1. PICK d, s, r :
        Adapter["circleci"] = [document |-> d, step |-> s,
            walks |-> {"jobs"},
            nests |-> Nothing, always |-> {}, resolved |-> r]
  <2>1. Adapter["circleci"] = CircleCI
    BY DEF Adapter
  <2> QED BY <2>1, Zenon DEF CircleCI
<1>2. Adapter["circleci"].walks = {"jobs"}
  BY <1>1
<1>3. Adapter["circleci"].always = {}
  BY <1>1
<1>4. \A place \in Places["circleci"] : place \in NotWalked \/ place \in Adapter["circleci"].walks
  <2>1. Places["circleci"] = {"jobs", "commands"}
    BY DEF Places
  <2> QED BY <1>2, <2>1 DEF NotWalked
<1>5. \A n \in Nestings["circleci"] : n \in NotWalked \/ n \in Asks(Adapter["circleci"].nests)
  <2>1. Nestings["circleci"] = {"when"}
    BY DEF Nestings, Places
  <2> QED BY <2>1 DEF NotWalked
<1> QED BY <1>2, <1>3, <1>4, <1>5 DEF WalksAll

LEMMA Walks_azure == WalksAll("azure")
<1>1. PICK d, s, r :
        Adapter["azure"] = [document |-> d, step |-> s,
            walks |-> {"steps", "jobs", "stages", "strategy"},
            nests |-> Nothing, always |-> {"review"}, resolved |-> r]
  <2>1. Adapter["azure"] = AzurePipelines
    BY DEF Adapter
  <2> QED BY <2>1, Zenon DEF AzurePipelines
<1>2. Adapter["azure"].walks = {"steps", "jobs", "stages", "strategy"}
  BY <1>1
<1>3. Adapter["azure"].always = {"review"}
  BY <1>1
<1>4. \A place \in Places["azure"] : place \in NotWalked \/ place \in Adapter["azure"].walks
  <2>1. Places["azure"] = {"steps", "jobs", "stages", "strategy"}
    BY DEF Places
  <2> QED BY <1>2, <2>1 DEF NotWalked
<1>5. \A n \in Nestings["azure"] : n \in NotWalked \/ n \in Asks(Adapter["azure"].nests)
  <2>1. Nestings["azure"] = {"template expression"}
    BY DEF Nestings, Places
  <2> QED BY <2>1 DEF NotWalked
<1> QED BY <1>2, <1>3, <1>4, <1>5 DEF WalksAll

LEMMA Walks_bitbucket == WalksAll("bitbucket")
<1>1. PICK d, s, named, r :
        /\ Adapter["bitbucket"] = [document |-> d, step |-> s,
               walks |-> {"default", "branches"},
               nests |-> named, always |-> {"review"}, resolved |-> r]
        /\ named = Say({}, {"parallel", "parallel steps", "stage"}, {})
  <2>1. Adapter["bitbucket"] = BitbucketPipelines
    BY DEF Adapter
  <2> QED BY <2>1, Zenon DEF BitbucketPipelines
<1>2. /\ Adapter["bitbucket"].walks = {"default", "branches"}
      /\ Adapter["bitbucket"].always = {"review"}
      /\ Adapter["bitbucket"].nests = named
  <2>1. Adapter["bitbucket"] = [document |-> d, step |-> s,
            walks |-> {"default", "branches"},
            nests |-> named, always |-> {"review"}, resolved |-> r]
    BY <1>1, Zenon
  <2> QED BY <2>1
<1>3. Adapter["bitbucket"].nests = Say({}, {"parallel", "parallel steps", "stage"}, {})
  BY <1>1, <1>2, Zenon
<1>4. \A place \in Places["bitbucket"] : place \in NotWalked \/ place \in Adapter["bitbucket"].walks
  <2>1. Places["bitbucket"] = {"default", "branches"}
    BY DEF Places
  <2> QED BY <1>2, <2>1 DEF NotWalked
<1>5. \A n \in Nestings["bitbucket"] : n \in NotWalked \/ n \in Asks(Adapter["bitbucket"].nests)
  <2>1. Nestings["bitbucket"] = {"parallel", "parallel steps", "stage"}
    BY DEF Nestings, Places
  <2>2. \A n : n \in {"parallel", "parallel steps", "stage"}
          => n \in Asks(Say({}, {"parallel", "parallel steps", "stage"}, {}))
    BY DEF Asks, Say
  <2> QED BY <1>3, <2>1, <2>2 DEF NotWalked
<1> QED BY <1>2, <1>3, <1>4, <1>5 DEF WalksAll

LEMMA Walks_buildkite == WalksAll("buildkite")
<1>1. PICK d, s, named, r :
        /\ Adapter["buildkite"] = [document |-> d, step |-> s,
               walks |-> {"steps"},
               nests |-> named, always |-> {"review"}, resolved |-> r]
        /\ named = Say({}, {"group"}, {})
  <2>1. Adapter["buildkite"] = Buildkite
    BY DEF Adapter
  <2> QED BY <2>1, Zenon DEF Buildkite
<1>2. /\ Adapter["buildkite"].walks = {"steps"}
      /\ Adapter["buildkite"].always = {"review"}
      /\ Adapter["buildkite"].nests = named
  <2>1. Adapter["buildkite"] = [document |-> d, step |-> s,
            walks |-> {"steps"},
            nests |-> named, always |-> {"review"}, resolved |-> r]
    BY <1>1, Zenon
  <2> QED BY <2>1
<1>3. Adapter["buildkite"].nests = Say({}, {"group"}, {})
  BY <1>1, <1>2, Zenon
<1>4. \A place \in Places["buildkite"] : place \in NotWalked \/ place \in Adapter["buildkite"].walks
  <2>1. Places["buildkite"] = {"steps"}
    BY DEF Places
  <2> QED BY <1>2, <2>1 DEF NotWalked
<1>5. \A n \in Nestings["buildkite"] : n \in NotWalked \/ n \in Asks(Adapter["buildkite"].nests)
  <2>1. Nestings["buildkite"] = {"group"}
    BY DEF Nestings, Places
  <2>2. \A n : n \in {"group"}
          => n \in Asks(Say({}, {"group"}, {}))
    BY DEF Asks, Say
  <2> QED BY <1>3, <2>1, <2>2 DEF NotWalked
<1> QED BY <1>2, <1>3, <1>4, <1>5 DEF WalksAll

LEMMA Walks_travis == WalksAll("travis")
<1>1. PICK d, s, r :
        Adapter["travis"] = [document |-> d, step |-> s,
            walks |-> {"document", "jobs"},
            nests |-> Nothing, always |-> {"review"}, resolved |-> r]
  <2>1. Adapter["travis"] = TravisCI
    BY DEF Adapter
  <2> QED BY <2>1, Zenon DEF TravisCI
<1>2. Adapter["travis"].walks = {"document", "jobs"}
  BY <1>1
<1>3. Adapter["travis"].always = {"review"}
  BY <1>1
<1>4. \A place \in Places["travis"] : place \in NotWalked \/ place \in Adapter["travis"].walks
  <2>1. Places["travis"] = {"document", "jobs", "matrix"}
    BY DEF Places
  <2> QED BY <1>2, <2>1 DEF NotWalked
<1>5. \A n \in Nestings["travis"] : n \in NotWalked \/ n \in Asks(Adapter["travis"].nests)
  <2>1. Nestings["travis"] = {}
    BY DEF Nestings, Places
  <2> QED BY <2>1 DEF NotWalked
<1> QED BY <1>2, <1>3, <1>4, <1>5 DEF WalksAll

LEMMA Walks_drone == WalksAll("drone")
<1>1. PICK d, s, r :
        Adapter["drone"] = [document |-> d, step |-> s,
            walks |-> {"steps", "services"},
            nests |-> Nothing, always |-> {"review"}, resolved |-> r]
  <2>1. Adapter["drone"] = ContainerPipeline
    BY DEF Adapter
  <2> QED BY <2>1, Zenon DEF ContainerPipeline
<1>2. Adapter["drone"].walks = {"steps", "services"}
  BY <1>1
<1>3. Adapter["drone"].always = {"review"}
  BY <1>1
<1>4. \A place \in Places["drone"] : place \in NotWalked \/ place \in Adapter["drone"].walks
  <2>1. Places["drone"] = {"steps", "services"}
    BY DEF Places
  <2> QED BY <1>2, <2>1 DEF NotWalked
<1>5. \A n \in Nestings["drone"] : n \in NotWalked \/ n \in Asks(Adapter["drone"].nests)
  <2>1. Nestings["drone"] = {}
    BY DEF Nestings, Places
  <2> QED BY <2>1 DEF NotWalked
<1> QED BY <1>2, <1>3, <1>4, <1>5 DEF WalksAll

LEMMA Walks_woodpecker == WalksAll("woodpecker")
<1>1. PICK d, s, r :
        Adapter["woodpecker"] = [document |-> d, step |-> s,
            walks |-> {"steps", "services"},
            nests |-> Nothing, always |-> {"review"}, resolved |-> r]
  <2>1. Adapter["woodpecker"] = ContainerPipeline
    BY DEF Adapter
  <2> QED BY <2>1, Zenon DEF ContainerPipeline
<1>2. Adapter["woodpecker"].walks = {"steps", "services"}
  BY <1>1
<1>3. Adapter["woodpecker"].always = {"review"}
  BY <1>1
<1>4. \A place \in Places["woodpecker"] : place \in NotWalked \/ place \in Adapter["woodpecker"].walks
  <2>1. Places["woodpecker"] = {"steps", "services", "clone"}
    BY DEF Places
  <2> QED BY <1>2, <2>1 DEF NotWalked
<1>5. \A n \in Nestings["woodpecker"] : n \in NotWalked \/ n \in Asks(Adapter["woodpecker"].nests)
  <2>1. Nestings["woodpecker"] = {}
    BY DEF Nestings, Places
  <2> QED BY <2>1 DEF NotWalked
<1> QED BY <1>2, <1>3, <1>4, <1>5 DEF WalksAll

LEMMA Walks_concourse == WalksAll("concourse")
<1>1. PICK d, s, named, r :
        /\ Adapter["concourse"] = [document |-> d, step |-> s,
               walks |-> {"plan", "on_success", "on_failure", "on_abort", "ensure"},
               nests |-> named, always |-> {"review"}, resolved |-> r]
        /\ named = ConcourseNests
  <2>1. Adapter["concourse"] = Concourse
    BY DEF Adapter
  <2> QED BY <2>1, Zenon DEF Concourse
<1>2. /\ Adapter["concourse"].walks = {"plan", "on_success", "on_failure", "on_abort", "ensure"}
      /\ Adapter["concourse"].always = {"review"}
      /\ Adapter["concourse"].nests = named
  <2>1. Adapter["concourse"] = [document |-> d, step |-> s,
            walks |-> {"plan", "on_success", "on_failure", "on_abort", "ensure"},
            nests |-> named, always |-> {"review"}, resolved |-> r]
    BY <1>1, Zenon
  <2> QED BY <2>1
<1>3. Adapter["concourse"].nests = ConcourseNests
  BY <1>1, <1>2, Zenon
<1>4. \A place \in Places["concourse"] : place \in NotWalked \/ place \in Adapter["concourse"].walks
  <2>1. Places["concourse"] = {"plan"} \union Hooks
    BY DEF Places
  <2> QED BY <1>2, <2>1 DEF NotWalked, Hooks
<1>5. \A n \in Nestings["concourse"] : n \in NotWalked \/ n \in Asks(Adapter["concourse"].nests)
  <2>1. Nestings["concourse"] = {"do", "in_parallel", "in_parallel steps", "try"} \union Hooks
    BY DEF Nestings, Places
  <2>2. \A n : n \in {"do", "in_parallel", "in_parallel steps", "on_success", "on_failure", "on_abort", "ensure", "try"}
          => n \in Asks(ConcourseNests)
    BY DEF Asks, Say, ConcourseNests
  <2> QED BY <1>3, <2>1, <2>2 DEF NotWalked, Hooks
<1> QED BY <1>2, <1>3, <1>4, <1>5 DEF WalksAll

LEMMA Walks_bamboo == WalksAll("bamboo")
<1>1. PICK d, s, r :
        Adapter["bamboo"] = [document |-> d, step |-> s,
            walks |-> {"tasks", "final-tasks", "environment"},
            nests |-> Nothing, always |-> {"review"}, resolved |-> r]
  <2>1. Adapter["bamboo"] = Bamboo
    BY DEF Adapter
  <2> QED BY <2>1, Zenon DEF Bamboo
<1>2. Adapter["bamboo"].walks = {"tasks", "final-tasks", "environment"}
  BY <1>1
<1>3. Adapter["bamboo"].always = {"review"}
  BY <1>1
<1>4. \A place \in Places["bamboo"] : place \in NotWalked \/ place \in Adapter["bamboo"].walks
  <2>1. Places["bamboo"] = {"tasks", "final-tasks", "environment"}
    BY DEF Places
  <2> QED BY <1>2, <2>1 DEF NotWalked
<1>5. \A n \in Nestings["bamboo"] : n \in NotWalked \/ n \in Asks(Adapter["bamboo"].nests)
  <2>1. Nestings["bamboo"] = {}
    BY DEF Nestings, Places
  <2> QED BY <2>1 DEF NotWalked
<1> QED BY <1>2, <1>3, <1>4, <1>5 DEF WalksAll

LEMMA AdaptersWalk == \A ci \in Systems : WalksAll(ci)
BY SystemsAre, Walks_github,
   Walks_gitlab,
   Walks_circleci,
   Walks_azure,
   Walks_bitbucket,
   Walks_buildkite,
   Walks_travis,
   Walks_drone,
   Walks_woodpecker,
   Walks_concourse,
   Walks_bamboo

\* A step that stands for others is for a review, or dangerous.
LEMMA TemplatesAre ==
    ASSUME NEW ci \in DOMAIN Templates, NEW t \in Templates[ci]
    PROVE  /\ t \in Adapter[ci].step.review \/ t \in Adapter[ci].step.dangerous
           /\ t # "secret"
<1>1. ci = "github" \/ ci = "azure"
  BY DEF Templates
<1>2. CASE ci = "github"
  <2>1. t = "workflow" \/ t = "pinned workflow"
    BY <1>2 DEF Templates
  <2>2. Adapter["github"] = GitHubActions
    BY DEF Adapter
  <2>3. "workflow" \in GitHubActions.step.dangerous /\ "pinned workflow" \in GitHubActions.step.review
    BY DEF GitHubActions, Say
  <2> QED BY <1>2, <2>1, <2>2, <2>3
<1>3. CASE ci = "azure"
  <2>1. t = "template step" \/ t = "remote template step"
    BY <1>3 DEF Templates
  <2>2. Adapter["azure"].step = AzureStep
    BY DEF Adapter, AzurePipelines
  <2>3. "template step" \in AzureStep.review /\ "remote template step" \in AzureStep.dangerous
    BY DEF AzureStep, Say
  <2> QED BY <1>3, <2>1, <2>2, <2>3
<1> QED BY <1>1, <1>2, <1>3

LEMMA SaidIs ==
    ASSUME NEW table, NEW asked
    PROVE  /\ Judged3(Said(table, asked))
           /\ "dangerous" \in Said(table, asked) <=> table.dangerous \intersect asked # {}
           /\ "review" \in Said(table, asked) <=> table.review \intersect asked # {}
           /\ "safe" \in Said(table, asked) <=> table.safe \intersect asked # {}
BY DEF Said, Judged3

PipeWith(used, ci, place, nesting, declares, asks) ==
    [used |-> used, ci |-> ci, place |-> place, nesting |-> nesting, declares |-> declares,
     asks |-> asks]

\* A pipeline is one its system can have, and its step asks for something.
IsPipeline(p) ==
    /\ p = PipeWith(p.used, p.ci, p.place, p.nesting, p.declares, p.asks)
    /\ p.ci \in Systems
    /\ p.place \in Places[p.ci]
    /\ p.nesting \in Seq(Nestings[p.ci])
    /\ p.asks \in SUBSET Asks(Adapter[p.ci].step)

PipelineInv == IsPipeline(pipeline) /\ (pipeline.used => pipeline.asks # {})

NestRisks(p) ==
    IF p.place \in Adapter[p.ci].walks
    THEN Said(Adapter[p.ci].nests, {p.nesting[k] : k \in Followed(p)}) ELSE {}
AskedOf(p) == IF IsTemplate(p) THEN p.asks \ {"secret"} ELSE p.asks
StepRisks(p) ==
    IF ~Reached(p) THEN {"review"}
    ELSE Said(Adapter[p.ci].step, AskedOf(p)) \union (IF Unresolved(p) THEN {"review"} ELSE {})

LEMMA PipelineFindingsAre ==
    \A p : PipelineFindings(p)
             = (((Adapter[p.ci].always \union Defaults(p))
                  \union Said(Adapter[p.ci].document, p.declares)) \union NestRisks(p))
                \union StepRisks(p)
BY Zenon DEF PipelineFindings, NestRisks, StepRisks, AskedOf, Cut

LEMMA PipelineIsFound ==
    ASSUME NEW p, IsPipeline(p)
    PROVE  /\ Judged3(PipelineFindings(p))
           /\ StepRisks(p) \subseteq PipelineFindings(p)
           /\ Said(Adapter[p.ci].document, p.declares) \subseteq PipelineFindings(p)
<1>1. Judged3(Adapter[p.ci].always)
  BY AdaptersWalk DEF IsPipeline, WalksAll, Judged3
<1>2. Judged3(Defaults(p))
  BY DEF Defaults, Judged3
<1>3. Judged3(Said(Adapter[p.ci].document, p.declares))
  BY SaidIs
<1>4. Judged3({}) /\ Judged3({"review"})
  BY DEF Judged3
<1>5. Judged3(NestRisks(p))
  BY <1>4, SaidIs DEF NestRisks
<1>6. Judged3(StepRisks(p))
  <2>1. Judged3(Said(Adapter[p.ci].step, AskedOf(p)))
    BY SaidIs
  <2> QED BY <1>4, <2>1 DEF StepRisks, Judged3
<1>7. \A a, b : Judged3(a) /\ Judged3(b) => Judged3(a \union b)
  BY DEF Judged3
<1>8. Judged3(PipelineFindings(p))
  BY <1>1, <1>2, <1>3, <1>5, <1>6, <1>7, PipelineFindingsAre
<1>9. /\ StepRisks(p) \subseteq PipelineFindings(p)
      /\ Said(Adapter[p.ci].document, p.declares) \subseteq PipelineFindings(p)
  BY PipelineFindingsAre
<1> QED BY <1>8, <1>9

\* Away from the places that are not walked the walk reaches the step.
LEMMA WalkReaches ==
    ASSUME NEW p, IsPipeline(p), p.place \notin NotWalked,
           \A k \in DOMAIN p.nesting : p.nesting[k] \notin NotWalked
    PROVE  Reached(p)
<1>1. WalksAll(p.ci)
  BY AdaptersWalk DEF IsPipeline
<1>2. p.place \in Adapter[p.ci].walks
  BY <1>1 DEF WalksAll, IsPipeline
<1>3. \A k \in DOMAIN p.nesting : p.nesting[k] \in Nestings[p.ci]
  BY DEF IsPipeline
<1>4. \A k \in DOMAIN p.nesting : p.nesting[k] \in Asks(Adapter[p.ci].nests)
  BY <1>1, <1>3 DEF WalksAll
<1>5. DOMAIN p.nesting = 1..Len(p.nesting) /\ Len(p.nesting) \in Nat
  BY DEF IsPipeline
<1>6. \A k \in DOMAIN p.nesting : \A i \in 1..k : i \in DOMAIN p.nesting
  BY <1>5
<1>7. Followed(p) = DOMAIN p.nesting
  BY <1>4, <1>6 DEF Followed
<1> QED BY <1>2, <1>7 DEF Reached

LEMMA StepIsSafe ==
    ASSUME NEW p, IsPipeline(p), p.asks # {},
           "review" \notin StepRisks(p), "dangerous" \notin StepRisks(p)
    PROVE  p.asks \subseteq Adapter[p.ci].step.safe /\ "safe" \in StepRisks(p)
<1> DEFINE step == Adapter[p.ci].step
           asked == AskedOf(p)
<1>1. Reached(p)
  BY DEF StepRisks
<1>2. Said(step, asked) \subseteq StepRisks(p)
  BY <1>1 DEF StepRisks
<1>3. step.dangerous \intersect asked = {} /\ step.review \intersect asked = {}
  BY <1>2, SaidIs
<1>4. ~IsTemplate(p)
  <2> SUFFICES ASSUME IsTemplate(p) PROVE FALSE
    OBVIOUS
  <2>1. PICK t : p.ci \in DOMAIN Templates /\ t \in p.asks /\ t \in Templates[p.ci]
    BY DEF IsTemplate
  <2>2. t \in asked
    BY <2>1, TemplatesAre DEF AskedOf
  <2> QED BY <1>3, <2>1, <2>2, TemplatesAre
<1>5. asked = p.asks
  BY <1>4 DEF AskedOf
<1>6. \A f \in p.asks : f \in step.safe \/ f \in step.review \/ f \in step.dangerous
  BY DEF IsPipeline, Asks
<1>7. p.asks \subseteq step.safe
  BY <1>3, <1>5, <1>6
<1>8. "safe" \in Said(step, asked)
  BY <1>5, <1>7, SaidIs
<1> QED BY <1>2, <1>7, <1>8

LEMMA PipelineReported ==
    ASSUME PipelineInv, pipeline.used
    PROVE  PipelineIsReported
<1> DEFINE p == pipeline
           S == PipelineFindings(p)
           risk == Highest(S)
           bad == p.asks \intersect Adapter[p.ci].step.dangerous
           nesting == {p.nesting[k] : k \in DOMAIN p.nesting}
<1>1. IsPipeline(p) /\ p.asks # {}
  BY DEF PipelineInv
<1>2. /\ Judged3(S) /\ StepRisks(p) \subseteq S
      /\ Said(Adapter[p.ci].document, p.declares) \subseteq S
  BY <1>1, PipelineIsFound
<1>3. S # {}
  BY <1>1, <1>2, StepIsSafe
<1>4. "dangerous" \in S => risk = "dangerous"
  BY <1>2, <1>3, WorstIs
<1>5. risk = "safe" => p.asks \subseteq Adapter[p.ci].step.safe
  <2> SUFFICES ASSUME risk = "safe" PROVE p.asks \subseteq Adapter[p.ci].step.safe
    OBVIOUS
  <2>1. "dangerous" \notin S /\ "review" \notin S
    BY <1>2, <1>3, WorstIs
  <2> QED BY <1>1, <1>2, <2>1, StepIsSafe
<1>6. ASSUME ({p.place} \union nesting) \intersect NotWalked = {}, bad # {},
             ~(IsTemplate(p) /\ bad = {"secret"})
      PROVE  "dangerous" \in S
  <2>1. /\ p.place \notin NotWalked
        /\ \A k \in DOMAIN p.nesting : p.nesting[k] \notin NotWalked
    BY <1>6
  <2>2. Reached(p)
    BY <1>1, <2>1, WalkReaches
  <2>3. Adapter[p.ci].step.dangerous \intersect AskedOf(p) # {}
    <3>1. CASE IsTemplate(p)
      <4>1. PICK f \in bad : f # "secret"
        BY <1>6, <3>1
      <4> QED BY <3>1, <4>1 DEF AskedOf
    <3>2. CASE ~IsTemplate(p)
      BY <1>6, <3>2 DEF AskedOf
    <3> QED BY <3>1, <3>2
  <2>4. "dangerous" \in Said(Adapter[p.ci].step, AskedOf(p))
    BY <2>3, SaidIs
  <2>5. "dangerous" \in StepRisks(p)
    BY <2>2, <2>4 DEF StepRisks
  <2> QED BY <1>2, <2>5
<1>7. p.declares \intersect Adapter[p.ci].document.dangerous # {} => "dangerous" \in S
  BY <1>2, SaidIs
<1> HIDE DEF risk, S
<1> QED BY <1>4, <1>5, <1>6, <1>7, Zenon DEF PipelineIsReported, risk, S


LEMMA PipelineParts ==
    ASSUME NEW used, NEW ci, NEW place, NEW nesting, NEW declares, NEW asks, NEW p,
           p = PipeWith(used, ci, place, nesting, declares, asks)
    PROVE  /\ p.used = used /\ p.ci = ci /\ p.place = place /\ p.nesting = nesting
           /\ p.declares = declares /\ p.asks = asks
BY DEF PipeWith

LEMMA LongerPath ==
    ASSUME NEW S, NEW path \in Seq(S), NEW e \in S
    PROVE  <<e>> \o path \in Seq(S)
OBVIOUS

LEMMA PipelineIs ==
    ASSUME NEW used, NEW ci \in Systems, NEW place \in Places[ci],
           NEW nesting \in Seq(Nestings[ci]), NEW declares,
           NEW asks \in SUBSET Asks(Adapter[ci].step), NEW p,
           p = PipeWith(used, ci, place, nesting, declares, asks)
    PROVE  IsPipeline(p)
<1>1. /\ p.used = used /\ p.ci = ci /\ p.place = place /\ p.nesting = nesting
      /\ p.declares = declares /\ p.asks = asks
  BY PipelineParts
<1>2. p = PipeWith(p.used, p.ci, p.place, p.nesting, p.declares, p.asks)
  BY <1>1
<1> QED BY <1>1, <1>2 DEF IsPipeline

LEMMA NoPipelineIsOne ==
    ASSUME pipeline = NoPipeline
    PROVE  PipelineInv
<1>1. pipeline = PipeWith(FALSE, "github", "jobs", <<>>, {}, {})
  BY DEF NoPipeline, PipeWith
<1>2. "github" \in Systems
  BY DEF Systems, Adapter
<1>3. "jobs" \in Places["github"]
  BY DEF Places
<1>4. IsPipeline(pipeline)
  <2>1. <<>> \in Seq(Nestings["github"])
    OBVIOUS
  <2>2. {} \in SUBSET Asks(Adapter["github"].step)
    OBVIOUS
  <2> DEFINE no == FALSE
  <2>3. pipeline = PipeWith(no, "github", "jobs", <<>>, {}, {})
    BY <1>1
  <2> HIDE DEF no
  <2> QED BY <1>2, <1>3, <2>1, <2>2, <2>3, PipelineIs
<1>5. pipeline.used = FALSE
  BY DEF NoPipeline
<1> QED BY <1>4, <1>5 DEF PipelineInv

LEMMA PipelineStart ==
    ASSUME PipelineInit
    PROVE  PipelineInv
<1>1. PICK ci \in Systems : \E place \in Places[ci] : \E fact \in Asks(Adapter[ci].step) :
          pipeline = [NoPipeline EXCEPT !.used = TRUE, !.ci = ci, !.place = place,
                                        !.asks = {fact}]
  BY Zenon DEF PipelineInit, Systems
<1>2. PICK place \in Places[ci], fact \in Asks(Adapter[ci].step) :
          pipeline = [NoPipeline EXCEPT !.used = TRUE, !.ci = ci, !.place = place,
                                        !.asks = {fact}]
  BY <1>1
<1> DEFINE yes == TRUE
           path == <<>>
           asks == {fact}
           a == [NoPipeline EXCEPT !.used = TRUE]
           b == [a EXCEPT !.ci = ci]
           c == [b EXCEPT !.place = place]
<1>3. pipeline = [c EXCEPT !.asks = asks]
  BY <1>2
<1>4. asks # {} /\ asks \in SUBSET Asks(Adapter[ci].step)
  OBVIOUS
<1> HIDE DEF asks
<1>5. a = [NoPipeline EXCEPT !.used = TRUE]
  OBVIOUS
<1> HIDE DEF a
<1>6. a = PipeWith(TRUE, "github", "jobs", <<>>, {}, {})
  BY <1>5 DEF NoPipeline, PipeWith
<1>7. a = PipeWith(yes, "github", "jobs", path, {}, {})
  BY <1>6
<1>11. path \in Seq(Nestings[ci])
  OBVIOUS
<1> HIDE DEF yes, path
<1>8. b = PipeWith(yes, ci, "jobs", path, {}, {})
  BY <1>7 DEF PipeWith
<1> HIDE DEF b
<1>9. c = PipeWith(yes, ci, place, path, {}, {})
  BY <1>8 DEF PipeWith
<1> HIDE DEF c
<1>10. pipeline = PipeWith(yes, ci, place, path, {}, asks)
  BY <1>3, <1>9 DEF PipeWith
<1>12. IsPipeline(pipeline)
  BY <1>4, <1>10, <1>11, PipelineIs
<1>13. pipeline.asks = asks
  BY <1>10, PipelineParts
<1> QED BY <1>4, <1>12, <1>13 DEF PipelineInv

LEMMA PipelineStep ==
    ASSUME PipelineInv, pipeline.used, PipelineNext
    PROVE  PipelineInv'
<1> DEFINE p == pipeline
<1>1. /\ p = PipeWith(p.used, p.ci, p.place, p.nesting, p.declares, p.asks)
      /\ p.ci \in Systems /\ p.place \in Places[p.ci]
      /\ p.nesting \in Seq(Nestings[p.ci])
      /\ p.asks \in SUBSET Asks(Adapter[p.ci].step)
      /\ p.asks # {}
  BY DEF PipelineInv, IsPipeline
<1>2. ASSUME NEW f, Declare(f) PROVE PipelineInv'
  <2> DEFINE new == p.declares \union {f}
  <2>1. p' = [p EXCEPT !.declares = new]
    BY <1>2 DEF Declare, EditPipeline
  <2> HIDE DEF new
  <2>2. p' = PipeWith(p.used, p.ci, p.place, p.nesting, new, p.asks)
    BY <1>1, <2>1 DEF PipeWith
  <2>3. IsPipeline(p') /\ p'.asks = p.asks
    <3>1. IsPipeline(p')
      BY <1>1, <2>2, PipelineIs
    <3>2. p'.asks = p.asks
      BY <2>2 DEF PipeWith
    <3> QED BY <3>1, <3>2
  <2> QED BY <1>1, <2>3 DEF PipelineInv
<1>3. ASSUME NEW f \in Asks(Adapter[p.ci].step), AddToStep(f) PROVE PipelineInv'
  <2> DEFINE new == p.asks \union {f}
  <2>1. p' = [p EXCEPT !.asks = new]
    BY <1>3 DEF AddToStep, EditPipeline
  <2>2. new # {} /\ new \in SUBSET Asks(Adapter[p.ci].step)
    BY <1>1
  <2> HIDE DEF new
  <2>3. p' = PipeWith(p.used, p.ci, p.place, p.nesting, p.declares, new)
    BY <1>1, <2>1 DEF PipeWith
  <2>4. IsPipeline(p') /\ p'.asks = new
    <3>1. IsPipeline(p')
      BY <1>1, <2>2, <2>3, PipelineIs
    <3>2. p'.asks = new
      BY <2>3 DEF PipeWith
    <3> QED BY <3>1, <3>2
  <2> QED BY <2>2, <2>4 DEF PipelineInv
<1>4. ASSUME NEW in \in Nestings[p.ci], Nest(in) PROVE PipelineInv'
  <2> DEFINE new == <<in>> \o p.nesting
  <2>1. p' = [p EXCEPT !.nesting = new]
    BY <1>4 DEF Nest, EditPipeline
  <2>2. new \in Seq(Nestings[p.ci])
    BY <1>1, LongerPath
  <2> HIDE DEF new
  <2>3. p' = PipeWith(p.used, p.ci, p.place, new, p.declares, p.asks)
    BY <1>1, <2>1 DEF PipeWith
  <2>4. IsPipeline(p') /\ p'.asks = p.asks
    <3>1. IsPipeline(p')
      BY <1>1, <2>2, <2>3, PipelineIs
    <3>2. p'.asks = p.asks
      BY <2>3 DEF PipeWith
    <3> QED BY <3>1, <3>2
  <2> QED BY <1>1, <2>4 DEF PipelineInv
<1> QED BY <1>2, <1>3, <1>4 DEF PipelineNext

-----------------------------------------------------------------------------
WorkloadInv == ServiceInv /\ PlanInv /\ JobInv /\ PipelineInv

LEMMA WorkloadsStart == InputsInit => WorkloadInv
<1>1. /\ service = NoService \/ ServiceInit
      /\ nomad = NothingPlanned \/ NomadInit
      /\ jobspec = NoJob \/ JobInit
      /\ pipeline = NoPipeline \/ PipelineInit
      => WorkloadInv
  BY NoServiceIsOne, NoPlanIsOne, NoJobIsOne, NoPipelineIsOne, PipelineStart DEF WorkloadInv
<1> QED BY <1>1 DEF InputsInit, Terraform, NoSnapshot, NoWorkload, WorkloadInit

LEMMA ServiceStays == ServiceInv /\ UNCHANGED service => ServiceInv'
BY DEF ServiceInv

LEMMA PlanStays == PlanInv /\ UNCHANGED nomad => PlanInv'
<1> SUFFICES ASSUME PlanInv, UNCHANGED nomad PROVE PlanInv'
  OBVIOUS
<1>1. FoundIn(nomad') = FoundIn(nomad) /\ (IsPlan(nomad') <=> IsPlan(nomad))
  OBVIOUS
<1> QED BY <1>1 DEF PlanInv

LEMMA JobStays == JobInv /\ UNCHANGED jobspec => JobInv'
BY DEF JobInv

LEMMA PipelineStays == PipelineInv /\ UNCHANGED pipeline => PipelineInv'
BY DEF PipelineInv

LEMMA WorkloadsKept ==
    ASSUME WorkloadInv, [InputsNext]_inputs
    PROVE  WorkloadInv'
<1>1. ServiceInv /\ PlanInv /\ JobInv /\ PipelineInv
  BY DEF WorkloadInv
<1>2. UNCHANGED service \/ \E f \in ServiceFacts : AskFor(f)
  BY DEF InputsNext, inputs, workloads
<1>3. UNCHANGED nomad \/ NomadNext
  BY DEF InputsNext, inputs, workloads
<1>4. UNCHANGED jobspec \/ JobNext
  BY DEF InputsNext, inputs, workloads
<1>5. UNCHANGED pipeline \/ (pipeline.used /\ PipelineNext)
  BY DEF InputsNext, inputs, workloads
<1>6. ServiceInv'
  BY <1>1, <1>2, ServiceStep, ServiceStays
<1>7. PlanInv'
  BY <1>1, <1>3, PlanStep, PlanStays
<1>8. JobInv'
  BY <1>1, <1>4, JobStep, JobStays
<1>9. PipelineInv'
  BY <1>1, <1>5, PipelineStep, PipelineStays
<1> QED BY <1>6, <1>7, <1>8, <1>9 DEF WorkloadInv

\* The workloads are such as the adapters may be given, and a Nomad plan counts no step
\* that planned nothing.
THEOREM WorkloadsAreWorkloads == InputsSpec => []WorkloadInv
<1>1. WorkloadInv /\ [InputsNext]_inputs => WorkloadInv'
  BY WorkloadsKept
<1> QED BY <1>1, WorkloadsStart, PTL DEF InputsSpec

LEMMA WorkloadsFollow == WorkloadInv => WorkloadsAreReported
<1> SUFFICES ASSUME WorkloadInv PROVE WorkloadsAreReported
  OBVIOUS
<1>1. nomad.used => PlanIsReported
  BY PlanReported DEF WorkloadInv
<1>2. jobspec.used => JobIsReported
  BY JobReported DEF WorkloadInv
<1>3. pipeline.used => PipelineIsReported
  BY PipelineReported DEF WorkloadInv
<1>4. service.facts \ Hardening # {} =>
         Highest(ServiceFindings(service.facts))
           = Highest(ServiceFindings(service.facts \ Hardening))
  BY HardeningHidesNothing DEF WorkloadInv, ServiceInv
<1> QED BY <1>1, <1>2, <1>3, <1>4 DEF WorkloadsAreReported

\* However long it took to write it: what a Nomad plan takes away or lets a task do is
\* dangerous at every depth, a secret at every level of a job that is not refused for a
\* null list, in either syntax unless it has several volumes, and what a pipeline runs
\* wherever it stands, but in the places NotWalked and but for the secrets passed to a
\* template; and no hardening hides what a Compose service exposes
\* (adapters/workloads.py 145-602, nomad_job.py 99-554, pipelines.py 139-2650).
THEOREM WorkloadsAreAllReported == InputsSpec => []WorkloadsAreReported
BY WorkloadsAreWorkloads, WorkloadsFollow, PTL

-----------------------------------------------------------------------------
(* Manifests                                                               *)

Kinds ==
    {"Deployment", "ClusterRole", "Service", "MutatingWebhookConfiguration", "Widget", None}
Groups == {"apps", "rbac", "knative.dev", "admission", "acme.io"}
ObjectNames == {"a", "b", None}
Spaces == {"n1", "n2", None}
Contents == {0, 1}
Manifested ==
    [kind : Kinds, group : Groups, name : ObjectNames, namespace : Spaces,
     compared : Contents, other : Contents]

\* Of the kinds there are here the cluster-wide ones are those the adapter lists.
LEMMA KindsAre ==
    /\ \A kind \in Kinds : kind \in ClusterScopedKinds <=> kind \in ClusterWide
    /\ \A group \in Groups : group # "karpenter.sh"
<1>1. \A kind \in Kinds : kind \in ClusterScopedKinds <=> kind \in ClusterWide
  BY DEF Kinds, ClusterScopedKinds, ClusterWide, SensitiveControlPlaneKinds, None
<1>2. \A group \in Groups : group # "karpenter.sh"
  BY DEF Groups
<1> QED BY <1>1, <1>2

LEMMA SameIsIdentity ==
    ASSUME NEW r \in Manifested, NEW s \in Manifested
    PROVE  SameObject(r, s) <=> Identity(r) = Identity(s)
<1>1. r.kind \in Kinds /\ s.kind \in Kinds /\ r.group \in Groups /\ s.group \in Groups
  BY DEF Manifested
<1>2. /\ Namespace(r) = IF r.kind \in ClusterWide THEN Nowhere ELSE r.namespace
      /\ Namespace(s) = IF s.kind \in ClusterWide THEN Nowhere ELSE s.namespace
  BY <1>1, KindsAre DEF Namespace
<1>3. Identity(r) = Identity(s)
        <=> r.kind = s.kind /\ r.name = s.name /\ Namespace(r) = Namespace(s)
  BY DEF Identity
<1> QED BY <1>2, <1>3 DEF SameObject

\* No two manifests of a list are of one object.
Apart(list) ==
    \A i, j \in DOMAIN list : Identity(list[i]) = Identity(list[j]) => i = j

LEMMA DomainIsFinite ==
    ASSUME NEW S, NEW list \in Seq(S)
    PROVE  /\ IsFiniteSet(DOMAIN list) /\ Cardinality(DOMAIN list) = Len(list)
           /\ DOMAIN list = 1..Len(list) /\ Len(list) \in Nat
<1>1. DOMAIN list = 1..Len(list) /\ Len(list) \in Nat
  OBVIOUS
<1>2. IsFiniteSet(1..Len(list)) /\ Cardinality(1..Len(list)) = Len(list)
  <2>1. 1 \in Int /\ Len(list) \in Int
    BY <1>1
  <2>2. /\ IsFiniteSet(1..Len(list))
        /\ Cardinality(1..Len(list)) = IF 1 > Len(list) THEN 0 ELSE Len(list) - 1 + 1
    BY <2>1, FS_Interval
  <2> QED BY <1>1, <2>2
<1> QED BY <1>1, <1>2

LEMMA AmbiguousIs ==
    ASSUME NEW list \in Seq(Manifested)
    PROVE  ~Ambiguous(list) <=> Apart(list)
<1> DEFINE f == [i \in DOMAIN list |-> Identity(list[i])]
<1>1. f \in Surjection(DOMAIN list, Identities(list))
  BY DEF Surjection, Identities
<1>2. Cardinality(Identities(list)) = Len(list)
        <=> f \in Injection(DOMAIN list, Identities(list))
  <2>1. IsFiniteSet(DOMAIN list) /\ Cardinality(DOMAIN list) = Len(list)
    BY DomainIsFinite
  <2> HIDE DEF f
  <2>2. Cardinality(Identities(list)) = Cardinality(DOMAIN list)
          <=> f \in Injection(DOMAIN list, Identities(list))
    BY <1>1, <2>1, FS_Surjection
  <2> QED BY <2>1, <2>2
<1>3. f \in Injection(DOMAIN list, Identities(list)) <=> Apart(list)
  BY DEF Injection, IsInjective, Apart, Identities
<1> QED BY <1>2, <1>3 DEF Ambiguous

\* What identifies a manifest of such a list finds it.
LEMMA ManifestIs ==
    ASSUME NEW list \in Seq(Manifested), Apart(list), NEW i \in DOMAIN list
    PROVE  Manifest(list, Identity(list[i])) = list[i]
<1> DEFINE Last(k) == /\ Identity(list[k]) = Identity(list[i])
                      /\ \A j \in DOMAIN list : Identity(list[j]) = Identity(list[i]) => j <= k
<1>1. \A j \in DOMAIN list : j <= j
  BY DomainIsFinite
<1>2. Last(i)
  BY <1>1 DEF Apart
<1>3. \A k \in DOMAIN list : Last(k) => k = i
  BY DEF Apart
<1>4. Manifest(list, Identity(list[i])) = list[CHOOSE k \in DOMAIN list : Last(k)]
  BY DEF Manifest
<1> HIDE DEF Last
<1>5. (CHOOSE k \in DOMAIN list : Last(k)) = i
  BY <1>2, <1>3
<1> QED BY <1>4, <1>5

\* Changes reported of different objects are different.
Reports(action, list, D) == {Reported(action, list[i]) : i \in D}

LEMMA ReportsAreCounted ==
    ASSUME NEW list \in Seq(Manifested), Apart(list), NEW action,
           NEW D \in SUBSET DOMAIN list
    PROVE  /\ IsFiniteSet(Reports(action, list, D))
           /\ Cardinality(Reports(action, list, D)) = Cardinality(D)
<1> DEFINE R == Reports(action, list, D)
           f == [i \in D |-> Reported(action, list[i])]
<1>1. IsFiniteSet(D)
  BY DomainIsFinite, FS_Subset
<1>2. f \in Surjection(D, R)
  BY DEF Surjection, Reports
<1>3. \A r : Reported(action, r).id = Identity(r)
  BY DEF Reported
<1>4. f \in Injection(D, R)
  BY <1>2, <1>3 DEF Injection, IsInjective, Apart, Surjection
<1> HIDE DEF f, R
<1>5. IsFiniteSet(R) /\ Cardinality(R) = Cardinality(D)
  BY <1>1, <1>2, <1>4, FS_Surjection
<1> QED BY <1>5 DEF R

LEMMA ActionsAre ==
    \A action, r : /\ Reported(action, r).action = action
                   /\ Reported(action, r).kind = r.kind
                   /\ Reported(action, r).group = r.group
BY DEF Reported

-----------------------------------------------------------------------------
\* What a diff of two such lists reports, by the manifests it is about.
Gone(old, new) == {i \in DOMAIN old : ~SomeIn(new, old[i])}
Come(old, new) == {j \in DOMAIN new : ~SomeIn(old, new[j])}
Changed(old, new) ==
    {j \in DOMAIN new : \E i \in DOMAIN old :
        SameObject(old[i], new[j]) /\ old[i].compared # new[j].compared}

LEMMA SomeIs ==
    ASSUME NEW list \in Seq(Manifested), NEW r \in Manifested
    PROVE  SomeIn(list, r) <=> Identity(r) \in Identities(list)
<1>1. \A i \in DOMAIN list : list[i] \in Manifested
  OBVIOUS
<1> QED BY <1>1, SameIsIdentity DEF SomeIn, Identities

LEMMA DiffIs ==
    ASSUME NEW old \in Seq(Manifested), NEW new \in Seq(Manifested), Apart(old), Apart(new)
    PROVE  /\ Removed(old, new) = {Reported("Remove", old[i]) : i \in Gone(old, new)}
           /\ Added(old, new) = {Reported("Add", new[j]) : j \in Come(old, new)}
           /\ Modified(old, new) = {Reported("Modify", new[j]) : j \in Changed(old, new)}
<1>1. /\ \A i \in DOMAIN old : old[i] \in Manifested
      /\ \A j \in DOMAIN new : new[j] \in Manifested
  OBVIOUS
<1>2. /\ \A i \in DOMAIN old : i \in Gone(old, new) <=> Identity(old[i]) \notin Identities(new)
      /\ \A j \in DOMAIN new : j \in Come(old, new) <=> Identity(new[j]) \notin Identities(old)
  BY <1>1, SomeIs DEF Gone, Come
<1>3. /\ \A id \in Identities(old) : \E i \in DOMAIN old : id = Identity(old[i])
      /\ \A id \in Identities(new) : \E j \in DOMAIN new : id = Identity(new[j])
      /\ \A i \in DOMAIN old : Identity(old[i]) \in Identities(old)
      /\ \A j \in DOMAIN new : Identity(new[j]) \in Identities(new)
  BY DEF Identities
<1>4. /\ \A i \in DOMAIN old : Manifest(old, Identity(old[i])) = old[i]
      /\ \A j \in DOMAIN new : Manifest(new, Identity(new[j])) = new[j]
  BY ManifestIs
<1>5. Removed(old, new) = {Reported("Remove", old[i]) : i \in Gone(old, new)}
  <2>1. \A c \in Removed(old, new) : \E i \in Gone(old, new) : c = Reported("Remove", old[i])
    BY <1>2, <1>3, <1>4 DEF Removed
  <2>2. \A i \in Gone(old, new) : Reported("Remove", old[i]) \in Removed(old, new)
    <3>1. \A i \in Gone(old, new) : i \in DOMAIN old
      BY DEF Gone
    <3> QED BY <1>2, <1>3, <1>4, <3>1 DEF Removed
  <2> QED BY <2>1, <2>2
<1>6. Added(old, new) = {Reported("Add", new[j]) : j \in Come(old, new)}
  <2>1. \A c \in Added(old, new) : \E j \in Come(old, new) : c = Reported("Add", new[j])
    BY <1>2, <1>3, <1>4 DEF Added
  <2>2. \A j \in Come(old, new) : Reported("Add", new[j]) \in Added(old, new)
    <3>1. \A j \in Come(old, new) : j \in DOMAIN new
      BY DEF Come
    <3> QED BY <1>2, <1>3, <1>4, <3>1 DEF Added
  <2> QED BY <2>1, <2>2
<1>7. Modified(old, new) = {Reported("Modify", new[j]) : j \in Changed(old, new)}
  <2> DEFINE Both == {d \in Identities(old) \intersect Identities(new) :
                        Manifest(old, d).compared # Manifest(new, d).compared}
  <2>1. Modified(old, new) = {Reported("Modify", Manifest(new, id)) : id \in Both}
    BY DEF Modified, PropertiesForRules
  <2>2. \A id \in Both : \E j \in Changed(old, new) : id = Identity(new[j])
    <3> SUFFICES ASSUME NEW id \in Both
                 PROVE  \E j \in Changed(old, new) : id = Identity(new[j])
      OBVIOUS
    <3>1. PICK i \in DOMAIN old, j \in DOMAIN new : id = Identity(old[i]) /\ id = Identity(new[j])
      BY <1>3
    <3>2. old[i].compared # new[j].compared
      BY <1>4, <3>1
    <3>3. SameObject(old[i], new[j])
      BY <1>1, <3>1, SameIsIdentity
    <3> QED BY <3>1, <3>2, <3>3 DEF Changed
  <2>3. \A j \in Changed(old, new) : j \in DOMAIN new /\ Identity(new[j]) \in Both
    <3> SUFFICES ASSUME NEW j \in Changed(old, new)
                 PROVE  j \in DOMAIN new /\ Identity(new[j]) \in Both
      OBVIOUS
    <3>1. j \in DOMAIN new
      BY DEF Changed
    <3>2. PICK i \in DOMAIN old :
              SameObject(old[i], new[j]) /\ old[i].compared # new[j].compared
      BY DEF Changed
    <3>3. Identity(old[i]) = Identity(new[j])
      BY <1>1, <3>1, <3>2, SameIsIdentity
    <3>4. Manifest(old, Identity(new[j])) = old[i] /\ Manifest(new, Identity(new[j])) = new[j]
      BY <1>4, <3>1, <3>3
    <3> QED BY <1>3, <3>1, <3>2, <3>3, <3>4
  <2> HIDE DEF Both
  <2>4. \A j \in Changed(old, new) : Manifest(new, Identity(new[j])) = new[j]
    BY <1>4, <2>3
  <2>5. \A c \in Modified(old, new) : \E j \in Changed(old, new) : c = Reported("Modify", new[j])
    BY <2>1, <2>2, <2>4
  <2>6. \A j \in Changed(old, new) : Reported("Modify", new[j]) \in Modified(old, new)
    BY <2>1, <2>3, <2>4
  <2> QED BY <2>5, <2>6
<1> QED BY <1>5, <1>6, <1>7

-----------------------------------------------------------------------------
(* The risk of a report                                                    *)

\* Whoever serves a kind has a name, and no kind is called unknown.
LEMMA NoneIsServed ==
    /\ DOMAIN KindMaps = 1..13
    /\ \A m \in 1..13 : None \notin KindMaps[m].groups
    /\ "Unknown" \notin DOMAIN K8sKindMap
<1>1. DOMAIN KindMaps = 1..13
  BY DEF KindMaps
<1>2. None \notin KindMaps[1].groups
  <2>1. \A K : None \notin Served({"argoproj.io"}, K).groups
    BY DEF Served, None
  <2>2. KindMaps[1] = Served({"argoproj.io"}, ArgoKinds)
    BY DEF KindMaps
  <2> QED BY <2>1, <2>2
<1>3. None \notin KindMaps[2].groups
  <2>1. \A K : None \notin Served({"fluxcd.io"}, K).groups
    BY DEF Served, None
  <2>2. KindMaps[2] = Served({"fluxcd.io"}, FluxKinds)
    BY DEF KindMaps
  <2> QED BY <2>1, <2>2
<1>4. None \notin KindMaps[3].groups
  <2>1. \A K : None \notin Served({"tekton.dev"}, K).groups
    BY DEF Served, None
  <2>2. KindMaps[3] = Served({"tekton.dev"}, TektonKinds)
    BY DEF KindMaps
  <2> QED BY <2>1, <2>2
<1>5. None \notin KindMaps[4].groups
  <2>1. \A K : None \notin Served({"gateway.networking"}, K).groups
    BY DEF Served, None
  <2>2. KindMaps[4] = Served({"gateway.networking"}, GatewayApiKinds)
    BY DEF KindMaps
  <2> QED BY <2>1, <2>2
<1>6. None \notin KindMaps[5].groups
  <2>1. \A K : None \notin Served({"cert-manager.io"}, K).groups
    BY DEF Served, None
  <2>2. KindMaps[5] = Served({"cert-manager.io"}, CertManagerKinds)
    BY DEF KindMaps
  <2> QED BY <2>1, <2>2
<1>7. None \notin KindMaps[6].groups
  <2>1. \A K : None \notin Served({"external-secrets.io"}, K).groups
    BY DEF Served, None
  <2>2. KindMaps[6] = Served({"external-secrets.io"}, ExternalSecretsKinds)
    BY DEF KindMaps
  <2> QED BY <2>1, <2>2
<1>8. None \notin KindMaps[7].groups
  <2>1. \A K : None \notin Served({"istio.io"}, K).groups
    BY DEF Served, None
  <2>2. KindMaps[7] = Served({"istio.io"}, IstioKinds)
    BY DEF KindMaps
  <2> QED BY <2>1, <2>2
<1>9. None \notin KindMaps[8].groups
  <2>1. \A K : None \notin Served({"kyverno.io"}, K).groups
    BY DEF Served, None
  <2>2. KindMaps[8] = Served({"kyverno.io"}, KyvernoKinds)
    BY DEF KindMaps
  <2> QED BY <2>1, <2>2
<1>10. None \notin KindMaps[9].groups
  <2>1. \A K : None \notin Served({"gatekeeper.sh"}, K).groups
    BY DEF Served, None
  <2>2. KindMaps[9] = Served({"gatekeeper.sh"}, GatekeeperKinds)
    BY DEF KindMaps
  <2> QED BY <2>1, <2>2
<1>11. None \notin KindMaps[10].groups
  <2>1. \A K : None \notin Served({"keda.sh"}, K).groups
    BY DEF Served, None
  <2>2. KindMaps[10] = Served({"keda.sh"}, KedaKinds)
    BY DEF KindMaps
  <2> QED BY <2>1, <2>2
<1>12. None \notin KindMaps[11].groups
  <2>1. \A K : None \notin Served({"knative.dev"}, K).groups
    BY DEF Served, None
  <2>2. KindMaps[11] = Served({"knative.dev"}, KnativeKinds)
    BY DEF KindMaps
  <2> QED BY <2>1, <2>2
<1>13. None \notin KindMaps[12].groups
  <2>1. \A K : None \notin Served({"cluster.x-k8s.io"}, K).groups
    BY DEF Served, None
  <2>2. KindMaps[12] = Served({"cluster.x-k8s.io"}, ClusterApiKinds)
    BY DEF KindMaps
  <2> QED BY <2>1, <2>2
<1>14. None \notin KindMaps[13].groups
  <2>1. \A K : None \notin Served({"karpenter.sh"}, K).groups
    BY DEF Served, None
  <2>2. KindMaps[13] = Served({"karpenter.sh"}, KarpenterKinds)
    BY DEF KindMaps
  <2> QED BY <2>1, <2>2
<1>15. "Unknown" \notin DOMAIN K8sKindMap
  BY DEF K8sKindMap
<1> HIDE DEF KindMaps
<1>16. \A m \in 1..13 : m = 1 \/ m = 2 \/ m = 3 \/ m = 4 \/ m = 5 \/ m = 6 \/ m = 7 \/ m = 8
           \/ m = 9 \/ m = 10 \/ m = 11 \/ m = 12 \/ m = 13
  OBVIOUS
<1> QED
  BY <1>1, <1>2, <1>3, <1>4, <1>5, <1>6, <1>7, <1>8, <1>9, <1>10, <1>11, <1>12, <1>13, <1>14,
     <1>15, <1>16

LEMMA UnknownIsCustom == NormalizeResourceType("Unknown", None) = Custom
BY NoneIsServed DEF NormalizeResourceType

LEMMA CustomHasNoRules == Custom \notin Types
<1>1. SoundTable(Registered) /\ IsTable(CrossCutting)
  <2>1. IsTable(AwsCrossCutting) /\ IsTable(K8sCrossCutting)
    BY AwsIsSound, InfrastructureIsSound DEF SoundTable
  <2> QED BY <2>1, PythonTablesAreSound, JoinedTables DEF CrossCutting
<1>2. Rows(CrossCutting) \subseteq Rows(PythonTable)
  BY <1>1, JoinedTables DEF PythonTable, SoundTable
<1>3. /\ \A r \in Rows(Registered) : Custom \notin r.types
      /\ \A r \in Rows(CrossCutting) : Custom \notin r.types
  BY <1>1, <1>2, PythonTablesAreSound, RuleLessAre DEF SoundTable, Sound
<1>4. Custom \notin TypesOf(Registered) /\ Custom \notin TypesOf(CrossCutting)
  BY <1>3, TypesOfRows
<1>5. Custom \notin PlainTypes
  BY DEF Custom, PlainTypes
<1> QED BY <1>4, <1>5 DEF Types, RegisteredTypes

LEMMA RulesOfReports ==
    /\ \A c : RulesOf(c) \subseteq Risks
    /\ RulesOf(MalformedInputChange) = {}
<1>1. \A c : ActionOf(c) \in Actions
  <2>1. "apply" \in Actions /\ "update" \in Actions /\ "delete" \in Actions
          /\ "unknown" \in Actions
    BY DEF Actions
  <2>2. \A c : ActionOf(c) = "apply" \/ ActionOf(c) = "update" \/ ActionOf(c) = "delete"
                 \/ ActionOf(c) = "unknown"
    BY DEF ActionOf
  <2> QED BY <2>1, <2>2
<1>2. ASSUME NEW c
      PROVE  RulesOf(c) \subseteq Risks
  <2> DEFINE type == NormalizeResourceType(c.kind, c.group)
  <2>1. RulesOf(c) = IF type \in Types
                     THEN UNION {Results(r, ActionOf(c), {}) : r \in PythonRules[type]} ELSE {}
    BY DEF RulesOf
  <2> HIDE DEF type
  <2>2. type \in Types => \A r \in PythonRules[type] : Results(r, ActionOf(c), {}) \subseteq Risks
    BY <1>1, PythonRuleIsSound, ResultsAreRisks
  <2> QED BY <2>1, <2>2
<1>3. RulesOf(MalformedInputChange) = {}
  <2>1. MalformedInputChange.kind = "Unknown" /\ MalformedInputChange.group = None
    BY DEF MalformedInputChange
  <2> QED BY <2>1, UnknownIsCustom, CustomHasNoRules DEF RulesOf
<1> QED BY <1>2, <1>3

LEMMA BaselinesOfReports ==
    ASSUME NEW c
    PROVE  /\ BaselineOf(c) \in Risks
           /\ c.action = "Remove" => BaselineOf(c) = "irreversible"
           /\ c.action \in {"Add", "Modify"} /\ c.kind \in SensitiveControlPlaneKinds
                => BaselineOf(c) = "dangerous"
           /\ c.action = "Modify" => Rank(BaselineOf(c)) >= Rank("review")
           /\ c.action = "Unknown" => BaselineOf(c) = "review"
<1> DEFINE sensitive == c.kind \in SensitiveControlPlaneKinds
           named == c.kind \in DOMAIN K8sKindMap
<1>1. BaselineOf(c) = IF c.action = "Unknown" THEN "review"
                      ELSE IF c.action = "Remove" THEN "irreversible"
                      ELSE IF sensitive THEN "dangerous"
                      ELSE IF c.action = "Modify" \/ ~named THEN "review" ELSE "safe"
  BY DEF BaselineOf
<1> HIDE DEF sensitive, named
<1>2. /\ BaselineOf(c) \in Risks
      /\ c.action = "Remove" => BaselineOf(c) = "irreversible"
      /\ c.action \in {"Add", "Modify"} /\ sensitive => BaselineOf(c) = "dangerous"
      /\ c.action = "Modify" => BaselineOf(c) \in {"review", "dangerous"}
      /\ c.action = "Unknown" => BaselineOf(c) = "review"
  BY <1>1 DEF Risks
<1>3. \A r \in {"review", "dangerous"} : Rank(r) >= Rank("review")
  BY Ranks
<1> QED BY <1>2, <1>3 DEF sensitive

LEMMA RiskOfReport ==
    ASSUME NEW report
    PROVE  /\ ManifestRisk(report) \in Risks
           /\ \A c \in report : Rank(BaselineOf(c)) <= Rank(ManifestRisk(report))
<1> DEFINE S == {"safe"} \union {BaselineOf(c) : c \in report} \union UNION {RulesOf(c) : c \in report}
<1>1. ManifestRisk(report) = Highest(S)
  BY DEF ManifestRisk
<1>2. S \subseteq Risks
  <2>1. "safe" \in Risks
    BY DEF Risks
  <2> QED BY <2>1, BaselinesOfReports, RulesOfReports
<1>3. S # {}
  OBVIOUS
<1>4. \A c \in report : BaselineOf(c) \in S
  OBVIOUS
<1> HIDE DEF S
<1> QED BY <1>1, <1>2, <1>3, <1>4, HighestIs

LEMMA RiskOfMalformed == ManifestRisk({MalformedInputChange}) = "review"
<1>1. BaselineOf(MalformedInputChange) = "review"
  BY BaselinesOfReports DEF MalformedInputChange
<1> DEFINE S == {"safe", "review"}
<1>2. {"safe"} \union {BaselineOf(c) : c \in {MalformedInputChange}}
        \union UNION {RulesOf(c) : c \in {MalformedInputChange}} = S
  BY <1>1, RulesOfReports
<1>3. ManifestRisk({MalformedInputChange}) = Highest(S)
  BY <1>2 DEF ManifestRisk
<1>4. S \in SUBSET Risks /\ "review" \in S /\ \A s \in S : Rank(s) <= Rank("review")
  BY Ranks DEF Risks
<1> HIDE DEF S
<1> QED BY <1>3, <1>4, HighestIsThe

-----------------------------------------------------------------------------
(* What a report explains                                                  *)

LEMMA UnclearIs ==
    ASSUME NEW list \in Seq(Manifested)
    PROVE  (\/ \E i \in DOMAIN list : list[i].kind = "" \/ list[i].name = ""
            \/ \E i, j \in DOMAIN list : i # j /\ SameObject(list[i], list[j]))
           <=> (\E i \in DOMAIN list : ~HasValidDiffIdentity(list[i])) \/ Ambiguous(list)
<1>1. \A i \in DOMAIN list : list[i] \in Manifested
  OBVIOUS
<1>2. (\E i, j \in DOMAIN list : i # j /\ SameObject(list[i], list[j])) <=> ~Apart(list)
  BY <1>1, SameIsIdentity DEF Apart
<1>3. (\E i \in DOMAIN list : list[i].kind = "" \/ list[i].name = "")
        <=> \E i \in DOMAIN list : ~HasValidDiffIdentity(list[i])
  BY DEF HasValidDiffIdentity, None
<1> QED BY <1>2, <1>3, AmbiguousIs

LEMMA ThreeParts ==
    ASSUME NEW A, IsFiniteSet(A), NEW B, IsFiniteSet(B), NEW C, IsFiniteSet(C),
           A \intersect B = {}, (A \union B) \intersect C = {}
    PROVE  Cardinality(A \union B \union C) = Cardinality(A) + Cardinality(B) + Cardinality(C)
<1>1. /\ Cardinality(A) \in Nat /\ Cardinality(B) \in Nat /\ Cardinality(C) \in Nat
      /\ Cardinality({}) = 0
  BY FS_CardinalityType, FS_EmptySet
<1>2. /\ IsFiniteSet(A \union B)
      /\ Cardinality(A \union B) = Cardinality(A) + Cardinality(B)
  <2>1. Cardinality(A \intersect B) = 0
    BY <1>1
  <2>2. /\ IsFiniteSet(A \union B)
        /\ Cardinality(A \union B) = Cardinality(A) + Cardinality(B) - Cardinality(A \intersect B)
    BY FS_Union
  <2> QED BY <1>1, <2>1, <2>2
<1>3. Cardinality((A \union B) \union C) = Cardinality(A \union B) + Cardinality(C)
  <2>1. Cardinality((A \union B) \intersect C) = 0
    BY <1>1
  <2>2. Cardinality(A \union B) \in Nat
    BY <1>1, <1>2
  <2> DEFINE D == A \union B
  <2>3. IsFiniteSet(D)
    BY <1>2
  <2> HIDE DEF D
  <2>4. Cardinality(D \union C) = Cardinality(D) + Cardinality(C) - Cardinality(D \intersect C)
    BY <2>3, FS_Union
  <2> QED BY <1>1, <2>1, <2>2, <2>4 DEF D
<1> QED BY <1>1, <1>2, <1>3

\* The report of a diff of clear lists, part by part.
LEMMA ReportIs ==
    ASSUME NEW old \in Seq(Manifested), NEW new \in Seq(Manifested),
           Apart(old), Apart(new)
    PROVE  LET report == Added(old, new) \union Removed(old, new) \union Modified(old, new)
           IN /\ Cardinality(report) = Cardinality(Gone(old, new)) + Cardinality(Come(old, new))
                                         + Cardinality(Changed(old, new))
              /\ \A c \in report : /\ c.action = "Remove" => c \in Removed(old, new)
                                   /\ c.action = "Add" => c \in Added(old, new)
<1> DEFINE A == Added(old, new)
           R == Removed(old, new)
           M == Modified(old, new)
<1>1. /\ Gone(old, new) \in SUBSET DOMAIN old
      /\ Come(old, new) \in SUBSET DOMAIN new
      /\ Changed(old, new) \in SUBSET DOMAIN new
  BY DEF Gone, Come, Changed
<1>2. /\ IsFiniteSet(A) /\ Cardinality(A) = Cardinality(Come(old, new))
      /\ IsFiniteSet(R) /\ Cardinality(R) = Cardinality(Gone(old, new))
      /\ IsFiniteSet(M) /\ Cardinality(M) = Cardinality(Changed(old, new))
  <2>1. IsFiniteSet(A) /\ Cardinality(A) = Cardinality(Come(old, new))
    <3>1. A = Reports("Add", new, Come(old, new))
      BY DiffIs DEF Reports
    <3> HIDE DEF A
    <3> QED BY <1>1, <3>1, ReportsAreCounted
  <2>2. IsFiniteSet(R) /\ Cardinality(R) = Cardinality(Gone(old, new))
    <3>1. R = Reports("Remove", old, Gone(old, new))
      BY DiffIs DEF Reports
    <3> HIDE DEF R
    <3> QED BY <1>1, <3>1, ReportsAreCounted
  <2>3. IsFiniteSet(M) /\ Cardinality(M) = Cardinality(Changed(old, new))
    <3>1. M = Reports("Modify", new, Changed(old, new))
      BY DiffIs DEF Reports
    <3> HIDE DEF M
    <3> QED BY <1>1, <3>1, ReportsAreCounted
  <2> QED BY <2>1, <2>2, <2>3
<1>3. /\ \A c \in A : c.action = "Add"
      /\ \A c \in R : c.action = "Remove"
      /\ \A c \in M : c.action = "Modify"
  BY DiffIs, ActionsAre
<1> HIDE DEF A, R, M
<1>4. "Add" # "Remove" /\ "Add" # "Modify" /\ "Remove" # "Modify"
  OBVIOUS
<1>5. A \intersect R = {} /\ (A \union R) \intersect M = {}
  BY <1>3, <1>4
<1>6. /\ Cardinality(Gone(old, new)) \in Nat /\ Cardinality(Come(old, new)) \in Nat
      /\ Cardinality(Changed(old, new)) \in Nat
  BY <1>2, FS_CardinalityType
<1>7. Cardinality(A \union R \union M) = Cardinality(Gone(old, new)) + Cardinality(Come(old, new))
                                           + Cardinality(Changed(old, new))
  BY <1>2, <1>5, <1>6, ThreeParts
<1>8. \A c \in A \union R \union M : /\ c.action = "Remove" => c \in R
                                     /\ c.action = "Add" => c \in A
  BY <1>3, <1>4
<1> QED BY <1>7, <1>8 DEF A, R, M

\* What is Unclear in ReportExplainsDiff.
Clear(list) ==
    /\ \A i \in DOMAIN list : HasValidDiffIdentity(list[i])
    /\ Apart(list)

LEMMA ClearLists ==
    ASSUME NEW old \in Seq(Manifested), NEW new \in Seq(Manifested)
    PROVE  ExtractFromDiff(old, new) =
               IF Clear(old) /\ Clear(new)
               THEN Added(old, new) \union Removed(old, new) \union Modified(old, new)
               ELSE {MalformedInputChange}
BY AmbiguousIs DEF ExtractFromDiff, Malformed, Clear

LEMMA ClearReport ==
    ASSUME NEW old \in Seq(Manifested), NEW new \in Seq(Manifested),
           Clear(old), Clear(new), NEW risk, NEW report,
           report = Added(old, new) \union Removed(old, new) \union Modified(old, new),
           risk = ManifestRisk(report)
    PROVE  /\ Cardinality(report) = Cardinality(Gone(old, new)) + Cardinality(Come(old, new))
                                      + Cardinality(Changed(old, new))
           /\ Gone(old, new) # {} <=> \E c \in report : c.action = "Remove"
           /\ Gone(old, new) # {} => risk = "irreversible"
           /\ Changed(old, new) # {} => Rank(risk) >= Rank("review")
           /\ (\E j \in Changed(old, new) \union Come(old, new) :
                  new[j].kind \in SensitiveControlPlaneKinds)
                => Rank(risk) >= Rank("dangerous")
           /\ {c \in report : c.action = "Add"} \subseteq ExtractFromSingle(new)
<1>1. Apart(old) /\ Apart(new)
  BY DEF Clear
<1>2. /\ Removed(old, new) = {Reported("Remove", old[i]) : i \in Gone(old, new)}
      /\ Added(old, new) = {Reported("Add", new[j]) : j \in Come(old, new)}
      /\ Modified(old, new) = {Reported("Modify", new[j]) : j \in Changed(old, new)}
  BY <1>1, DiffIs
<1>3. /\ Cardinality(report) = Cardinality(Gone(old, new)) + Cardinality(Come(old, new))
                                 + Cardinality(Changed(old, new))
      /\ \A c \in report : /\ c.action = "Remove" => c \in Removed(old, new)
                           /\ c.action = "Add" => c \in Added(old, new)
  BY <1>1, ReportIs
<1>4. risk \in Risks /\ \A c \in report : Rank(BaselineOf(c)) <= Rank(risk)
  BY RiskOfReport
<1>5. /\ \A i \in Gone(old, new) : Reported("Remove", old[i]) \in report
      /\ \A j \in Changed(old, new) : Reported("Modify", new[j]) \in report
      /\ \A j \in Come(old, new) : Reported("Add", new[j]) \in report
  BY <1>2
<1>6. Gone(old, new) # {} <=> \E c \in report : c.action = "Remove"
  BY <1>2, <1>3, <1>5, ActionsAre
<1>7. Gone(old, new) # {} => risk = "irreversible"
  <2> SUFFICES ASSUME NEW i \in Gone(old, new) PROVE risk = "irreversible"
    OBVIOUS
  <2>1. BaselineOf(Reported("Remove", old[i])) = "irreversible"
    BY ActionsAre, BaselinesOfReports
  <2>2. Rank("irreversible") <= Rank(risk)
    BY <1>4, <1>5, <2>1
  <2> QED BY <1>4, <2>2, Ranks
<1>8. Changed(old, new) # {} => Rank(risk) >= Rank("review")
  <2> SUFFICES ASSUME NEW j \in Changed(old, new) PROVE Rank(risk) >= Rank("review")
    OBVIOUS
  <2>1. Rank(BaselineOf(Reported("Modify", new[j]))) >= Rank("review")
    BY ActionsAre, BaselinesOfReports
  <2>2. Rank(BaselineOf(Reported("Modify", new[j]))) <= Rank(risk)
    BY <1>4, <1>5
  <2> QED BY <2>1, <2>2, Ranks
<1>9. ASSUME NEW j \in Changed(old, new) \union Come(old, new),
             new[j].kind \in SensitiveControlPlaneKinds
      PROVE  Rank(risk) >= Rank("dangerous")
  <2>1. PICK action \in {"Add", "Modify"} : Reported(action, new[j]) \in report
    BY <1>5
  <2>2. BaselineOf(Reported(action, new[j])) = "dangerous"
    BY <1>9, ActionsAre, BaselinesOfReports
  <2>3. Rank("dangerous") <= Rank(risk)
    BY <1>4, <2>1, <2>2
  <2> QED BY <2>3, Ranks
<1>10. {c \in report : c.action = "Add"} \subseteq ExtractFromSingle(new)
  <2>1. \A i \in DOMAIN new : new[i].kind # None
    BY DEF Clear, HasValidDiffIdentity
  <2>2. ExtractFromSingle(new) = {Reported("Add", new[i]) : i \in DOMAIN new}
    BY <2>1 DEF ExtractFromSingle
  <2>3. \A j \in Come(old, new) : j \in DOMAIN new
    BY DEF Come
  <2> QED BY <1>2, <1>3, <2>2, <2>3
<1> QED BY <1>3, <1>6, <1>7, <1>8, <1>9, <1>10

LEMMA ReportsExplain ==
    ASSUME manifests.old \in Seq(Manifested), manifests.new \in Seq(Manifested)
    PROVE  ReportExplainsDiff
<1> DEFINE old == manifests.old
           new == manifests.new
           report == ExtractFromDiff(old, new)
           risk == ManifestRisk(report)
           Unclear(list) ==
             \/ \E i \in DOMAIN list : list[i].kind = "" \/ list[i].name = ""
             \/ \E i, j \in DOMAIN list : i # j /\ SameObject(list[i], list[j])
<1>1. ReportExplainsDiff <=>
        (manifests.used =>
          IF Unclear(old) \/ Unclear(new)
          THEN report = {MalformedInputChange} /\ risk = "review"
          ELSE /\ Cardinality(report) = Cardinality(Gone(old, new)) + Cardinality(Come(old, new))
                                          + Cardinality(Changed(old, new))
               /\ Gone(old, new) # {} <=> \E c \in report : c.action = "Remove"
               /\ Gone(old, new) # {} => risk = "irreversible"
               /\ Changed(old, new) # {} => Rank(risk) >= Rank("review")
               /\ (\E j \in Changed(old, new) \union Come(old, new) :
                      new[j].kind \in SensitiveControlPlaneKinds)
                    => Rank(risk) >= Rank("dangerous")
               /\ {c \in report : c.action = "Add"} \subseteq ExtractFromSingle(new))
  BY Zenon DEF ReportExplainsDiff, Gone, Come, Changed
<1>2. (Unclear(old) <=> ~Clear(old)) /\ (Unclear(new) <=> ~Clear(new))
  BY UnclearIs, AmbiguousIs DEF Clear
<1>3. old \in Seq(Manifested) /\ new \in Seq(Manifested)
  OBVIOUS
<1> HIDE DEF Unclear, old, new
<1>4. CASE ~Clear(old) \/ ~Clear(new)
  <2>1. report = {MalformedInputChange}
    BY <1>3, <1>4, ClearLists
  <2>2. risk = "review"
    BY <2>1, RiskOfMalformed
  <2> HIDE DEF report, risk
  <2> QED BY <1>1, <1>2, <1>4, <2>1, <2>2
<1>5. CASE Clear(old) /\ Clear(new)
  <2>1. report = Added(old, new) \union Removed(old, new) \union Modified(old, new)
    BY <1>3, <1>5, ClearLists
  <2>2. risk = ManifestRisk(report)
    OBVIOUS
  <2> HIDE DEF report, risk
  <2>3. /\ Cardinality(report) = Cardinality(Gone(old, new)) + Cardinality(Come(old, new))
                                   + Cardinality(Changed(old, new))
        /\ Gone(old, new) # {} <=> \E c \in report : c.action = "Remove"
        /\ Gone(old, new) # {} => risk = "irreversible"
        /\ Changed(old, new) # {} => Rank(risk) >= Rank("review")
        /\ (\E j \in Changed(old, new) \union Come(old, new) :
               new[j].kind \in SensitiveControlPlaneKinds)
             => Rank(risk) >= Rank("dangerous")
        /\ {c \in report : c.action = "Add"} \subseteq ExtractFromSingle(new)
    BY <1>3, <1>5, <2>1, <2>2, ClearReport
  <2> QED BY <1>1, <1>2, <1>5, <2>3
<1> QED BY <1>4, <1>5

-----------------------------------------------------------------------------
\* The lists are of manifests, whatever a revision wrote into them.
ManifestsInv ==
    manifests \in [old : Seq(Manifested), new : Seq(Manifested), steps : Nat, used : BOOLEAN]

LEMMA ObjectIs ==
    ASSUME NEW kind \in Kinds, NEW group \in Groups, NEW name \in ObjectNames, NEW space \in Spaces
    PROVE  Object(kind, group, name, space) \in Manifested
<1>1. 0 \in Contents
  BY DEF Contents
<1> QED BY <1>1 DEF Object, Manifested

LEMMA ObjectsAre == Objects \subseteq Manifested /\ IsFiniteSet(Objects)
<1>1. /\ "Deployment" \in Kinds /\ "ClusterRole" \in Kinds /\ "Service" \in Kinds
      /\ "MutatingWebhookConfiguration" \in Kinds /\ "Widget" \in Kinds
  BY DEF Kinds
<1>2. /\ "apps" \in Groups /\ "rbac" \in Groups /\ "knative.dev" \in Groups
      /\ "admission" \in Groups /\ "acme.io" \in Groups
  BY DEF Groups
<1>3. "a" \in ObjectNames /\ "n1" \in Spaces /\ "n2" \in Spaces /\ None \in Spaces
  BY DEF ObjectNames, Spaces
<1>4. PICK o1 \in Manifested, o2 \in Manifested, o3 \in Manifested, o4 \in Manifested,
           o5 \in Manifested, o6 \in Manifested : Objects = {o1, o2, o3, o4, o5, o6}
  BY <1>1, <1>2, <1>3, ObjectIs, Zenon DEF Objects
<1>5. IsFiniteSet({o1, o2, o3, o4, o5, o6})
  <2>1. IsFiniteSet({o1})
    BY FS_Singleton
  <2>2. IsFiniteSet({o1} \union {o2})
    BY <2>1, FS_AddElement
  <2>3. IsFiniteSet({o1} \union {o2} \union {o3})
    BY <2>2, FS_AddElement
  <2>4. IsFiniteSet({o1} \union {o2} \union {o3} \union {o4})
    BY <2>3, FS_AddElement
  <2>5. IsFiniteSet({o1} \union {o2} \union {o3} \union {o4} \union {o5})
    BY <2>4, FS_AddElement
  <2>6. IsFiniteSet({o1} \union {o2} \union {o3} \union {o4} \union {o5} \union {o6})
    BY <2>5, FS_AddElement
  <2>7. {o1} \union {o2} \union {o3} \union {o4} \union {o5} \union {o6}
          = {o1, o2, o3, o4, o5, o6}
    OBVIOUS
  <2> QED BY <2>6, <2>7
<1> QED BY <1>4, <1>5

\* A finite set has an order.
LEMMA OrderIs ==
    ASSUME NEW set, IsFiniteSet(set), set \subseteq Manifested
    PROVE  (CHOOSE l \in InSomeOrder(set) : TRUE) \in Seq(Manifested)
<1>1. Cardinality(set) \in Nat
  BY FS_CardinalityType
<1>2. \E l : l \in InSomeOrder(set)
  <2>1. PICK f : f \in Bijection(1..Cardinality(set), set)
    BY FS_CardinalityType DEF ExistsBijection
  <2>2. f \in InSomeOrder(set)
    BY <2>1 DEF Bijection, Injection, IsInjective, InSomeOrder
  <2> QED BY <2>2
<1>3. (CHOOSE l \in InSomeOrder(set) : TRUE) \in InSomeOrder(set)
  BY <1>2
<1>4. \A l \in InSomeOrder(set) : l \in [1..Cardinality(set) -> Manifested]
  BY DEF InSomeOrder
<1>5. \A n \in Nat : \A l \in [1..n -> Manifested] : l \in Seq(Manifested)
  OBVIOUS
<1> QED BY <1>1, <1>3, <1>4, <1>5

LEMMA RewriteIs ==
    ASSUME NEW r \in Manifested, NEW s \in Rewrite(r)
    PROVE  s \in Manifested
<1> DEFINE one == 1
           b == "b"
           n2 == "n2"
           acme == "acme.io"
<1>1. /\ one \in Contents /\ b \in ObjectNames /\ n2 \in Spaces /\ acme \in Groups
      /\ None \in ObjectNames /\ None \in Kinds
  BY DEF Contents, ObjectNames, Spaces, Groups, Kinds
<1>2. \/ s = [r EXCEPT !.compared = one] \/ s = [r EXCEPT !.other = one]
      \/ s = [r EXCEPT !.name = b] \/ s = [r EXCEPT !.namespace = n2]
      \/ s = [r EXCEPT !.group = acme] \/ s = [r EXCEPT !.name = None]
      \/ s = [r EXCEPT !.kind = None]
  BY DEF Rewrite
<1> HIDE DEF one, b, n2, acme
<1> QED BY <1>1, <1>2 DEF Manifested

LEMMA ManifestsStart == InputsInit => ManifestsInv
<1> SUFFICES ASSUME InputsInit PROVE ManifestsInv
  OBVIOUS
<1>1. CASE manifests = NoManifests
  <2>1. <<>> \in Seq(Manifested)
    OBVIOUS
  <2> QED BY <1>1, <2>1 DEF NoManifests, ManifestsInv
<1>2. CASE ManifestsInit
  <2>1. PICK set \in SUBSET Objects :
            LET list == CHOOSE l \in InSomeOrder(set) : TRUE
            IN manifests = [old |-> list, new |-> list, steps |-> 0, used |-> TRUE]
    BY <1>2 DEF ManifestsInit
  <2>2. (CHOOSE l \in InSomeOrder(set) : TRUE) \in Seq(Manifested)
    BY ObjectsAre, OrderIs, FS_Subset
  <2>3. PICK list \in Seq(Manifested) :
            manifests = [old |-> list, new |-> list, steps |-> 0, used |-> TRUE]
    BY <2>1, <2>2
  <2> QED BY <2>3 DEF ManifestsInv
<1> QED BY <1>1, <1>2 DEF InputsInit, Terraform, NoSnapshot

LEMMA ReviseIs ==
    ASSUME ManifestsInv, NEW new \in Seq(Manifested), Revise(new)
    PROVE  ManifestsInv'
<1>1. manifests' = [manifests EXCEPT !.new = new, !.steps = @ + 1]
  BY DEF Revise
<1> DEFINE L == Seq(Manifested)
           m == manifests
           k == m.steps + 1
           revised == [m EXCEPT !.new = new]
<1>2. m \in [old : L, new : L, steps : Nat, used : BOOLEAN] /\ new \in L
  BY DEF ManifestsInv
<1>3. manifests' = [revised EXCEPT !.steps = k]
  BY <1>1
<1> HIDE DEF L, m
<1>4. revised \in [old : L, new : L, steps : Nat, used : BOOLEAN] /\ k \in Nat
  BY <1>2
<1> HIDE DEF revised, k
<1>5. manifests' \in [old : L, new : L, steps : Nat, used : BOOLEAN]
  BY <1>3, <1>4
<1> QED BY <1>5 DEF ManifestsInv, L

LEMMA ManifestsStep ==
    ASSUME ManifestsInv, ManifestsNext
    PROVE  ManifestsInv'
<1> DEFINE list == manifests.new
<1>1. list \in Seq(Manifested)
  BY DEF ManifestsInv
<1>2. CASE EditManifest
  <2>1. PICK i \in DOMAIN list :
            \E r \in Rewrite(list[i]) : Revise([list EXCEPT ![i] = r])
    BY <1>2 DEF EditManifest
  <2>2. PICK r \in Rewrite(list[i]) : Revise([list EXCEPT ![i] = r])
    BY <2>1
  <2> HIDE DEF list
  <2>3. r \in Manifested
    BY <1>1, RewriteIs
  <2>4. [list EXCEPT ![i] = r] \in Seq(Manifested)
    BY <1>1, <2>3
  <2> QED BY <2>2, <2>4, ReviseIs
<1>3. CASE AddManifest
  <2>1. PICK r \in Objects : Revise(Append(list, r))
    BY <1>3 DEF AddManifest
  <2> HIDE DEF list
  <2>2. Append(list, r) \in Seq(Manifested)
    BY <1>1, ObjectsAre
  <2> QED BY <2>1, <2>2, ReviseIs
<1>4. CASE DropManifest
  <2>1. PICK i \in DOMAIN list : Revise(SubSeq(list, 1, i - 1) \o SubSeq(list, i + 1, Len(list)))
    BY <1>4 DEF DropManifest
  <2> HIDE DEF list
  <2>2. Len(list) \in Nat /\ i \in 1..Len(list)
    BY <1>1
  <2>3. /\ SubSeq(list, 1, i - 1) \in Seq(Manifested)
        /\ SubSeq(list, i + 1, Len(list)) \in Seq(Manifested)
    BY <1>1, <2>2, SubSeqProperties
  <2>4. SubSeq(list, 1, i - 1) \o SubSeq(list, i + 1, Len(list)) \in Seq(Manifested)
    BY <2>3, ConcatProperties
  <2> QED BY <2>1, <2>4, ReviseIs
<1> QED BY <1>2, <1>3, <1>4 DEF ManifestsNext

LEMMA ManifestsKept == ManifestsInv /\ [InputsNext]_inputs => ManifestsInv'
<1> SUFFICES ASSUME ManifestsInv, [InputsNext]_inputs PROVE ManifestsInv'
  OBVIOUS
<1>1. CASE UNCHANGED manifests
  BY <1>1 DEF ManifestsInv
<1>2. CASE ManifestsNext
  BY <1>2, ManifestsStep
<1> QED BY <1>1, <1>2 DEF InputsNext, inputs

\* The manifests before and after a revision are lists of manifests at every step
\* of it (adapters/kubernetes.py 426-540): what the reports below are about.
THEOREM ManifestsAreManifests == InputsSpec => []ManifestsInv
BY ManifestsStart, ManifestsKept, PTL DEF InputsSpec

\* What the Kubernetes adapter reports of any revision of manifests explains it: no
\* more changes and no fewer than there are, nothing said to go that stays, a risk
\* that is not below what went or changed, and a review where objects cannot be
\* told apart (adapters/kubernetes.py 426-540).
THEOREM ReportsExplainDiffs == InputsSpec => []ReportExplainsDiff
<1>1. ManifestsInv => ReportExplainsDiff
  BY ReportsExplain DEF ManifestsInv
<1> QED BY <1>1, ManifestsAreManifests, PTL
=============================================================================
