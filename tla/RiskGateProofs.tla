--------------------------- MODULE RiskGateProofs ---------------------------
(***************************************************************************)
(* Theorems about RiskGate, for every plan, command line, set of rules and *)
(* sequence of results.                                                    *)
(***************************************************************************)
EXTENDS RiskGate, TLAPS

-----------------------------------------------------------------------------
(* Facts about the operators                                               *)

\* Every risk, known or not, has a rank between 0 and 3.
LEMMA OrderRange == \A risk : Order(risk) \in 0..3
  BY DEF Order

\* What a rank says of the risk.
LEMMA OrderMeans ==
    \A risk : /\ Order(risk) = 0 <=> risk = "safe"
              /\ Order(risk) \in {2, 3} <=> risk \in {"dangerous", "irreversible"}
              /\ Order(risk) = 1 <=> (risk = "review" \/ risk \notin Tier)
  BY DEF Order, Tier

\* Stamping gives a list of results as long, with the same risks.
LEMMA StampFacts ==
    ASSUME NEW f \in Rule, NEW rs \in Returns
    PROVE  /\ Stamp(f, rs) \in Seq(Result)
           /\ Len(Stamp(f, rs)) = Len(rs)
           /\ DOMAIN Stamp(f, rs) = DOMAIN rs
           /\ \A k \in DOMAIN rs :
                 /\ Stamp(f, rs)[k].risk = rs[k].risk
                 /\ Stamp(f, rs)[k].source =
                       IF rs[k].source = "builtin" THEN f.source ELSE rs[k].source
<1>1. /\ rs \in Seq([risk: Risk, source: Source]) /\ f.source \in Source
  BY RuleAssumption, ReturnsAssumption
<1>2. /\ Len(rs) \in Nat /\ DOMAIN rs = 1..Len(rs)
      /\ \A k \in DOMAIN rs : rs[k] \in [risk: Risk, source: Source]
  <2>1. \A S : rs \in Seq(S) =>
            Len(rs) \in Nat /\ DOMAIN rs = 1..Len(rs) /\ \A k \in DOMAIN rs : rs[k] \in S
    OBVIOUS
  <2>. QED BY <1>1, <2>1
<1>3. ASSUME NEW k \in DOMAIN rs
      PROVE  /\ Stamp(f, rs)[k] \in Result
             /\ Stamp(f, rs)[k].risk = rs[k].risk
             /\ Stamp(f, rs)[k].source =
                   IF rs[k].source = "builtin" THEN f.source ELSE rs[k].source
  <2>1. Stamp(f, rs)[k] = IF rs[k].source = "builtin" THEN [rs[k] EXCEPT !.source = f.source]
                                                     ELSE rs[k]
    BY DEF Stamp
  <2>. QED BY <2>1, <1>1, <1>2 DEF Result
<1>4. DOMAIN Stamp(f, rs) = 1..Len(rs) /\ Stamp(f, rs) = [k \in 1..Len(rs) |-> Stamp(f, rs)[k]]
  BY <1>2 DEF Stamp
<1>5. Stamp(f, rs) \in [1..Len(rs) -> Result]
  BY <1>2, <1>3, <1>4
<1>. QED BY <1>2, <1>3, <1>4, <1>5

\* Appending to a bucket keeps what is in it.
LEMMA AddOnceFacts ==
    ASSUME NEW f \in Rule, NEW bucket \in Seq(Rule)
    PROVE  /\ AddOnce(f, bucket) \in Seq(Rule)
           /\ Elements(AddOnce(f, bucket)) = Elements(bucket) \union {f}
<1>1. CASE f \in Elements(bucket)
  BY <1>1 DEF AddOnce
<1>2. CASE f \notin Elements(bucket)
  <2>1. /\ AddOnce(f, bucket) = Append(bucket, f)
        /\ Len(bucket) \in Nat /\ DOMAIN bucket = 1..Len(bucket)
    BY <1>2 DEF AddOnce
  <2>2. /\ DOMAIN Append(bucket, f) = 1..(Len(bucket) + 1)
        /\ \A k \in DOMAIN bucket : Append(bucket, f)[k] = bucket[k]
        /\ Append(bucket, f)[Len(bucket) + 1] = f
        /\ Append(bucket, f) \in Seq(Rule)
    BY <2>1
  <2>3. Elements(Append(bucket, f)) = Elements(bucket) \union {f}
    BY <2>1, <2>2 DEF Elements
  <2>. QED BY <2>1, <2>2, <2>3
<1>. QED BY <1>1, <1>2

\* A decision is one of three, and so is its exit code.
LEMMA DecisionRange ==
    \A risk : /\ DecisionForRisk(risk) \in {"proceed", "warn", "block"}
              /\ ExitFor(DecisionForRisk(risk)) \in {0, 1, 2}
              /\ DecisionForRisk(risk) = "proceed" <=> risk = "safe"
              /\ ExitFor(DecisionForRisk(risk)) = 0 <=> risk = "safe"
  BY DEF DecisionForRisk, ExitFor, Tier

LEMMA FailOnRange == \A threshold : FailOnCode(threshold) \in {0, 1, 2}
  BY DEF FailOnCode

\* What the plan is known to hold.
LEMMA PlanFacts ==
    ASSUME plan \in Plan
    PROVE  /\ plan.changes \in Seq([type: Type, address: STRING, actions: SUBSET STRING,
                                    malformed: BOOLEAN])
           /\ Len(plan.changes) \in Nat
           /\ \A i \in 1..Len(plan.changes) : plan.changes[i].type \in Type
<1>1. plan.changes \in Seq([type: Type, address: STRING, actions: SUBSET STRING,
                            malformed: BOOLEAN])
  BY PlanAssumption
<1>2. \A S : plan.changes \in Seq(S) =>
          Len(plan.changes) \in Nat /\ \A i \in 1..Len(plan.changes) : plan.changes[i] \in S
  OBVIOUS
<1>3. \A c \in [type: Type, address: STRING, actions: SUBSET STRING, malformed: BOOLEAN] :
          c.type \in Type
  OBVIOUS
<1>. QED BY <1>1, <1>2, <1>3

LEMMA BaselineType == \A c : Baseline(c) \in Risk
<1>1. \A actions : RiskForActions(actions) \in Tier
  BY DEF RiskForActions, Tier
<1>. QED BY <1>1, NameAssumption DEF Baseline, Tier

LEMMA OverrideFacts ==
    ASSUME NEW r \in Result, NEW risk \in Risk
    PROVE  /\ Override(r, risk) \in Result
           /\ Order(Override(r, risk).risk) >= Order(r.risk)
           /\ Order(Override(r, risk).risk) >= Order(risk)
           /\ Override(r, risk).source = r.source
           /\ Override(r, risk).risk \in {r.risk, risk}
<1>1. CASE Order(risk) >= Order(r.risk)
  BY <1>1, OrderRange DEF Override, Result
<1>2. CASE ~(Order(risk) >= Order(r.risk))
  <2>1. Override(r, risk) = r
    BY <1>2 DEF Override
  <2>. QED BY <1>2, <2>1, OrderRange
<1>. QED BY <1>1, <1>2

LEMMA MaxFacts ==
    ASSUME NEW r \in Result, NEW c \in Result
    PROVE  /\ MaxResult(r, c) \in {r, c}
           /\ Order(MaxResult(r, c).risk) >= Order(r.risk)
           /\ Order(MaxResult(r, c).risk) >= Order(c.risk)
  BY OrderRange DEF MaxResult

-----------------------------------------------------------------------------
(* Type correctness                                                        *)

LEMMA TypeInit == Init => TypeOK
<1>. SUFFICES ASSUME Init PROVE TypeOK
  OBVIOUS
<1>1. result \in Result /\ changes \in Seq(Result) /\ candidates \in Seq(Result)
  BY NameAssumption DEF Init, Result, Tier
<1>2. exact \in [Type -> Seq(Rule)] /\ cross \in Seq(Rule) /\ calls \in Seq(Rule)
  BY DEF Init
<1>3. Len(changes) = 0 /\ Len(changes) <= Len(plan.changes)
  BY PlanFacts DEF Init
<1>. QED BY <1>1, <1>2, <1>3 DEF Init, TypeOK, NoGate, NoExit

LEMMA TypeStep == TypeOK /\ [Next]_vars => TypeOK'
<1>. SUFFICES ASSUME TypeOK, [Next]_vars PROVE TypeOK'
  OBVIOUS
<1>. USE DEF input, registry, classify, history
<1>1. CASE Load
  <2>1. pc' \in {"classify", "done"} /\ exit' \in {NoExit, 1} /\ (exit' = NoExit <=> pc' # "done")
    BY <1>1 DEF Load, TypeOK, Stop, NoExit
  <2>2. early' \subseteq Rule
    <3>1. \A s \in Seq(Rule) : Elements(s) \subseteq Rule
      BY DEF Elements
    <3>2. \A type \in Type : Elements(exact[type]) \subseteq Rule
      BY <3>1 DEF TypeOK
    <3>3. Elements(cross) \subseteq Rule
      BY <3>1 DEF TypeOK
    <3>4. Registered \subseteq Rule
      <4>. SUFFICES ASSUME NEW f \in Registered PROVE f \in Rule
        OBVIOUS
      <4>1. f \in Elements(cross) \/ \E type \in Type : f \in Elements(exact[type])
        BY DEF Registered
      <4>. QED BY <3>2, <3>3, <4>1
    <3>. QED BY <1>1, <3>4 DEF Load
  <2>. QED BY <1>1, <2>1, <2>2 DEF Load, TypeOK
<1>2. CASE BeginChange
  <2>1. Len(changes) < Len(plan.changes) /\ Len(changes) \in Nat /\ Len(plan.changes) \in Nat
    BY <1>2, PlanFacts DEF BeginChange, TypeOK
  <2>2. result' \in Result
    <3>1. result' = [risk |-> Baseline(plan.changes[Len(changes) + 1]), source |-> "builtin"]
      BY <1>2 DEF BeginChange
    <3>. QED BY <3>1, BaselineType, NameAssumption DEF Result
  <2>3. calls' \in Seq(Rule)
    <3>1. plan.changes[Len(changes) + 1].type \in Type
      BY <2>1, PlanFacts DEF TypeOK
    <3>2. Snapshot(plan.changes[Len(changes) + 1].type) \in Seq(Rule)
      BY <3>1 DEF Snapshot, TypeOK
    <3>3. calls' = Snapshot(plan.changes[Len(changes) + 1].type) \/ calls' = <<>>
      BY <1>2 DEF BeginChange
    <3>4. <<>> \in Seq(Rule)
      OBVIOUS
    <3>. QED BY <3>2, <3>3, <3>4
  <2>. QED BY <1>2, <2>1, <2>2, <2>3 DEF BeginChange, TypeOK, NoExit
<1>3. CASE RuleRaises
  BY <1>3 DEF RuleRaises, Stop, TypeOK, NoExit
<1>4. CASE Fold
  <2>1. Head(candidates) \in Result /\ Tail(candidates) \in Seq(Result)
    BY <1>4 DEF Fold, TypeOK
  <2>2. result' \in Result
    BY <1>4, <2>1, MaxFacts DEF Fold, TypeOK
  <2>. QED BY <1>4, <2>1, <2>2 DEF Fold, TypeOK
<1>5. CASE EndChange
  <2>1. changes' \in Seq(Result) /\ Len(changes') = Len(changes) + 1
    BY <1>5 DEF EndChange, TypeOK
  <2>2. Len(changes') <= Len(plan.changes)
    BY <1>5, <2>1, PlanFacts DEF EndChange, TypeOK
  <2>. QED BY <1>5, <2>1, <2>2 DEF EndChange, TypeOK, NoExit
<1>6. CASE FindFindings
  BY <1>6 DEF FindFindings, TypeOK, NoExit
<1>7. CASE TryOverride
  <2>1. changes' \in Seq(Result) /\ Len(changes') = Len(changes)
    <3>1. CASE UNCHANGED changes
      BY <3>1 DEF TypeOK
    <3>2. CASE ~UNCHANGED changes
      <4>1. /\ next \in DOMAIN option.overrides
            /\ at \in DOMAIN changes
            /\ changes' = [changes EXCEPT ![at] = Override(@, option.overrides[next].risk)]
        BY <1>7, <3>2 DEF TryOverride, TypeOK
      <4>2. option.overrides[next].risk \in Risk /\ changes[at] \in Result
        BY <4>1, OptionAssumption, NameAssumption DEF TypeOK
      <4>3. Override(changes[at], option.overrides[next].risk) \in Result
        BY <4>2, OverrideFacts
      <4>. QED BY <4>1, <4>3 DEF TypeOK
    <3>. QED BY <3>1, <3>2
  <2>. QED BY <1>7, <2>1 DEF TryOverride, TypeOK
<1>8. CASE NextChange
  BY <1>8 DEF NextChange, TypeOK
<1>9. CASE Overlaid
  <2>1. pc' \in {"report", "gate"} /\ pc = "overlay"
    BY <1>9 DEF Overlaid
  <2>. QED BY <1>9, <2>1 DEF Overlaid, TypeOK, NoExit
<1>10. CASE Gate
  <2>1. gate'.decision \in {"proceed", "warn", "block"} /\ ExitFor(gate'.decision) \in {0, 1, 2}
    BY <1>10, DecisionRange DEF Gate
  <2>2. pc = "gate" /\ \/ pc' = "done" /\ exit' = ExitFor(gate'.decision)
                       \/ pc' = "report" /\ exit' = exit
    BY <1>10 DEF Gate, Stop
  <2>. QED BY <1>10, <2>1, <2>2 DEF Gate, TypeOK, NoExit
<1>11. CASE Report
  <2>1. pc' = "done" /\ exit' \in {0, 1, 2}
    BY <1>11, FailOnRange DEF Report, Stop
  <2>. QED BY <1>11, <2>1 DEF Report, TypeOK, NoExit
<1>12. CASE AnnotationRaises
  BY <1>12 DEF AnnotationRaises, Stop, TypeOK, NoExit
<1>13. ASSUME NEW f \in Rule, Register(f) PROVE TypeOK'
  <2>1. exact' \in [Type -> Seq(Rule)] /\ cross' \in Seq(Rule)
    BY <1>13, AddOnceFacts DEF Register, TypeOK
  <2>. QED BY <1>13, <2>1 DEF Register, TypeOK
<1>14. ASSUME NEW rs \in Returns, Call(rs) PROVE TypeOK'
  <2>1. Head(calls) \in Rule /\ Tail(calls) \in Seq(Rule) /\ Len(changes) \in Nat
    BY <1>14 DEF Call, TypeOK
  <2>2. candidates' \in Seq(Result)
    BY <1>14, <2>1, StampFacts DEF Call, TypeOK
  <2>3. asked' \subseteq (Nat \X Rule)
    BY <1>14, <2>1 DEF Call, TypeOK
  <2>. QED BY <1>14, <2>1, <2>2, <2>3 DEF Call, TypeOK
<1>15. CASE UNCHANGED vars
  BY <1>15 DEF vars, TypeOK
<1>. QED BY <1>1, <1>2, <1>3, <1>4, <1>5, <1>6, <1>7, <1>8, <1>9, <1>10, <1>11, <1>12, <1>13,
            <1>14, <1>15 DEF Next

\* Every variable keeps its type, for every plan, command line and set of rules.
THEOREM TypeCorrect == Spec => []TypeOK
  BY TypeInit, TypeStep, PTL DEF Spec

-----------------------------------------------------------------------------
(* The invariant                                                           *)

\* While a change is being classified, what was heard about it is in the running
\* result or still among the candidates, and all of these were heard.
Weighed ==
    pc = "rules" =>
        /\ \A h \in heard : h.about = Len(changes) + 1 =>
              \/ Order(h.risk) <= Order(result.risk)
              \/ \E k \in DOMAIN candidates : candidates[k].risk = h.risk
        /\ \E h \in heard : /\ h.about = Len(changes) + 1
                            /\ h.risk = result.risk /\ h.by = result.source
        /\ \A k \in DOMAIN candidates :
              \E h \in heard : /\ h.about = Len(changes) + 1
                               /\ h.risk = candidates[k].risk /\ h.by = candidates[k].source

\* Verdicts are about the plan, about changes that have been classified or about
\* the one at hand; between changes no candidate is left over.
InOrder ==
    /\ \A h \in heard : \/ h.about \in 0..Len(changes)
                        \/ pc \in {"rules", "done"} /\ h.about = Len(changes) + 1
    /\ pc \notin {"rules", "done"} => candidates = <<>>
    /\ gate.decision # "none" => pc \in {"report", "done"}
    /\ pc = "report" => option.command # "agent-gate"

\* What was heard about the plan as a whole are its findings.
FindingsAreHeard ==
    /\ pc \in {"load", "classify", "rules"} => findings = {}
    /\ \A h \in heard : h.about = 0 =>
          \E k \in findings : h.risk = FindingRisk(plan.items[k])
    /\ \A k \in findings : \E h \in heard :
          h.about = 0 /\ h.risk = FindingRisk(plan.items[k])

Inv == Weighed /\ InOrder /\ FindingsAreHeard /\ SeverityIsKept /\ RiskHasItsSource

\* Steps that neither hear a verdict nor move one keep the invariant.
LEMMA InvStutter ==
    ASSUME TypeOK, Inv, UNCHANGED <<plan, option, changes, findings, heard>>,
           gate.decision = "none" \/ pc' \in {"report", "done"},
           UNCHANGED gate,
           pc' = "report" => option.command # "agent-gate",
           \/ UNCHANGED <<pc, result, candidates>>
           \/ pc' = "done"
           \/ pc \notin {"rules", "done"} /\ pc' \notin {"load", "classify", "rules"}
                  /\ UNCHANGED candidates
           \/ pc = "load" /\ pc' = "classify" /\ UNCHANGED candidates
    PROVE  Inv'
<1>1. Weighed'
  BY DEF Weighed, Inv
<1>2. InOrder'
  BY DEF InOrder, Inv
<1>3. FindingsAreHeard'
  BY DEF FindingsAreHeard, FindingRisk, Inv
<1>4. SeverityIsKept' /\ RiskHasItsSource'
  BY DEF SeverityIsKept, RiskHasItsSource, Inv
<1>. QED BY <1>1, <1>2, <1>3, <1>4 DEF Inv

LEMMA InvInit == Init => Inv
  BY DEF Init, Inv, Weighed, InOrder, FindingsAreHeard, SeverityIsKept, RiskHasItsSource,
         NoGate

\* The first verdict on a change is its baseline, which is the running result.
LEMMA InvBeginChange == TypeOK /\ Inv /\ BeginChange => Inv'
<1>. SUFFICES ASSUME TypeOK, Inv, BeginChange PROVE Inv'
  OBVIOUS
<1>. DEFINE i == Len(changes) + 1
            v == Verdict(i, Baseline(plan.changes[i]), "builtin")
<1>1. /\ Len(changes) \in Nat /\ DOMAIN changes = 1..Len(changes)
      /\ UNCHANGED <<plan, option, changes, findings, gate, candidates>>
      /\ pc = "classify" /\ pc' = "rules"
      /\ heard' = heard \union {v}
      /\ result' = [risk |-> Baseline(plan.changes[i]), source |-> "builtin"]
  BY DEF BeginChange, TypeOK, input
<1>2. v.about = i /\ v.risk = result'.risk /\ v.by = result'.source
  BY <1>1 DEF Verdict
<1>. HIDE DEF v
<1>3. \A h \in heard : h.about \in 0..Len(changes)
  BY <1>1 DEF Inv, InOrder
<1>4. candidates' = <<>>
  BY <1>1 DEF Inv, InOrder
<1>5. Weighed'
  <2>1. \A h \in heard' : h.about = i => h = v
    BY <1>1, <1>3
  <2>2. Order(v.risk) <= Order(result'.risk)
    BY <1>2, OrderRange
  <2>. QED BY <1>1, <1>2, <1>4, <2>1, <2>2 DEF Weighed
<1>6. InOrder'
  BY <1>1, <1>2, <1>3 DEF Inv, InOrder
<1>7. FindingsAreHeard'
  BY <1>1, <1>2 DEF Inv, FindingsAreHeard, FindingRisk
<1>8. SeverityIsKept' /\ RiskHasItsSource'
  BY <1>1, <1>2 DEF Inv, SeverityIsKept, RiskHasItsSource
<1>. QED BY <1>5, <1>6, <1>7, <1>8 DEF Inv

\* What a rule returns becomes candidates and is heard.
LEMMA InvCall == ASSUME NEW rs \in Returns PROVE TypeOK /\ Inv /\ Call(rs) => Inv'
<1>. SUFFICES ASSUME TypeOK, Inv, Call(rs) PROVE Inv'
  OBVIOUS
<1>. DEFINE i == Len(changes) + 1
            f == Head(calls)
            more == Stamp(f, rs)
            given(k) == IF rs[k].source = "builtin" THEN f.source ELSE rs[k].source
            new == {Verdict(i, rs[k].risk, given(k)) : k \in DOMAIN rs}
<1>1. /\ Len(changes) \in Nat /\ DOMAIN changes = 1..Len(changes)
      /\ UNCHANGED <<plan, option, changes, findings, gate, result, pc>>
      /\ pc = "rules" /\ f \in Rule
      /\ heard' = heard \union new
      /\ candidates' = candidates \o more
  BY DEF Call, TypeOK, input
<1>2. more \in Seq(Result) /\ DOMAIN more = DOMAIN rs
      /\ \A k \in DOMAIN rs : more[k].risk = rs[k].risk /\ more[k].source = given(k)
  BY <1>1, StampFacts
<1>3. /\ \A h \in new : /\ h.about = i
                        /\ \E k \in DOMAIN more : h.risk = more[k].risk
      /\ \A k \in DOMAIN more : \E h \in new :
            h.about = i /\ h.risk = more[k].risk /\ h.by = more[k].source
  <2>1. \A k \in DOMAIN rs : Verdict(i, rs[k].risk, given(k)) \in new
    OBVIOUS
  <2>2. \A h \in new : \E k \in DOMAIN rs : h = Verdict(i, rs[k].risk, given(k))
    OBVIOUS
  <2>3. \A k \in DOMAIN rs : /\ Verdict(i, rs[k].risk, given(k)).about = i
                             /\ Verdict(i, rs[k].risk, given(k)).risk = more[k].risk
                             /\ Verdict(i, rs[k].risk, given(k)).by = more[k].source
    BY <1>2 DEF Verdict
  <2>. HIDE DEF new, more, given
  <2>. QED BY <1>2, <2>1, <2>2, <2>3
<1>. HIDE DEF more, new, given
<1>4. /\ candidates \in Seq(Result)
      /\ \A k \in DOMAIN candidates : k \in DOMAIN candidates' /\ candidates'[k] = candidates[k]
      /\ \A k \in DOMAIN more : \E j \in DOMAIN candidates' : candidates'[j] = more[k]
      /\ \A j \in DOMAIN candidates' : \/ j \in DOMAIN candidates
                                       \/ \E k \in DOMAIN more : candidates'[j] = more[k]
  <2>1. candidates \in Seq(Result)
    BY DEF TypeOK
  <2>2. /\ Len(candidates) \in Nat /\ DOMAIN candidates = 1..Len(candidates)
        /\ Len(more) \in Nat /\ DOMAIN more = 1..Len(more)
        /\ DOMAIN (candidates \o more) = 1..(Len(candidates) + Len(more))
        /\ \A j \in 1..(Len(candidates) + Len(more)) :
              (candidates \o more)[j] = IF j <= Len(candidates) THEN candidates[j]
                                                      ELSE more[j - Len(candidates)]
    BY <2>1, <1>2
  <2>3. \A k \in DOMAIN more : /\ k + Len(candidates) \in DOMAIN (candidates \o more)
                               /\ (candidates \o more)[k + Len(candidates)] = more[k]
    BY <2>2
  <2>4. \A j \in DOMAIN (candidates \o more) :
            j \notin DOMAIN candidates => j - Len(candidates) \in DOMAIN more
    BY <2>2
  <2>. DEFINE both == candidates \o more
  <2>5. \A k \in DOMAIN candidates : k \in DOMAIN both /\ both[k] = candidates[k]
    BY <2>2
  <2>6. \A k \in DOMAIN more : \E j \in DOMAIN both : both[j] = more[k]
    BY <2>3
  <2>7. ASSUME NEW j \in DOMAIN both, j \notin DOMAIN candidates
        PROVE  \E k \in DOMAIN more : both[j] = more[k]
    <3>1. j - Len(candidates) \in DOMAIN more /\ both[j] = more[j - Len(candidates)]
      BY <2>2, <2>4, <2>7
    <3>. QED BY <3>1
  <2>8. candidates' = both
    BY <1>1
  <2>. HIDE DEF both
  <2>. QED BY <2>1, <2>5, <2>6, <2>7, <2>8
<1>5. Weighed'
  <2>1. ASSUME NEW h \in heard', h.about = i
        PROVE  \/ Order(h.risk) <= Order(result.risk)
               \/ \E k \in DOMAIN candidates' : candidates'[k].risk = h.risk
    <3>1. CASE h \in heard
      <4>1. \/ Order(h.risk) <= Order(result.risk)
            \/ \E k \in DOMAIN candidates : candidates[k].risk = h.risk
        BY <1>1, <2>1, <3>1 DEF Inv, Weighed
      <4>. QED BY <1>4, <4>1
    <3>2. CASE h \in new
      <4>1. PICK k \in DOMAIN more : h.risk = more[k].risk
        BY <1>3, <3>2
      <4>. QED BY <1>4, <4>1
    <3>. QED BY <1>1, <3>1, <3>2
  <2>2. \E h \in heard' : h.about = i /\ h.risk = result.risk /\ h.by = result.source
    BY <1>1 DEF Inv, Weighed
  <2>3. ASSUME NEW j \in DOMAIN candidates'
        PROVE  \E h \in heard' : /\ h.about = i /\ h.risk = candidates'[j].risk
                                 /\ h.by = candidates'[j].source
    <3>1. CASE j \in DOMAIN candidates
      <4>1. \E h \in heard : /\ h.about = i /\ h.risk = candidates[j].risk
                              /\ h.by = candidates[j].source
        BY <1>1, <3>1 DEF Inv, Weighed
      <4>. QED BY <1>1, <1>4, <3>1, <4>1
    <3>2. ASSUME NEW k \in DOMAIN more, candidates'[j] = more[k]
          PROVE  \E h \in heard' : /\ h.about = i /\ h.risk = candidates'[j].risk
                                   /\ h.by = candidates'[j].source
      BY <1>1, <1>3, <3>2
    <3>. QED BY <1>4, <3>1, <3>2
  <2>. QED BY <1>1, <2>1, <2>2, <2>3 DEF Weighed
<1>6. InOrder'
  BY <1>1, <1>3 DEF Inv, InOrder
<1>7. FindingsAreHeard'
  BY <1>1, <1>3 DEF Inv, FindingsAreHeard, FindingRisk
<1>8. SeverityIsKept' /\ RiskHasItsSource'
  BY <1>1, <1>3 DEF Inv, SeverityIsKept, RiskHasItsSource
<1>. QED BY <1>5, <1>6, <1>7, <1>8 DEF Inv

\* Folding a candidate loses neither it nor the running result's rank.
LEMMA InvFold == TypeOK /\ Inv /\ Fold => Inv'
<1>. SUFFICES ASSUME TypeOK, Inv, Fold PROVE Inv'
  OBVIOUS
<1>1. /\ UNCHANGED <<plan, option, changes, findings, gate, heard, pc>>
      /\ pc = "rules" /\ candidates # <<>>
      /\ result' = MaxResult(result, Head(candidates))
      /\ candidates' = Tail(candidates)
  BY DEF Fold, TypeOK, input, history
<1>2. /\ Head(candidates) = candidates[1] /\ 1 \in DOMAIN candidates
      /\ \A k \in DOMAIN candidates :
            k = 1 \/ (k - 1 \in DOMAIN Tail(candidates) /\ Tail(candidates)[k - 1] = candidates[k])
      /\ \A k \in DOMAIN Tail(candidates) :
            k + 1 \in DOMAIN candidates /\ Tail(candidates)[k] = candidates[k + 1]
      /\ result \in Result /\ candidates[1] \in Result
  BY <1>1 DEF TypeOK
<1>3. /\ result' \in {result, candidates[1]}
      /\ Order(result'.risk) >= Order(result.risk)
      /\ Order(result'.risk) >= Order(candidates[1].risk)
  BY <1>1, <1>2, MaxFacts
<1>4. Weighed'
  <2>1. ASSUME NEW h \in heard, h.about = Len(changes) + 1
        PROVE  \/ Order(h.risk) <= Order(result'.risk)
               \/ \E k \in DOMAIN candidates' : candidates'[k].risk = h.risk
    <3>1. CASE Order(h.risk) <= Order(result.risk)
      BY <1>3, <3>1, OrderRange
    <3>2. ASSUME NEW k \in DOMAIN candidates, candidates[k].risk = h.risk
          PROVE  \/ Order(h.risk) <= Order(result'.risk)
                 \/ \E j \in DOMAIN candidates' : candidates'[j].risk = h.risk
      <4>1. CASE k = 1
        BY <1>3, <3>2, <4>1, OrderRange
      <4>2. CASE k # 1
        BY <1>1, <1>2, <3>2, <4>2
      <4>. QED BY <4>1, <4>2
    <3>. QED BY <1>1, <2>1, <3>1, <3>2 DEF Inv, Weighed
  <2>2. \E h \in heard : /\ h.about = Len(changes) + 1
                         /\ h.risk = result'.risk /\ h.by = result'.source
    BY <1>1, <1>2, <1>3 DEF Inv, Weighed
  <2>3. ASSUME NEW k \in DOMAIN candidates'
        PROVE  \E h \in heard : /\ h.about = Len(changes) + 1
                                /\ h.risk = candidates'[k].risk
                                /\ h.by = candidates'[k].source
    BY <1>1, <1>2 DEF Inv, Weighed
  <2>. QED BY <1>1, <2>1, <2>2, <2>3 DEF Weighed
<1>5. InOrder' /\ FindingsAreHeard'
  BY <1>1 DEF Inv, InOrder, FindingsAreHeard, FindingRisk
<1>6. SeverityIsKept' /\ RiskHasItsSource'
  BY <1>1 DEF Inv, SeverityIsKept, RiskHasItsSource
<1>. QED BY <1>4, <1>5, <1>6 DEF Inv

\* A change is reported when its candidates have been folded.
LEMMA InvEndChange == TypeOK /\ Inv /\ EndChange => Inv'
<1>. SUFFICES ASSUME TypeOK, Inv, EndChange PROVE Inv'
  OBVIOUS
<1>. DEFINE n == Len(changes)
<1>1. /\ UNCHANGED <<plan, option, findings, gate, heard, candidates>>
      /\ pc = "rules" /\ pc' = "classify" /\ candidates = <<>>
      /\ changes' = Append(changes, result)
  BY DEF EndChange, TypeOK, input, classify, history
<1>2. /\ n \in Nat /\ DOMAIN changes = 1..n
      /\ Len(changes') = n + 1 /\ DOMAIN changes' = 1..(n + 1)
      /\ changes'[n + 1] = result /\ \A i \in 1..n : changes'[i] = changes[i]
  BY <1>1 DEF TypeOK
<1>3. /\ \A h \in heard : h.about = n + 1 => Order(h.risk) <= Order(result.risk)
      /\ \E h \in heard : h.about = n + 1 /\ h.risk = result.risk /\ h.by = result.source
  BY <1>1 DEF Inv, Weighed
<1>4. SeverityIsKept' /\ RiskHasItsSource'
  <2>1. ASSUME NEW i \in DOMAIN changes'
        PROVE  /\ \A h \in heard : h.about = i => Order(h.risk) <= Order(changes'[i].risk)
               /\ \E h \in heard : h.about = i /\ h.risk = changes'[i].risk
               /\ \E h \in heard : /\ h.about = i /\ h.risk = changes'[i].risk
                                   /\ h.by \in {changes'[i].source, "overlay"}
    <3>1. CASE i = n + 1
      BY <1>2, <1>3, <3>1
    <3>2. CASE i # n + 1
      <4>1. i \in DOMAIN changes /\ changes'[i] = changes[i]
        BY <1>2, <3>2
      <4>. QED BY <4>1 DEF Inv, SeverityIsKept, RiskHasItsSource
    <3>. QED BY <3>1, <3>2
  <2>. QED BY <1>1, <2>1 DEF SeverityIsKept, RiskHasItsSource
<1>5. InOrder'
  BY <1>1, <1>2 DEF Inv, InOrder
<1>6. Weighed' /\ FindingsAreHeard'
  BY <1>1 DEF Inv, Weighed, FindingsAreHeard, FindingRisk
<1>. QED BY <1>4, <1>5, <1>6 DEF Inv

LEMMA InvFindFindings == TypeOK /\ Inv /\ FindFindings => Inv'
<1>. SUFFICES ASSUME TypeOK, Inv, FindFindings PROVE Inv'
  OBVIOUS
<1>. DEFINE new == {Verdict(0, FindingRisk(plan.items[k]), "builtin") : k \in findings'}
<1>1. /\ UNCHANGED <<plan, option, changes, gate, candidates>>
      /\ pc = "classify" /\ pc' = "overlay"
      /\ heard' = heard \union new
      /\ Len(changes) \in Nat /\ DOMAIN changes = 1..Len(changes)
  BY DEF FindFindings, TypeOK, input, classify
<1>2. /\ \A k \in findings' : Verdict(0, FindingRisk(plan.items[k]), "builtin") \in new
      /\ \A h \in new : \E k \in findings' :
            h = Verdict(0, FindingRisk(plan.items[k]), "builtin")
  OBVIOUS
<1>. HIDE DEF new
<1>3. \A risk : /\ Verdict(0, risk, "builtin").about = 0
                /\ Verdict(0, risk, "builtin").risk = risk
  BY DEF Verdict
<1>4. \A h \in new : h.about = 0
  BY <1>2, <1>3
<1>5. \A h \in heard : h.about # 0
  BY <1>1 DEF Inv, FindingsAreHeard
<1>6. FindingsAreHeard'
  <2>1. \A h \in heard' : h.about = 0 =>
            \E k \in findings' : h.risk = FindingRisk(plan.items[k])
    BY <1>1, <1>2, <1>3, <1>5
  <2>2. \A k \in findings' : \E h \in heard' :
            h.about = 0 /\ h.risk = FindingRisk(plan.items[k])
    BY <1>1, <1>2, <1>3
  <2>. QED BY <1>1, <2>1, <2>2 DEF FindingsAreHeard, FindingRisk
<1>7. Weighed' /\ InOrder'
  BY <1>1, <1>4 DEF Inv, Weighed, InOrder
<1>8. SeverityIsKept' /\ RiskHasItsSource'
  BY <1>1, <1>4 DEF Inv, SeverityIsKept, RiskHasItsSource
<1>. QED BY <1>6, <1>7, <1>8 DEF Inv

\* An override that matches is heard; it replaces a risk that is not higher.
LEMMA InvTryOverride == TypeOK /\ Inv /\ TryOverride => Inv'
<1>. SUFFICES ASSUME TypeOK, Inv, TryOverride PROVE Inv'
  OBVIOUS
<1>. DEFINE o == option.overrides[next]
<1>1. /\ UNCHANGED <<plan, option, pc, result, findings, gate, candidates>>
      /\ pc = "overlay"
      /\ at \in DOMAIN changes /\ next \in DOMAIN option.overrides
      /\ changes[at] \in Result
      /\ Len(changes) \in Nat /\ DOMAIN changes = 1..Len(changes)
  BY DEF TryOverride, TypeOK, input, classify
<1>2. CASE Matches(plan.changes[at], o.match)
  <2>. DEFINE v == Verdict(at, o.risk, "overlay")
              r == Override(changes[at], o.risk)
  <2>1. changes' = [changes EXCEPT ![at] = r] /\ heard' = heard \union {v}
    BY <1>2 DEF TryOverride
  <2>2. v.about = at /\ v.risk = o.risk /\ v.by = "overlay"
    BY DEF Verdict
  <2>3. o.risk \in Risk
    BY <1>1, OptionAssumption, NameAssumption DEF TypeOK
  <2>4. /\ Order(r.risk) >= Order(changes[at].risk)
        /\ Order(r.risk) >= Order(o.risk)
        /\ r.source = changes[at].source
        /\ r.risk \in {changes[at].risk, o.risk}
    BY <1>1, <2>3, OverrideFacts
  <2>. HIDE DEF v, r, o
  <2>5. /\ DOMAIN changes' = DOMAIN changes /\ Len(changes') = Len(changes)
        /\ changes'[at] = r /\ \A i \in DOMAIN changes : i # at => changes'[i] = changes[i]
    BY <1>1, <2>1 DEF TypeOK
  <2>6. ASSUME NEW i \in DOMAIN changes'
        PROVE  /\ \A h \in heard' : h.about = i => Order(h.risk) <= Order(changes'[i].risk)
               /\ \E h \in heard' : h.about = i /\ h.risk = changes'[i].risk
               /\ \E h \in heard' : /\ h.about = i /\ h.risk = changes'[i].risk
                                    /\ h.by \in {changes'[i].source, "overlay"}
    <3>1. /\ \A h \in heard : h.about = i => Order(h.risk) <= Order(changes[i].risk)
          /\ \E h \in heard : h.about = i /\ h.risk = changes[i].risk
          /\ \E h \in heard : /\ h.about = i /\ h.risk = changes[i].risk
                              /\ h.by \in {changes[i].source, "overlay"}
      BY <2>5, <2>6 DEF Inv, SeverityIsKept, RiskHasItsSource
    <3>2. CASE i = at
      <4>1. ASSUME NEW h \in heard', h.about = i
            PROVE  Order(h.risk) <= Order(r.risk)
        BY <2>1, <2>2, <2>4, <3>1, <3>2, <4>1, OrderRange
      <4>2. CASE r.risk = o.risk
        BY <2>1, <2>2, <2>5, <3>2, <4>1, <4>2
      <4>3. CASE r.risk = changes[at].risk
        BY <2>1, <2>4, <2>5, <3>1, <3>2, <4>1, <4>3
      <4>. QED BY <2>4, <4>2, <4>3
    <3>3. CASE i # at
      BY <2>1, <2>2, <2>5, <3>1, <3>3
    <3>. QED BY <3>2, <3>3
  <2>7. SeverityIsKept' /\ RiskHasItsSource'
    BY <2>6 DEF SeverityIsKept, RiskHasItsSource
  <2>8. Weighed' /\ InOrder'
    BY <1>1, <2>1, <2>2, <2>5 DEF Inv, Weighed, InOrder
  <2>9. FindingsAreHeard'
    BY <1>1, <2>1, <2>2 DEF Inv, FindingsAreHeard, FindingRisk
  <2>. QED BY <2>7, <2>8, <2>9 DEF Inv
<1>3. CASE ~Matches(plan.changes[at], o.match)
  <2>1. UNCHANGED <<changes, heard>>
    BY <1>3 DEF TryOverride
  <2>. QED BY <1>1, <2>1, InvStutter DEF Inv, InOrder
<1>. QED BY <1>2, <1>3

\* A decision is made once, at the end.
LEMMA InvGate == TypeOK /\ Inv /\ Gate => Inv'
<1>. SUFFICES ASSUME TypeOK, Inv, Gate PROVE Inv'
  OBVIOUS
<1>1. /\ UNCHANGED <<plan, option, changes, findings, heard, candidates>>
      /\ pc = "gate" /\ pc' \in {"report", "done"}
      /\ pc' = "report" => option.command # "agent-gate"
  BY DEF Gate, Stop, input, classify, history
<1>2. Weighed' /\ InOrder'
  BY <1>1 DEF Inv, Weighed, InOrder
<1>3. FindingsAreHeard'
  BY <1>1 DEF Inv, FindingsAreHeard, FindingRisk
<1>4. SeverityIsKept' /\ RiskHasItsSource'
  BY <1>1 DEF Inv, SeverityIsKept, RiskHasItsSource
<1>. QED BY <1>2, <1>3, <1>4 DEF Inv

LEMMA InvStep == TypeOK /\ Inv /\ [Next]_vars => Inv'
<1>. SUFFICES ASSUME TypeOK, Inv, [Next]_vars PROVE Inv'
  OBVIOUS
<1>. USE DEF input, registry, classify, history
<1>0. /\ gate.decision = "none" \/ pc \in {"report", "done"}
      /\ pc = "report" => option.command # "agent-gate"
  BY DEF Inv, InOrder
<1>1. CASE Load
  BY <1>0, <1>1, InvStutter DEF Load, Stop
<1>2. CASE RuleRaises
  BY <1>0, <1>2, InvStutter DEF RuleRaises, Stop
<1>3. CASE NextChange
  BY <1>0, <1>3, InvStutter DEF NextChange
<1>4. CASE Overlaid
  <2>1. pc = "overlay" /\ pc' \in {"report", "gate"} /\ pc' = "report" => option.command = "analyze"
    BY <1>4 DEF Overlaid
  <2>. QED BY <1>0, <1>4, <2>1, InvStutter DEF Overlaid
<1>5. CASE Report
  BY <1>0, <1>5, InvStutter DEF Report, Stop
<1>6. CASE AnnotationRaises
  BY <1>0, <1>6, InvStutter DEF AnnotationRaises, Stop
<1>7. ASSUME NEW f \in Rule, Register(f) PROVE Inv'
  BY <1>0, <1>7, InvStutter DEF Register
<1>8. CASE UNCHANGED vars
  BY <1>0, <1>8, InvStutter DEF vars
<1>. QED BY <1>1, <1>2, <1>3, <1>4, <1>5, <1>6, <1>7, <1>8, InvBeginChange, InvCall, InvFold,
            InvEndChange, InvFindFindings, InvTryOverride, InvGate DEF Next

LEMMA Invariant == Spec => []Inv
  BY TypeCorrect, InvInit, InvStep, PTL DEF Spec

\* No verdict on a change is masked, whatever rules and overlays there are and in
\* whatever order they speak, and no risk is made up.
THEOREM NoVerdictIsMasked == Spec => []SeverityIsKept
<1>1. Inv => SeverityIsKept
  BY DEF Inv
<1>. QED BY <1>1, Invariant, PTL

\* A change's risk comes from the source it names or from an overlay.
THEOREM SourcesAreNamed == Spec => []RiskHasItsSource
<1>1. Inv => RiskHasItsSource
  BY DEF Inv
<1>. QED BY <1>1, Invariant, PTL

-----------------------------------------------------------------------------
(* The exit code and the decision                                          *)

\* When the gate decides, what was heard is bounded by the reported risks, all
\* of which were heard.
LEMMA RisksAreHeard ==
    ASSUME TypeOK, Inv, pc \in {"gate", "report"}
    PROVE  /\ \A h \in heard : \E risk \in Risks : Order(h.risk) <= Order(risk)
           /\ \A risk \in Risks : \E h \in heard : h.risk = risk
<1>1. Len(changes) \in Nat /\ DOMAIN changes = 1..Len(changes)
  BY DEF TypeOK
<1>2. ASSUME NEW h \in heard
      PROVE  \E risk \in Risks : Order(h.risk) <= Order(risk)
  <2>1. h.about \in 0..Len(changes)
    BY DEF Inv, InOrder
  <2>2. CASE h.about = 0
    <3>1. PICK k \in findings : h.risk = FindingRisk(plan.items[k])
      BY <2>2 DEF Inv, FindingsAreHeard
    <3>2. FindingRisk(plan.items[k]) \in Risks
      BY DEF Risks
    <3>. QED BY <3>1, <3>2, OrderRange
  <2>3. CASE h.about # 0
    <3>1. h.about \in DOMAIN changes
      BY <1>1, <2>1, <2>3
    <3>2. Order(h.risk) <= Order(changes[h.about].risk)
      BY <3>1 DEF Inv, SeverityIsKept
    <3>3. changes[h.about].risk \in Risks
      BY <3>1 DEF Risks
    <3>. QED BY <3>2, <3>3
  <2>. QED BY <2>2, <2>3
<1>3. ASSUME NEW risk \in Risks
      PROVE  \E h \in heard : h.risk = risk
  <2>1. \/ \E i \in DOMAIN changes : risk = changes[i].risk
        \/ \E k \in findings : risk = FindingRisk(plan.items[k])
    BY DEF Risks
  <2>2. CASE \E i \in DOMAIN changes : risk = changes[i].risk
    BY <2>2 DEF Inv, SeverityIsKept
  <2>3. CASE \E k \in findings : risk = FindingRisk(plan.items[k])
    BY <2>3 DEF Inv, FindingsAreHeard
  <2>. QED BY <2>1, <2>2, <2>3
<1>. QED BY <1>2, <1>3

\* The risk the gate decides by is heard, unless there is none, and is the
\* highest.
LEMMA GateRisk ==
    ASSUME TypeOK, Inv, pc = "gate", NEW risk, IsMaxRisk(risk)
    PROVE  /\ \A h \in heard : Order(h.risk) <= Order(risk)
           /\ (heard = {} /\ risk = "safe") \/ (\E h \in heard : h.risk = risk)
<1>1. CASE Risks = {}
  BY <1>1, RisksAreHeard DEF IsMaxRisk
<1>2. CASE Risks # {}
  <2>1. risk \in Risks /\ \A other \in Risks : Order(other) <= Order(risk)
    BY <1>2 DEF IsMaxRisk
  <2>2. ASSUME NEW h \in heard PROVE Order(h.risk) <= Order(risk)
    <3>1. PICK other \in Risks : Order(h.risk) <= Order(other)
      BY RisksAreHeard
    <3>. QED BY <2>1, <3>1, OrderRange
  <2>. QED BY <2>1, <2>2, RisksAreHeard
<1>. QED BY <1>1, <1>2

LEMMA ExitStep == TypeOK /\ Inv /\ ExitZeroMeansClear /\ [Next]_vars => ExitZeroMeansClear'
<1>. SUFFICES ASSUME TypeOK, Inv, ExitZeroMeansClear, [Next]_vars PROVE ExitZeroMeansClear'
  OBVIOUS
<1>. USE DEF input, registry, classify, history
<1>0. pc # "done" => exit = NoExit
  BY DEF TypeOK
<1>1. CASE Gate
  <2>1. CASE exit' # 0
    BY <2>1 DEF ExitZeroMeansClear
  <2>2. CASE exit' = 0
    <3>1. /\ pc = "gate" /\ UNCHANGED <<option, heard>>
          /\ option.command = "agent-gate"
          /\ exit' = ExitFor(gate'.decision)
      BY <1>0, <1>1, <2>2 DEF Gate, Stop, NoExit
    <3>2. PICK risk : IsMaxRisk(risk) /\ gate'.decision = DecisionForRisk(risk)
      BY <1>1 DEF Gate
    <3>3. risk = "safe"
      BY <2>2, <3>1, <3>2, DecisionRange
    <3>4. \A h \in heard : Order(h.risk) = 0
      BY <3>1, <3>2, <3>3, GateRisk, OrderRange, OrderMeans
    <3>5. option.failOn = "unset"
      BY <3>1, OptionAssumption DEF TypeOK
    <3>. QED BY <3>1, <3>4, <3>5 DEF ExitZeroMeansClear
  <2>. QED BY <2>1, <2>2
<1>2. CASE Report
  <2>1. /\ pc = "report" /\ UNCHANGED <<option, heard>> /\ exit' = FailOnCode(option.failOn)
        /\ option.command # "agent-gate"
    BY <1>2 DEF Report, Stop, Inv, InOrder
  <2>2. ASSUME exit' = 0, option.failOn # "unset", NEW h \in heard
        PROVE  Order(h.risk) < Order(option.failOn)
    <3>1. \A risk \in Risks : ~(Order(risk) >= Order(option.failOn))
      BY <2>1, <2>2 DEF FailOnCode
    <3>2. PICK risk \in Risks : Order(h.risk) <= Order(risk)
      BY <2>1, RisksAreHeard
    <3>. QED BY <3>1, <3>2, OrderRange
  <2>. QED BY <2>1, <2>2 DEF ExitZeroMeansClear
<1>3. ASSUME exit' # 0 PROVE ExitZeroMeansClear'
  BY <1>3 DEF ExitZeroMeansClear
<1>4. CASE Load \/ RuleRaises \/ AnnotationRaises
  <2>1. exit' \in {1, exit} /\ pc # "done"
    BY <1>4 DEF Load, RuleRaises, AnnotationRaises, Stop
  <2>. QED BY <1>0, <1>3, <2>1 DEF NoExit
<1>5. CASE BeginChange \/ Fold \/ EndChange \/ FindFindings \/ TryOverride \/ NextChange
               \/ Overlaid \/ (\E f \in Rule : Register(f)) \/ \E rs \in Returns : Call(rs)
  <2>1. exit' = exit /\ exit = NoExit
    BY <1>0, <1>5 DEF BeginChange, Fold, EndChange, FindFindings, TryOverride, NextChange,
                      Overlaid, Register, Call
  <2>. QED BY <1>3, <2>1 DEF NoExit
<1>6. CASE UNCHANGED vars
  BY <1>6 DEF vars, ExitZeroMeansClear
<1>. QED BY <1>1, <1>2, <1>4, <1>5, <1>6 DEF Next

\* Exit code 0 is never given to a plan of which some rule, overlay or finding
\* said that it is at or above the threshold.
THEOREM ExitZeroIsClear == Spec => []ExitZeroMeansClear
<1>1. Init => ExitZeroMeansClear
  BY DEF Init, ExitZeroMeansClear, NoExit
<1>. QED BY <1>1, TypeCorrect, Invariant, ExitStep, PTL DEF Spec

\* Steps other than the gate's only add to what was heard.
LEMMA HeardGrows ==
    ASSUME TypeOK, Inv, [Next]_vars, ~Gate
    PROVE  UNCHANGED gate /\ (UNCHANGED heard \/ (gate.decision = "none" /\ heard \subseteq heard'))
<1>. USE DEF input, registry, classify, history
<1>1. gate.decision = "none" \/ pc \in {"report", "done"}
  BY DEF Inv, InOrder
<1>2. CASE BeginChange
  BY <1>1, <1>2 DEF BeginChange
<1>3. ASSUME NEW rs \in Returns, Call(rs)
      PROVE  UNCHANGED gate /\ gate.decision = "none" /\ heard \subseteq heard'
  BY <1>1, <1>3 DEF Call
<1>4. CASE FindFindings
  BY <1>1, <1>4 DEF FindFindings
<1>5. CASE TryOverride
  BY <1>1, <1>5 DEF TryOverride
<1>6. CASE Load \/ RuleRaises \/ Fold \/ EndChange \/ NextChange \/ Overlaid \/ Report
               \/ AnnotationRaises \/ \E f \in Rule : Register(f)
  BY <1>6 DEF Load, RuleRaises, Fold, EndChange, NextChange, Overlaid, Report,
              AnnotationRaises, Register
<1>7. CASE UNCHANGED vars
  BY <1>7 DEF vars
<1>. QED BY <1>2, <1>3, <1>4, <1>5, <1>6, <1>7 DEF Next

RanksOf(said) == {Order(h.risk) : h \in said}

\* The gate implements its promise: the decision is that of the highest rank
\* heard from anyone.
THEOREM GateImplementsCeiling == Spec => ImplementsCeiling
<1>1. Init => Ceiling!Init
  BY DEF Init, Ceiling!Init, NoGate
<1>2. TypeOK /\ Inv /\ [Next]_vars => [Ceiling!Next]_(Ceiling!vars)
  <2>. SUFFICES ASSUME TypeOK, Inv, [Next]_vars PROVE [Ceiling!Next]_(Ceiling!vars)
    OBVIOUS
  <2>1. CASE Gate
    <3>1. PICK risk : /\ IsMaxRisk(risk)
                      /\ gate'.decision = DecisionForRisk(risk)
      BY <2>1 DEF Gate
    <3>2. pc = "gate" /\ UNCHANGED heard
      BY <2>1 DEF Gate, history
    <3>3. gate.decision = "none"
      BY <3>2 DEF Inv, InOrder
    <3>4. /\ \A r \in RanksOf(heard) : r \in 0..3 /\ r <= Order(risk)
          /\ (RanksOf(heard) = {} /\ risk = "safe") \/ (Order(risk) \in RanksOf(heard))
      BY <3>1, <3>2, GateRisk, OrderRange DEF RanksOf
    <3>5. DecisionForRisk(risk) = Ceiling!ByCeiling(RanksOf(heard))
      <4>1. CASE Order(risk) \in {2, 3}
        <5>1. RanksOf(heard) \cap {2, 3} # {}
          BY <3>4, <4>1, OrderMeans
        <5>2. Ceiling!ByCeiling(RanksOf(heard)) = "block"
          <6>1. ~(RanksOf(heard) \cap {1, 2, 3} = {1}) /\ ~(RanksOf(heard) \subseteq {0})
            BY <5>1
          <6>. QED BY <5>1, <6>1 DEF Ceiling!ByCeiling
        <5>3. DecisionForRisk(risk) = "block"
          BY <4>1, OrderMeans DEF DecisionForRisk, Tier
        <5>. QED BY <5>2, <5>3
      <4>2. CASE Order(risk) = 1
        <5>1. RanksOf(heard) \cap {1, 2, 3} = {1} /\ RanksOf(heard) \cap {2, 3} = {}
              /\ ~(RanksOf(heard) \subseteq {0})
          BY <3>4, <4>2, OrderMeans
        <5>2. Ceiling!ByCeiling(RanksOf(heard)) = "warn"
          BY <5>1 DEF Ceiling!ByCeiling
        <5>3. DecisionForRisk(risk) = "warn"
          BY <4>2, OrderMeans DEF DecisionForRisk, Tier
        <5>. QED BY <5>2, <5>3
      <4>3. CASE Order(risk) = 0
        <5>1. RanksOf(heard) \subseteq {0} /\ RanksOf(heard) \cap {2, 3} = {}
              /\ RanksOf(heard) \cap {1, 2, 3} # {1}
          BY <3>4, <4>3
        <5>2. Ceiling!ByCeiling(RanksOf(heard)) = "proceed"
          BY <5>1 DEF Ceiling!ByCeiling
        <5>3. DecisionForRisk(risk) = "proceed"
          BY <4>3, OrderMeans, DecisionRange
        <5>. QED BY <5>2, <5>3
      <4>. QED BY <4>1, <4>2, <4>3, OrderRange
    <3>6. Ceiling!Decide
      BY <3>1, <3>2, <3>3, <3>5 DEF Ceiling!Decide, RanksOf
    <3>. QED BY <3>6 DEF Ceiling!Next
  <2>2. CASE ~Gate
    <3>1. CASE UNCHANGED <<gate, heard>>
      BY <3>1 DEF Ceiling!vars
    <3>2. CASE gate.decision = "none" /\ UNCHANGED gate /\ heard \subseteq heard'
      <4>. DEFINE some == RanksOf(heard')
      <4>1. some \in SUBSET (0..3) /\ some = RanksOf(heard) \union some
        BY <3>2, OrderRange DEF RanksOf
      <4>2. Ceiling!Hear(some)
        BY <3>2, <4>1 DEF Ceiling!Hear, RanksOf
      <4>. QED BY <4>1, <4>2 DEF Ceiling!Next, Ceiling!Rank
    <3>. QED BY <2>2, <3>1, <3>2, HeardGrows
  <2>. QED BY <2>1, <2>2
<1>. QED BY <1>1, <1>2, TypeCorrect, Invariant, PTL DEF Spec, ImplementsCeiling, Ceiling!Spec

-----------------------------------------------------------------------------
(* No rule is left out                                                     *)

\* A rule is in every bucket it belongs to as soon as it is in one.
InBuckets(f) ==
    /\ \A type \in f.types \cap Type : f \in Elements(exact[type])
    /\ AnyType \in f.types => f \in Elements(cross)

\* Of the early rules for the change at hand, those not asked are still to call.
AskedSoFar ==
    pc = "rules" =>
        LET c == plan.changes[Len(changes) + 1] IN
        option.rules /\ ~c.malformed =>
            \A f \in early : f.types \cap {c.type, AnyType} # {} =>
                \/ <<Len(changes) + 1, f>> \in asked
                \/ f \in Elements(calls)

AskInv ==
    /\ \A f \in Registered \union early : InBuckets(f)
    /\ AskedSoFar
    /\ EarlyRulesAreAsked
    /\ pc = "load" => changes = <<>>

\* Concatenation keeps the elements of both lists.
LEMMA ConcatElements ==
    ASSUME NEW s \in Seq(Rule), NEW t \in Seq(Rule)
    PROVE  Elements(s) \union Elements(t) \subseteq Elements(s \o t)
<1>1. /\ Len(s) \in Nat /\ DOMAIN s = 1..Len(s) /\ Len(t) \in Nat /\ DOMAIN t = 1..Len(t)
      /\ DOMAIN (s \o t) = 1..(Len(s) + Len(t))
      /\ \A j \in 1..(Len(s) + Len(t)) :
            (s \o t)[j] = IF j <= Len(s) THEN s[j] ELSE t[j - Len(s)]
  OBVIOUS
<1>2. ASSUME NEW k \in DOMAIN s PROVE s[k] \in Elements(s \o t)
  <2>1. k \in DOMAIN (s \o t) /\ (s \o t)[k] = s[k]
    BY <1>1
  <2>. QED BY <2>1 DEF Elements
<1>3. ASSUME NEW k \in DOMAIN t PROVE t[k] \in Elements(s \o t)
  <2>1. k + Len(s) \in DOMAIN (s \o t) /\ (s \o t)[k + Len(s)] = t[k]
    BY <1>1
  <2>. QED BY <2>1 DEF Elements
<1>. QED BY <1>2, <1>3 DEF Elements

LEMMA AskStep == TypeOK /\ AskInv /\ [Next]_vars => AskInv'
<1>. SUFFICES ASSUME TypeOK, AskInv, [Next]_vars PROVE AskInv'
  OBVIOUS
<1>. USE DEF input, registry, classify, history
<1>0. Len(changes) \in Nat /\ DOMAIN changes = 1..Len(changes)
  BY DEF TypeOK
<1>1. ASSUME UNCHANGED <<exact, cross, early, plan, option, changes>>,
             pc' = "rules" => UNCHANGED <<pc, asked, calls>>, asked \subseteq asked',
             pc' = "load" => pc = "load"
      PROVE  AskInv'
  <2>1. \A f \in (Registered \union early)' : InBuckets(f)'
    BY <1>1 DEF AskInv, Registered, InBuckets
  <2>2. AskedSoFar'
    BY <1>1 DEF AskInv, AskedSoFar
  <2>3. EarlyRulesAreAsked'
    BY <1>1 DEF AskInv, EarlyRulesAreAsked
  <2>4. (pc = "load" => changes = <<>>)'
    BY <1>1 DEF AskInv
  <2>. QED BY <2>1, <2>2, <2>3, <2>4 DEF AskInv
<1>2. CASE RuleRaises \/ FindFindings \/ NextChange \/ Overlaid \/ Gate \/ Report
               \/ AnnotationRaises
  <2>1. /\ UNCHANGED <<exact, cross, early, plan, option, changes, asked>>
        /\ pc' \notin {"rules", "load"}
    BY <1>2 DEF RuleRaises, FindFindings, NextChange, Overlaid, Gate, Report,
                AnnotationRaises, Stop
  <2>. QED BY <1>1, <2>1
<1>3. CASE Fold
  BY <1>1, <1>3 DEF Fold
<1>4. CASE UNCHANGED vars
  BY <1>1, <1>4 DEF vars
<1>5. CASE Load
  <2>1. /\ UNCHANGED <<exact, cross, plan, option, changes, asked>>
        /\ early' = Registered /\ pc' \notin {"rules", "load"} /\ changes = <<>>
    BY <1>5 DEF Load, Stop, AskInv
  <2>2. \A f \in (Registered \union early)' : InBuckets(f)'
    BY <2>1 DEF AskInv, Registered, InBuckets
  <2>. QED BY <2>1, <2>2 DEF AskInv, AskedSoFar, EarlyRulesAreAsked
<1>6. CASE BeginChange
  <2>. DEFINE i == Len(changes) + 1
              c == plan.changes[i]
  <2>1. /\ UNCHANGED <<exact, cross, early, plan, option, changes, asked>>
        /\ pc' = "rules"
        /\ calls' = IF option.rules /\ ~c.malformed THEN Snapshot(c.type) ELSE <<>>
        /\ i \in 1..Len(plan.changes)
    BY <1>0, <1>6, PlanFacts DEF BeginChange, TypeOK
  <2>2. c.type \in Type
    BY <2>1, PlanFacts DEF TypeOK
  <2>3. ASSUME option.rules, ~c.malformed, NEW f \in early, f.types \cap {c.type, AnyType} # {}
        PROVE  f \in Elements(calls')
    <3>1. f \in Elements(exact[c.type]) \/ f \in Elements(cross)
      BY <2>2, <2>3 DEF AskInv, InBuckets
    <3>2. exact[c.type] \in Seq(Rule) /\ cross \in Seq(Rule)
      BY <2>2 DEF TypeOK
    <3>3. Elements(exact[c.type]) \union Elements(cross) \subseteq Elements(calls')
      BY <2>1, <2>3, <3>2, ConcatElements DEF Snapshot
    <3>. QED BY <3>1, <3>3
  <2>4. AskedSoFar'
    BY <2>1, <2>3 DEF AskedSoFar
  <2>. QED BY <2>1, <2>4 DEF AskInv, EarlyRulesAreAsked, Registered, InBuckets
<1>7. ASSUME NEW rs \in Returns, Call(rs) PROVE AskInv'
  <2>1. /\ UNCHANGED <<exact, cross, early, plan, option, changes, pc>>
        /\ pc = "rules" /\ calls \in Seq(Rule) /\ calls # <<>>
        /\ asked' = asked \union {<<Len(changes) + 1, Head(calls)>>}
        /\ calls' = Tail(calls)
    BY <1>7 DEF Call, TypeOK
  <2>2. ASSUME NEW f \in Elements(calls) PROVE f = Head(calls) \/ f \in Elements(calls')
    <3>1. PICK k \in DOMAIN calls : f = calls[k]
      BY DEF Elements
    <3>2. CASE k = 1
      BY <2>1, <3>1, <3>2
    <3>3. CASE k # 1
      <4>1. k - 1 \in DOMAIN Tail(calls) /\ Tail(calls)[k - 1] = calls[k]
        BY <2>1, <3>1, <3>3
      <4>. QED BY <2>1, <3>1, <4>1 DEF Elements
    <3>. QED BY <3>2, <3>3
  <2>3. AskedSoFar'
    BY <2>1, <2>2 DEF AskInv, AskedSoFar
  <2>. QED BY <2>1, <2>3 DEF AskInv, EarlyRulesAreAsked, Registered, InBuckets
<1>8. CASE EndChange
  <2>1. /\ UNCHANGED <<exact, cross, early, plan, option, asked>>
        /\ pc = "rules" /\ pc' = "classify" /\ Elements(calls) = {}
        /\ DOMAIN changes' = 1..(Len(changes) + 1)
    BY <1>0, <1>8 DEF EndChange, TypeOK, Elements
  <2>2. ASSUME NEW i \in DOMAIN changes', NEW f \in early, option.rules,
               ~plan.changes[i].malformed, f.types \cap {plan.changes[i].type, AnyType} # {}
        PROVE  <<i, f>> \in asked
    <3>1. CASE i = Len(changes) + 1
      BY <2>1, <2>2, <3>1 DEF AskInv, AskedSoFar
    <3>2. CASE i # Len(changes) + 1
      <4>1. i \in DOMAIN changes
        BY <1>0, <2>1, <3>2
      <4>. QED BY <2>2, <4>1 DEF AskInv, EarlyRulesAreAsked
    <3>. QED BY <3>1, <3>2
  <2>3. EarlyRulesAreAsked'
    BY <2>1, <2>2 DEF EarlyRulesAreAsked
  <2>. QED BY <2>1, <2>3 DEF AskInv, AskedSoFar, Registered, InBuckets
<1>9. CASE TryOverride
  <2>1. /\ UNCHANGED <<exact, cross, early, plan, option, asked, pc>>
        /\ pc = "overlay" /\ DOMAIN changes' = DOMAIN changes
    BY <1>0, <1>9 DEF TryOverride, TypeOK
  <2>. QED BY <2>1 DEF AskInv, AskedSoFar, EarlyRulesAreAsked, Registered, InBuckets
<1>10. ASSUME NEW f \in Rule, Register(f) PROVE AskInv'
  <2>1. /\ UNCHANGED <<early, plan, option, changes, asked, pc, calls>>
        /\ \A type \in Type : /\ exact[type] \in Seq(Rule)
                              /\ exact'[type] = IF type \in f.types THEN AddOnce(f, exact[type])
                                                                    ELSE exact[type]
        /\ cross \in Seq(Rule)
        /\ cross' = IF AnyType \in f.types THEN AddOnce(f, cross) ELSE cross
    BY <1>10 DEF Register, TypeOK
  <2>2. /\ \A type \in Type : Elements(exact'[type]) =
              IF type \in f.types THEN Elements(exact[type]) \union {f}
                                  ELSE Elements(exact[type])
        /\ Elements(cross') = IF AnyType \in f.types THEN Elements(cross) \union {f}
                                                     ELSE Elements(cross)
    BY <2>1, AddOnceFacts
  <2>3. InBuckets(f)'
    BY <2>2 DEF InBuckets
  <2>4. \A g : InBuckets(g) => InBuckets(g)'
    BY <2>2 DEF InBuckets
  <2>5. \A g \in Registered' : g = f \/ g \in Registered
    <3>1. \A g \in Registered' : g \in Elements(cross') \/ \E type \in Type : g \in Elements(exact'[type])
      BY DEF Registered
    <3>2. \A g : g \in Elements(cross) \/ (\E type \in Type : g \in Elements(exact[type]))
                 => g \in Registered
      BY DEF Registered
    <3>. QED BY <2>2, <3>1, <3>2
  <2>. QED BY <2>1, <2>3, <2>4, <2>5 DEF AskInv, AskedSoFar, EarlyRulesAreAsked
<1>. QED BY <1>2, <1>3, <1>4, <1>5, <1>6, <1>7, <1>8, <1>9, <1>10 DEF Next

\* Every rule that was registered when the run began is asked about every change
\* of its type, whatever is registered during the run.
THEOREM EveryEarlyRuleIsAsked == Spec => []EarlyRulesAreAsked
<1>1. Init => AskInv
  BY DEF Init, AskInv, AskedSoFar, EarlyRulesAreAsked, Registered, Elements
<1>2. AskInv => EarlyRulesAreAsked
  BY DEF AskInv
<1>. QED BY <1>1, <1>2, AskStep, TypeCorrect, PTL DEF Spec
=============================================================================
