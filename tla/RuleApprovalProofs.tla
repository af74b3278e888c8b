------------------------- MODULE RuleApprovalProofs -------------------------
(***************************************************************************)
(* Proofs about RuleApproval, for any number of patterns, rule ids, loops, *)
(* approvers and loaders, any mapping of patterns to rule ids, and any     *)
(* bounds.  The inductive invariant says what a process may rely on        *)
(* between two of its steps.                                               *)
(***************************************************************************)
EXTENDS RuleApproval, TLAPS

USE DEF history

Publishing == {"file", "manifest", "undo"}

\* Exactly the holder of the lock is past Acquire.
LockInv == \A a \in Approver : appr[a].pc \in HeldPc <=> lock = a

\* What an approve call has read, and that the manifest it will extend is
\* still the one on disk.
CallInv(a) ==
    LET c == appr[a] IN
    /\ c.pc # "idle" => c.rid \in RuleId
    /\ c.pc \in HeldPc \ {"metadata"} => c.meta \in Metadata
    /\ c.pc \in Publishing \union {"txn"} => c.rule \in Pattern
    /\ c.pc \in Publishing => /\ c.man = manifest
                              /\ manifest[c.rid] = None
                              /\ catalog[c.meta.pattern] # <<>>
    /\ c.pc = "manifest" => approvedFile[c.rid] = c.rule
ApproverInv == \A a \in Approver : CallInv(a)

\* A loop reads back only files it has written.
LoopInv ==
    \A l \in Loop :
        LET c == loop[l]
            r == RuleIdOf[c.pat]
        IN
        /\ c.pc \notin {"idle", "rule"} => candRule[r] # None
        /\ c.pc \notin {"idle", "rule", "test"} => candTest[r] # None
        /\ c.pc \in {"hashTest", "meta"} => c.rule \in Pattern
        /\ c.pc = "meta" => c.test \in Pattern

\* A loader's snapshot of the manifest can only be outgrown, never refuted.
LoaderInv ==
    \A d \in Loader : \A r \in RuleId :
        /\ ldr[d].man[r] # None => manifest[r] = ldr[d].man[r]
        /\ r \in ldr[d].todo => ldr[d].man[r] # None

IInv ==
    /\ TypeOK /\ LockInv /\ ApproverInv /\ LoopInv /\ LoaderInv
    /\ PublishedFilesMatch /\ LoadedIsAllowed

-----------------------------------------------------------------------------
(* Catalog rows: changing the status of the last row keeps a sequence of   *)
(* rows.                                                                   *)

LEMMA LastRowUpdate ==
    ASSUME NEW s \in Seq(CatalogRow), s # <<>>, NEW st \in Status
    PROVE  [s EXCEPT ![Len(s)].status = st] \in Seq(CatalogRow)
<1>1. Len(s) \in 1..Len(s) /\ s[Len(s)] \in CatalogRow
  OBVIOUS
<1>2. [s[Len(s)] EXCEPT !.status = st] \in CatalogRow
  BY <1>1 DEF CatalogRow
<1>3. [s EXCEPT ![Len(s)].status = st]
        = [s EXCEPT ![Len(s)] = [s[Len(s)] EXCEPT !.status = st]]
  OBVIOUS
<1>4. QED
  BY <1>1, <1>2, <1>3

\* A call that has returned, or has just been made, is a well-formed call.
LEMMA IdleIsState ==
    ASSUME NEW o \in {"none", "published", "conflict", "rejected", "failed", "died"}
    PROVE  ApprIdle(o) \in ApproverState
BY DEF ApprIdle, CallAt, ApproverState, Bytes

LEMMA CallIsState ==
    ASSUME NEW r \in RuleId
    PROVE  CallAt("lock", r, "none") \in ApproverState
BY DEF CallAt, ApproverState, Bytes

LEMMA DecisionType ==
    ASSUME NEW x \in Score \union {0}
    PROVE  EvolveDecision(x) \in {"pr-ready", "disabled"}
BY DEF EvolveDecision

-----------------------------------------------------------------------------
(* The inductive invariant                                                 *)

LEMMA InitIInv == Init => IInv
<1> SUFFICES ASSUME Init PROVE IInv
  OBVIOUS
<1> USE RuleIdOfAssumption, NoneAssumption
        DEF Init, LoopIdle, LoopAt, ApprIdle, CallAt
<1>1. TypeOK
  BY DEF TypeOK, CatalogRow, Status, Bytes, Manifest, LoopPc, HeldPc, LoopState,
         ApproverState, LoaderState, Budget
<1>2. LockInv /\ ApproverInv /\ LoopInv
  BY DEF LockInv, ApproverInv, CallInv, LoopInv, HeldPc, Publishing
<1>3. LoaderInv /\ PublishedFilesMatch /\ LoadedIsAllowed
  BY DEF LoaderInv, PublishedFilesMatch, LoadedIsAllowed
<1>4. QED
  BY <1>1, <1>2, <1>3 DEF IInv

\* Steps of the evolution loop touch neither the approvers' nor the loaders'
\* state: they disturb the types and the loops' own facts only.
LEMMA LoopStepIInv ==
    ASSUME IInv, NEW l \in Loop, BeginCandidate(l) \/ LoopStep(l) \/ LoopFails(l)
    PROVE  IInv'
<1> USE RuleIdOfAssumption, NoneAssumption
<1>1. TypeOK /\ LoopInv
  BY DEF IInv
<1>2. loop \in [Loop -> LoopState]
  BY <1>1 DEF TypeOK
<1>3. TypeOK' /\ LoopInv'
  <2>1. CASE BeginCandidate(l)
    <3>1. loop[l] \in LoopState /\ (loop[l].pc # "idle" => loop[l].pat \in Pattern)
      BY <1>1 DEF TypeOK
    <3>2. spent' \in Budget
      <4>1. spent \in Budget
        BY <1>1 DEF TypeOK
      <4>2. QED BY <4>1, <2>1 DEF BeginCandidate, Budget
    <3>3. /\ loop' \in [Loop -> LoopState]
          /\ \A m \in Loop \ {l} : loop'[m] = loop[m]
          /\ loop'[l].pc # "idle" => loop'[l].pat \in Pattern
      BY <1>2, <2>1, <3>1, <3>2 DEF BeginCandidate, LoopState, LoopPc, LoopAt, LoopIdle, Bytes
    <3>4. TypeOK'
      BY <1>1, <2>1, <3>2, <3>3 DEF BeginCandidate, TypeOK, dbVars, candVars, storeVars
    <3>5. LoopInv'
      BY <1>1, <1>2, <2>1, <3>2, <3>3 DEF BeginCandidate, LoopInv, TypeOK, LoopState, LoopAt, LoopIdle, dbVars, candVars, storeVars
    <3>6. QED BY <3>4, <3>5
  <2>2. CASE WriteRule(l)
    <3>1. loop[l] \in LoopState /\ (loop[l].pc # "idle" => loop[l].pat \in Pattern)
      BY <1>1 DEF TypeOK
    <3>2. candRule' \in [RuleId -> Bytes]
      BY <1>1, <2>2, <3>1 DEF WriteRule, Bytes, TypeOK
    <3>3. /\ loop' \in [Loop -> LoopState]
          /\ \A m \in Loop \ {l} : loop'[m] = loop[m]
          /\ loop'[l].pc # "idle" => loop'[l].pat \in Pattern
      BY <1>2, <2>2, <3>1, <3>2 DEF WriteRule, LoopState, LoopPc, LoopAt, LoopIdle, Bytes
    <3>hist. alone' \subseteq Loop /\ whole' \subseteq Pattern
      BY <1>1, <2>2, <3>1 DEF WriteRule, TypeOK, OthersAlone, OthersWhole
    <3>4. TypeOK'
      BY <1>1, <2>2, <3>2, <3>3, <3>hist DEF WriteRule, TypeOK, dbVars, candVars, storeVars
    <3>5. LoopInv'
      BY <1>1, <1>2, <2>2, <3>2, <3>3 DEF WriteRule, LoopInv, TypeOK, LoopState, LoopAt, LoopIdle, dbVars, candVars, storeVars
    <3>6. QED BY <3>4, <3>5
  <2>3. CASE WriteTest(l)
    <3>1. loop[l] \in LoopState /\ (loop[l].pc # "idle" => loop[l].pat \in Pattern)
      BY <1>1 DEF TypeOK
    <3>2. candTest' \in [RuleId -> Bytes]
      BY <1>1, <2>3, <3>1 DEF WriteTest, Bytes, TypeOK
    <3>3. /\ loop' \in [Loop -> LoopState]
          /\ \A m \in Loop \ {l} : loop'[m] = loop[m]
          /\ loop'[l].pc # "idle" => loop'[l].pat \in Pattern
      BY <1>2, <2>3, <3>1, <3>2 DEF WriteTest, LoopState, LoopPc, LoopAt, LoopIdle, Bytes
    <3>hist. alone' \subseteq Loop /\ whole' \subseteq Pattern
      BY <1>1, <2>3, <3>1 DEF WriteTest, TypeOK, OthersAlone, OthersWhole
    <3>4. TypeOK'
      BY <1>1, <2>3, <3>2, <3>3, <3>hist DEF WriteTest, TypeOK, dbVars, candVars, storeVars
    <3>5. LoopInv'
      BY <1>1, <1>2, <2>3, <3>2, <3>3 DEF WriteTest, LoopInv, TypeOK, LoopState, LoopAt, LoopIdle, dbVars, candVars, storeVars
    <3>6. QED BY <3>4, <3>5
  <2>4. CASE Verify(l)
    <3>1. loop[l] \in LoopState /\ (loop[l].pc # "idle" => loop[l].pat \in Pattern)
      BY <1>1 DEF TypeOK
    <3>2. validated' \subseteq RuleId \X Pattern
      <4>1. candRule[RuleIdOf[loop[l].pat]] \in Pattern /\ RuleIdOf[loop[l].pat] \in RuleId
        BY <1>1, <2>4, <3>1 DEF Verify, LoopInv, TypeOK, Bytes
      <4>2. QED BY <1>1, <2>4, <4>1 DEF Verify, TypeOK
    <3>3. /\ loop' \in [Loop -> LoopState]
          /\ \A m \in Loop \ {l} : loop'[m] = loop[m]
          /\ loop'[l].pc # "idle" => loop'[l].pat \in Pattern
      BY <1>2, <2>4, <3>1, <3>2 DEF Verify, LoopState, LoopPc, LoopAt, LoopIdle, Bytes
    <3>4. TypeOK'
      BY <1>1, <2>4, <3>2, <3>3 DEF Verify, TypeOK, dbVars, candVars, storeVars
    <3>5. LoopInv'
      <4>1. loop'[l].pc = "save" /\ loop'[l].pat = loop[l].pat
        BY <1>2, <2>4, <3>1 DEF Verify, LoopState
      <4>2. QED BY <4>1, <1>1, <1>2, <2>4, <3>2, <3>3 DEF Verify, LoopInv, TypeOK, LoopState, LoopAt, LoopIdle, dbVars, candVars, storeVars
    <3>6. QED BY <3>4, <3>5
  <2>5. CASE SaveEvolvedRule(l)
    <3>1. loop[l] \in LoopState /\ (loop[l].pc # "idle" => loop[l].pat \in Pattern)
      BY <1>1 DEF TypeOK
    <3>2. row' \in [Pattern -> CatalogRow] /\ catalog' \in [Pattern -> Seq(CatalogRow)]
      <4>1. loop[l].pat \in Pattern /\ loop[l].score \in Score \union {0}
        BY <2>5, <3>1 DEF SaveEvolvedRule, LoopState
      <4>2. [status |-> EvolveDecision(loop[l].score), score |-> loop[l].score] \in CatalogRow
        BY <4>1 DEF EvolveDecision, CatalogRow, Status
      <4>3. row \in [Pattern -> CatalogRow] /\ catalog \in [Pattern -> Seq(CatalogRow)]
        BY <1>1 DEF TypeOK
      <4>4. QED BY <2>5, <4>1, <4>2, <4>3 DEF SaveEvolvedRule
    <3>3. /\ loop' \in [Loop -> LoopState]
          /\ \A m \in Loop \ {l} : loop'[m] = loop[m]
          /\ loop'[l].pc # "idle" => loop'[l].pat \in Pattern
      BY <1>2, <2>5, <3>1, <3>2 DEF SaveEvolvedRule, LoopState, LoopPc, LoopAt, LoopIdle, Bytes
    <3>hist. alone' \subseteq Loop /\ whole' \subseteq Pattern
      BY <1>1, <2>5, <3>1 DEF SaveEvolvedRule, TypeOK, OthersAlone, OthersWhole
    <3>4. TypeOK'
      BY <1>1, <2>5, <3>2, <3>3, <3>hist DEF SaveEvolvedRule, TypeOK, dbVars, candVars, storeVars
    <3>5. LoopInv'
      BY <1>1, <1>2, <2>5, <3>2, <3>3 DEF SaveEvolvedRule, LoopInv, TypeOK, LoopState, LoopAt, LoopIdle, dbVars, candVars, storeVars
    <3>6. QED BY <3>4, <3>5
  <2>6. CASE HashRule(l)
    <3>1. loop[l] \in LoopState /\ (loop[l].pc # "idle" => loop[l].pat \in Pattern)
      BY <1>1 DEF TypeOK
    <3>2. candRule[RuleIdOf[loop[l].pat]] \in Pattern
      BY <1>1, <2>6, <3>1 DEF HashRule, LoopInv, Bytes, TypeOK
    <3>3. /\ loop' \in [Loop -> LoopState]
          /\ \A m \in Loop \ {l} : loop'[m] = loop[m]
          /\ loop'[l].pc # "idle" => loop'[l].pat \in Pattern
      BY <1>2, <2>6, <3>1, <3>2 DEF HashRule, LoopState, LoopPc, LoopAt, LoopIdle, Bytes
    <3>hist. alone' \subseteq Loop /\ whole' \subseteq Pattern
      BY <1>1, <2>6, <3>1 DEF HashRule, TypeOK
    <3>rest. UNCHANGED <<dbVars, candVars, lock, storeVars, appr, ldr, validated, spent>>
      BY <2>6 DEF HashRule
    <3>4. TypeOK'
      BY <1>1, <3>3, <3>hist, <3>rest DEF TypeOK, dbVars, candVars, storeVars
    <3>5. LoopInv'
      <4>1. /\ loop[l].pc = "hashRule" /\ loop'[l].pc = "hashTest" /\ loop'[l].pat = loop[l].pat
            /\ loop'[l].rule = candRule[RuleIdOf[loop[l].pat]]
            /\ candRule' = candRule /\ candTest' = candTest
        BY <1>2, <2>6, <3>1 DEF HashRule, LoopState, candVars
      <4>2. \A m \in Loop \ {l} : loop'[m] = loop[m]
        BY <3>3
      <4> QED BY <1>1, <3>2, <4>1, <4>2 DEF LoopInv
    <3>6. QED BY <3>4, <3>5
  <2>7. CASE HashTest(l)
    <3>1. loop[l] \in LoopState /\ (loop[l].pc # "idle" => loop[l].pat \in Pattern)
      BY <1>1 DEF TypeOK
    <3>2. candTest[RuleIdOf[loop[l].pat]] \in Pattern
      BY <1>1, <2>7, <3>1 DEF HashTest, LoopInv, Bytes, TypeOK
    <3>3. /\ loop' \in [Loop -> LoopState]
          /\ \A m \in Loop \ {l} : loop'[m] = loop[m]
          /\ loop'[l].pc # "idle" => loop'[l].pat \in Pattern
      BY <1>2, <2>7, <3>1, <3>2 DEF HashTest, LoopState, LoopPc, LoopAt, LoopIdle, Bytes
    <3>4. TypeOK'
      BY <1>1, <2>7, <3>2, <3>3 DEF HashTest, TypeOK, dbVars, candVars, storeVars
    <3>5. LoopInv'
      <4>1. /\ loop[l].pc = "hashTest" /\ loop'[l].pc = "meta" /\ loop'[l].pat = loop[l].pat
            /\ loop'[l].rule = loop[l].rule /\ loop'[l].test = candTest[RuleIdOf[loop[l].pat]]
            /\ candRule' = candRule /\ candTest' = candTest
        BY <1>2, <2>7, <3>1 DEF HashTest, LoopState, candVars
      <4>2. \A m \in Loop \ {l} : loop'[m] = loop[m]
        BY <3>3
      <4> QED BY <1>1, <3>2, <4>1, <4>2 DEF LoopInv
    <3>6. QED BY <3>4, <3>5
  <2>8. CASE WriteMetadata(l)
    <3>1. loop[l] \in LoopState /\ (loop[l].pc # "idle" => loop[l].pat \in Pattern)
      BY <1>1 DEF TypeOK
    <3>2. candMeta' \in [RuleId -> Metadata \union {None}]
      BY <1>1, <2>8, <3>1 DEF WriteMetadata, Metadata, LoopInv, LoopState, EvolveDecision, TypeOK
    <3>3. /\ loop' \in [Loop -> LoopState]
          /\ \A m \in Loop \ {l} : loop'[m] = loop[m]
          /\ loop'[l].pc # "idle" => loop'[l].pat \in Pattern
      BY <1>2, <2>8, <3>1, <3>2 DEF WriteMetadata, LoopState, LoopPc, LoopAt, LoopIdle, Bytes
    <3>hist. alone' \subseteq Loop /\ whole' \subseteq Pattern
      BY <1>1, <2>8, <3>1 DEF WriteMetadata, TypeOK, OthersAlone, OthersWhole
    <3>4. TypeOK'
      BY <1>1, <2>8, <3>2, <3>3, <3>hist DEF WriteMetadata, TypeOK, dbVars, candVars, storeVars
    <3>5. LoopInv'
      BY <1>1, <1>2, <2>8, <3>2, <3>3 DEF WriteMetadata, LoopInv, TypeOK, LoopState, LoopAt, LoopIdle, dbVars, candVars, storeVars
    <3>6. QED BY <3>4, <3>5
  <2>9. CASE LoopFails(l)
    <3>1. loop[l] \in LoopState /\ (loop[l].pc # "idle" => loop[l].pat \in Pattern)
      BY <1>1 DEF TypeOK
    <3>2. spent' \in Budget
      <4>1. spent \in Budget
        BY <1>1 DEF TypeOK
      <4>2. QED BY <4>1, <2>9 DEF LoopFails, Budget
    <3>3. /\ loop' \in [Loop -> LoopState]
          /\ \A m \in Loop \ {l} : loop'[m] = loop[m]
          /\ loop'[l].pc # "idle" => loop'[l].pat \in Pattern
      BY <1>2, <2>9, <3>1, <3>2 DEF LoopFails, LoopState, LoopPc, LoopAt, LoopIdle, Bytes
    <3>4. TypeOK'
      BY <1>1, <2>9, <3>2, <3>3 DEF LoopFails, TypeOK, dbVars, candVars, storeVars
    <3>5. LoopInv'
      BY <1>1, <1>2, <2>9, <3>2, <3>3 DEF LoopFails, LoopInv, TypeOK, LoopState, LoopAt, LoopIdle, dbVars, candVars, storeVars
    <3>6. QED BY <3>4, <3>5
  <2>10. QED
    BY <2>1, <2>2, <2>3, <2>4, <2>5, <2>6, <2>7, <2>8, <2>9 DEF LoopStep
<1>4. /\ UNCHANGED <<lock, storeVars, appr, ldr>>
      /\ \A p \in Pattern : catalog[p] # <<>> => catalog'[p] # <<>>
  <2>1. CASE SaveEvolvedRule(l)
    <3>1. loop[l].pat \in Pattern /\ catalog \in [Pattern -> Seq(CatalogRow)]
      BY <1>1, <2>1 DEF SaveEvolvedRule, TypeOK
    <3>2. \A p \in Pattern \ {loop[l].pat} : catalog'[p] = catalog[p]
      BY <2>1, <3>1 DEF SaveEvolvedRule
    <3>3. catalog'[loop[l].pat] # <<>>
      <4> DEFINE old == catalog[loop[l].pat]
                 saved == [status |-> EvolveDecision(loop[l].score),
                           score |-> loop[l].score]
      <4>1. catalog'[loop[l].pat] = Append(old, saved)
        BY <2>1, <3>1 DEF SaveEvolvedRule
      <4>2. old \in Seq(CatalogRow)
        BY <3>1
      <4> HIDE DEF old, saved
      <4>3. Append(old, saved) # <<>>
        BY <4>2
      <4>4. QED BY <4>1, <4>3
    <3>4. QED BY <2>1, <3>1, <3>2, <3>3 DEF SaveEvolvedRule
  <2>2. CASE ~SaveEvolvedRule(l)
    BY <2>2 DEF BeginCandidate, LoopStep, LoopFails, WriteRule, WriteTest, Verify,
                HashRule, HashTest, WriteMetadata, dbVars
  <2>3. QED BY <2>1, <2>2
<1>5. LockInv' /\ LoaderInv' /\ PublishedFilesMatch' /\ LoadedIsAllowed'
  BY <1>4 DEF IInv, LockInv, LoaderInv, PublishedFilesMatch, LoadedIsAllowed, storeVars
<1>6. ApproverInv'
  <2>1. \A a \in Approver : appr[a].pc \in Publishing => appr[a].meta \in Metadata
    BY DEF IInv, ApproverInv, CallInv, Publishing, HeldPc
  <2>2. QED BY <1>4, <2>1 DEF IInv, ApproverInv, CallInv, storeVars, Metadata
<1>7. QED
  BY <1>3, <1>5, <1>6 DEF IInv

\* Of the approvers' steps only the two writes change what is published.
LEMMA ApproverQuietStepIInv ==
    ASSUME IInv, NEW a \in Approver,
           \/ Request(a) \/ Acquire(a) \/ ReadMetadata(a) \/ ReadRule(a)
           \/ ReadTest(a) \/ TxnAlreadyPublished(a) \/ TxnTransition(a)
           \/ TxnRepair(a) \/ TxnRefuse(a) \/ WriteFails(a) \/ Compensate(a)
           \/ ApproverDies(a)
    PROVE  IInv'
<1> USE RuleIdOfAssumption, NoneAssumption
<1>1. TypeOK /\ LockInv /\ ApproverInv
  BY DEF IInv
<1>2. /\ appr \in [Approver -> ApproverState] /\ appr[a] \in ApproverState
      /\ manifest \in Manifest /\ spent \in Budget
      /\ row \in [Pattern -> CatalogRow] /\ catalog \in [Pattern -> Seq(CatalogRow)]
  BY <1>1 DEF TypeOK
<1>3. UNCHANGED <<candVars, storeVars, loop, ldr, history>>
  BY DEF Request, Acquire, ReadMetadata, ReadRule, ReadTest, TxnAlreadyPublished,
         TxnTransition, TxnRepair, TxnRefuse, WriteFails, Compensate, ApproverDies
<1>4. LoopInv' /\ LoaderInv' /\ PublishedFilesMatch' /\ LoadedIsAllowed'
  BY <1>3 DEF IInv, LoopInv, LoaderInv, PublishedFilesMatch, LoadedIsAllowed,
              candVars, storeVars
<1>5. appr[a].pc \in Publishing \union {"rule", "test", "txn"} => appr[a].meta.pattern \in Pattern
  <2>1. appr[a].pc \in Publishing \union {"rule", "test", "txn"} => appr[a].meta \in Metadata
    BY <1>1 DEF ApproverInv, CallInv, HeldPc, Publishing
  <2>2. QED BY <2>1 DEF Metadata
\* The database: the rows keep their types and no pattern loses its rows.
<1>6. /\ row' \in [Pattern -> CatalogRow] /\ catalog' \in [Pattern -> Seq(CatalogRow)]
      /\ \A p \in Pattern : catalog[p] # <<>> => catalog'[p] # <<>>
  <2>1. CASE TxnTransition(a) \/ Compensate(a)
    <3> DEFINE p == appr[a].meta.pattern
    <3>1. p \in Pattern /\ catalog[p] \in Seq(CatalogRow) /\ catalog[p] # <<>>
          /\ row[p] \in CatalogRow
      <4>1. p \in Pattern
        BY <1>5, <2>1 DEF TxnTransition, Compensate, Publishing
      <4>2. catalog[p] # <<>>
        BY <1>1, <2>1 DEF TxnTransition, Compensate, RowsAre, ApproverInv, CallInv, Publishing
      <4>3. QED BY <1>2, <4>1, <4>2
    <3>2. PICK st \in {"approved", "pr-ready"} :
            /\ row' \in {row, [row EXCEPT ![p].status = st]}
            /\ catalog' \in {catalog,
                  [catalog EXCEPT ![p] = [catalog[p] EXCEPT ![Len(catalog[p])].status = st]]}
      BY <2>1, <3>1, <1>2 DEF TxnTransition, Compensate, SetRows
    <3>3. [row EXCEPT ![p].status = st] \in [Pattern -> CatalogRow]
      BY <1>2, <3>1 DEF CatalogRow, Status
    <3>4. [catalog[p] EXCEPT ![Len(catalog[p])].status = st] \in Seq(CatalogRow)
      BY <3>1, LastRowUpdate DEF Status
    <3>5. [catalog[p] EXCEPT ![Len(catalog[p])].status = st] # <<>>
      <4>1. Len([catalog[p] EXCEPT ![Len(catalog[p])].status = st]) = Len(catalog[p])
        BY <3>1
      <4>2. Len(catalog[p]) # 0
        BY <3>1
      <4>3. QED BY <4>1, <4>2
    <3>6. row' \in [Pattern -> CatalogRow]
      BY <1>2, <3>2, <3>3
    <3> DEFINE rows == [catalog[p] EXCEPT ![Len(catalog[p])].status = st]
    <3>7. /\ rows \in Seq(CatalogRow) /\ rows # <<>>
          /\ catalog' \in {catalog, [catalog EXCEPT ![p] = rows]}
      BY <3>2, <3>4, <3>5
    <3> HIDE DEF rows
    <3> HIDE DEF p
    <3>8. catalog' \in [Pattern -> Seq(CatalogRow)]
      BY <1>2, <3>1, <3>7
    <3>9. ASSUME NEW q \in Pattern, catalog[q] # <<>> PROVE catalog'[q] # <<>>
      <4>1. catalog'[q] \in {catalog[q], rows}
        BY <1>2, <3>1, <3>7
      <4>2. QED BY <3>7, <3>9, <4>1
    <3>10. QED BY <3>6, <3>8, <3>9
  <2>2. CASE ~(TxnTransition(a) \/ Compensate(a))
    <3>1. UNCHANGED <<row, catalog>>
      BY <2>2 DEF Request, Acquire, ReadMetadata, ReadRule, ReadTest,
         TxnAlreadyPublished, TxnRepair, TxnRefuse, WriteFails, ApproverDies, dbVars
    <3>2. QED BY <1>2, <3>1
  <2>3. QED BY <2>1, <2>2
<1>7. spent' \in Budget
  <2>1. CASE UNCHANGED spent
    BY <1>2, <2>1
  <2>2. CASE Request(a) \/ WriteFails(a) \/ ApproverDies(a)
    <3>1. \/ spent' = [spent EXCEPT !.calls = @ + 1]
          \/ spent' = [spent EXCEPT !.writeFaults = @ + 1]
          \/ spent' = [spent EXCEPT !.deaths = @ + 1]
      BY <2>2 DEF Request, WriteFails, ApproverDies
    <3>2. spent \in Budget
      BY <1>2
    <3>3. QED BY <3>1, <3>2 DEF Budget
  <2>3. QED
    BY <2>1, <2>2 DEF Acquire, ReadMetadata, ReadRule, ReadTest, TxnAlreadyPublished,
         TxnTransition, TxnRepair, TxnRefuse, Compensate
\* The call that moves, and what it has read.
<1>8. /\ appr' = [appr EXCEPT ![a] = appr'[a]]
      /\ appr'[a] \in ApproverState
      /\ lock' \in {lock, a, None} /\ (lock \notin {a, None} => lock' = lock)
      /\ appr'[a].pc \in HeldPc <=> lock' = a
      /\ CallInv(a)'
  <2>1. ASSUME NEW o \in {"none", "published", "conflict", "rejected", "failed", "died"},
               appr' = [appr EXCEPT ![a] = ApprIdle(o)],
               lock' = IF lock = a THEN None ELSE lock
        PROVE  /\ appr' = [appr EXCEPT ![a] = appr'[a]]
               /\ appr'[a] \in ApproverState
               /\ lock' \in {lock, a, None} /\ (lock \notin {a, None} => lock' = lock)
               /\ appr'[a].pc \in HeldPc <=> lock' = a
               /\ CallInv(a)'
    <3>1. ApprIdle(o) \in ApproverState
      BY IdleIsState
    <3>2. appr'[a] = ApprIdle(o)
      BY <1>2, <2>1
    <3>3. ApprIdle(o).pc = "idle"
      BY DEF ApprIdle, CallAt
    <3>4. CallInv(a)'
      BY <3>2, <3>3 DEF CallInv, HeldPc, Publishing
    <3>5. QED BY <1>2, <2>1, <3>1, <3>2, <3>3, <3>4 DEF HeldPc
  <2>2. appr[a].pc \in HeldPc => lock = a
    BY <1>1 DEF LockInv
  <2> DEFINE Intact == /\ appr[a].rule = appr[a].meta.rule
                       /\ candTest[appr[a].rid] = appr[a].meta.test
  <2>3. CASE Request(a)
    <3>1. PICK r \in RuleId : appr' = [appr EXCEPT ![a] = CallAt("lock", r, "none")]
      BY <2>3 DEF Request
    <3>2. appr'[a] = CallAt("lock", r, "none") /\ appr'[a] \in ApproverState
      BY <1>2, <3>1, CallIsState
    <3>3. appr'[a].pc = "lock" /\ appr'[a].rid = r
      BY <3>2 DEF CallAt
    <3>4. CallInv(a)'
      BY <3>3 DEF CallInv, HeldPc, Publishing
    <3>5. QED BY <1>1, <2>3, <3>1, <3>2, <3>3, <3>4 DEF Request, LockInv, HeldPc
  <2>4. CASE Acquire(a)
    <3>1. /\ appr' = [appr EXCEPT ![a] = appr'[a]]
          /\ appr'[a] = [appr[a] EXCEPT !.pc = "metadata"]
      BY <1>2, <2>4 DEF Acquire
    <3>2. appr'[a] \in ApproverState
      BY <1>2, <2>4, <3>1 DEF Acquire, ApproverState, HeldPc, Bytes
    <3>3. CallInv(a)'
      BY <1>1, <1>2, <1>3, <2>4, <3>1 DEF Acquire, ApproverInv, CallInv, HeldPc, Publishing, ApproverState, storeVars
    <3>4. QED BY <1>1, <1>2, <2>2, <2>4, <3>1, <3>2, <3>3 DEF Acquire, LockInv, HeldPc, ApproverState
  <2>5. CASE ReadMetadata(a) /\ Eligible(candMeta[appr[a].rid])
    <3>1. candMeta[appr[a].rid] \in Metadata
      BY <1>1, <2>5 DEF ReadMetadata, ApproverInv, CallInv, TypeOK, Eligible
    <3>2. /\ appr' = [appr EXCEPT ![a] = appr'[a]]
          /\ appr'[a] = [appr[a] EXCEPT !.pc = "rule", !.meta = candMeta[appr[a].rid]]
      BY <1>2, <2>5 DEF ReadMetadata
    <3>3. appr'[a] \in ApproverState
      BY <1>2, <2>5, <3>1, <3>2 DEF ReadMetadata, ApproverState, HeldPc, Bytes
    <3>4. CallInv(a)'
      BY <1>1, <1>2, <1>3, <2>5, <3>1, <3>2 DEF ReadMetadata, ApproverInv, CallInv, HeldPc, Publishing, ApproverState, storeVars
    <3>5. QED BY <1>1, <1>2, <2>2, <2>5, <3>2, <3>3, <3>4 DEF ReadMetadata, LockInv, HeldPc, ApproverState
  <2>6. CASE ReadMetadata(a) /\ ~Eligible(candMeta[appr[a].rid])
    BY <2>1, <2>2, <2>6 DEF ReadMetadata, Return, HeldPc
  <2>7. CASE ReadRule(a)
    <3>1. candRule[appr[a].rid] \in Bytes
      BY <1>1, <2>7 DEF ReadRule, ApproverInv, CallInv, TypeOK
    <3>2. /\ appr' = [appr EXCEPT ![a] = appr'[a]]
          /\ appr'[a] = [appr[a] EXCEPT !.pc = "test", !.rule = candRule[appr[a].rid]]
      BY <1>2, <2>7 DEF ReadRule
    <3>3. appr'[a] \in ApproverState
      BY <1>2, <2>7, <3>1, <3>2 DEF ReadRule, ApproverState, HeldPc, Bytes
    <3>4. CallInv(a)'
      BY <1>1, <1>2, <1>3, <2>7, <3>1, <3>2 DEF ReadRule, ApproverInv, CallInv, HeldPc, Publishing, ApproverState, storeVars
    <3>5. QED BY <1>1, <1>2, <2>2, <2>7, <3>2, <3>3, <3>4 DEF ReadRule, LockInv, HeldPc, ApproverState
  <2>8. CASE ReadTest(a) /\ Intact
    <3>1. appr[a].rule \in Pattern
      BY <1>1, <2>8 DEF ReadTest, ApproverInv, CallInv, HeldPc, Metadata
    <3>2. /\ appr' = [appr EXCEPT ![a] = appr'[a]]
          /\ appr'[a] = [appr[a] EXCEPT !.pc = "txn"]
      BY <1>2, <2>8 DEF ReadTest
    <3>3. appr'[a] \in ApproverState
      BY <1>2, <2>8, <3>1, <3>2 DEF ReadTest, ApproverState, HeldPc, Bytes
    <3>4. CallInv(a)'
      BY <1>1, <1>2, <1>3, <2>8, <3>1, <3>2 DEF ReadTest, ApproverInv, CallInv, HeldPc, Publishing, ApproverState, storeVars
    <3>5. QED BY <1>1, <1>2, <2>2, <2>8, <3>2, <3>3, <3>4 DEF ReadTest, LockInv, HeldPc, ApproverState
  <2>9. CASE ReadTest(a) /\ ~Intact
    BY <2>1, <2>2, <2>9 DEF ReadTest, Return, HeldPc
  <2>10. CASE TxnAlreadyPublished(a)
    BY <2>1, <2>2, <2>10 DEF TxnAlreadyPublished, Return, HeldPc
  <2>11. CASE TxnTransition(a)
    <3>1. catalog'[appr[a].meta.pattern] # <<>>
      BY <1>1, <1>5, <1>6, <2>11 DEF Publishing, TxnTransition, RowsAre
    <3>2. /\ appr' = [appr EXCEPT ![a] = appr'[a]]
          /\ appr'[a] = [appr[a] EXCEPT !.pc = "file", !.mine = TRUE, !.man = manifest]
      BY <1>2, <2>11 DEF TxnTransition
    <3>3. appr'[a] \in ApproverState
      <4>1. appr'[a] = [pc |-> "file", rid |-> appr[a].rid, meta |-> appr[a].meta,
                         rule |-> appr[a].rule, man |-> manifest,
                         mine |-> TRUE, outcome |-> appr[a].outcome]
        BY <1>2, <3>2 DEF ApproverState
      <4>2. QED BY <1>2, <4>1 DEF ApproverState, HeldPc
    <3>4. CallInv(a)'
      BY ZenonT(60), <1>1, <1>2, <1>3, <2>11, <3>1, <3>2 DEF TxnTransition, ApproverInv, CallInv, HeldPc, Publishing, ApproverState, storeVars
    <3>5. QED BY <1>1, <1>2, <2>2, <2>11, <3>2, <3>3, <3>4 DEF TxnTransition, LockInv, HeldPc, ApproverState
  <2>12. CASE TxnRepair(a)
    <3>1. catalog'[appr[a].meta.pattern] # <<>>
      BY <1>1, <1>5, <1>6, <2>12 DEF Publishing, TxnRepair, RowsAre
    <3>2. /\ appr' = [appr EXCEPT ![a] = appr'[a]]
          /\ appr'[a] = [appr[a] EXCEPT !.pc = "file", !.man = manifest]
      BY <1>2, <2>12 DEF TxnRepair
    <3>3. appr'[a] \in ApproverState
      <4>1. appr'[a] = [pc |-> "file", rid |-> appr[a].rid, meta |-> appr[a].meta,
                         rule |-> appr[a].rule, man |-> manifest,
                         mine |-> appr[a].mine, outcome |-> appr[a].outcome]
        BY <1>2, <3>2 DEF ApproverState
      <4>2. QED BY <1>2, <4>1 DEF ApproverState, HeldPc
    <3>4. CallInv(a)'
      BY <1>1, <1>2, <1>3, <2>12, <3>1, <3>2 DEF TxnRepair, ApproverInv, CallInv, HeldPc, Publishing, ApproverState, storeVars
    <3>5. QED BY <1>1, <1>2, <2>2, <2>12, <3>2, <3>3, <3>4 DEF TxnRepair, LockInv, HeldPc, ApproverState
  <2>13. CASE TxnRefuse(a)
    BY <2>1, <2>2, <2>13 DEF TxnRefuse, Return, HeldPc
  <2>14. CASE WriteFails(a) /\ appr[a].mine
    <3>1. catalog'[appr[a].meta.pattern] # <<>>
      BY <1>1, <1>5, <1>6, <2>14 DEF Publishing, WriteFails, ApproverInv, CallInv
    <3>2. /\ appr' = [appr EXCEPT ![a] = appr'[a]]
          /\ appr'[a] = [appr[a] EXCEPT !.pc = "undo"]
      BY <1>2, <2>14 DEF WriteFails
    <3>3. appr'[a] \in ApproverState
      BY <1>2, <2>14, <3>1, <3>2 DEF WriteFails, ApproverState, HeldPc, Bytes
    <3>4. CallInv(a)'
      BY <1>1, <1>2, <1>3, <2>14, <3>1, <3>2 DEF WriteFails, ApproverInv, CallInv, HeldPc, Publishing, ApproverState, storeVars
    <3>5. QED BY <1>1, <1>2, <2>2, <2>14, <3>2, <3>3, <3>4 DEF WriteFails, LockInv, HeldPc, ApproverState
  <2>15. CASE WriteFails(a) /\ ~appr[a].mine
    BY <2>1, <2>2, <2>15 DEF WriteFails, Return, HeldPc
  <2>16. CASE Compensate(a)
    BY <2>1, <2>2, <2>16 DEF Compensate, Return, HeldPc
  <2>17. CASE ApproverDies(a)
    BY <2>1, <2>2, <2>17 DEF ApproverDies, Return, HeldPc
  <2>18. QED
    BY <2>3, <2>4, <2>5, <2>6, <2>7, <2>8, <2>9, <2>10, <2>11, <2>12, <2>13, <2>14, <2>15, <2>16, <2>17 DEF ReadMetadata
<1>9. TypeOK'
  BY <1>1, <1>2, <1>3, <1>6, <1>7, <1>8 DEF TypeOK, candVars, storeVars
<1>10. LockInv'
  BY <1>1, <1>2, <1>8 DEF LockInv
\* Another call that is publishing holds the lock: then this one does not.
<1>11. ApproverInv'
  <2>1. ASSUME NEW b \in Approver, b # a PROVE CallInv(b)'
    <3>1. appr'[b] = appr[b]
      BY <1>2, <1>8, <2>1
    <3>2. appr[b].pc \in Publishing => appr[b].meta.pattern \in Pattern
      <4>1. appr[b].pc \in Publishing => appr[b].meta \in Metadata
        BY <1>1, <2>1 DEF ApproverInv, CallInv, HeldPc, Publishing
      <4>2. QED BY <4>1 DEF Metadata
    <3>3. QED BY <1>1, <1>3, <1>6, <2>1, <3>1, <3>2 DEF ApproverInv, CallInv, storeVars
  <2>2. QED BY <1>8, <2>1 DEF ApproverInv
<1>12. QED
  BY <1>4, <1>9, <1>10, <1>11 DEF IInv

\* The two writes: the lock keeps every other call away from the store, and
\* the record that is added replaces none.
LEMMA ApproverWriteStepIInv ==
    ASSUME IInv, NEW a \in Approver, WriteApprovedFile(a) \/ WriteManifest(a)
    PROVE  /\ IInv'
           /\ \A r \in RuleId : manifest[r] # None => manifest'[r] = manifest[r]
<1> USE RuleIdOfAssumption, NoneAssumption
<1>1. TypeOK /\ LockInv /\ ApproverInv
  BY DEF IInv
<1>2. /\ appr \in [Approver -> ApproverState] /\ appr[a] \in ApproverState
      /\ manifest \in Manifest /\ approvedFile \in [RuleId -> Bytes]
  BY <1>1 DEF TypeOK
<1>3. UNCHANGED <<dbVars, candVars, loop, ldr, history, spent>>
  BY DEF WriteApprovedFile, WriteManifest
<1>4. /\ appr[a].pc \in Publishing /\ lock = a
      /\ appr[a].rid \in RuleId /\ appr[a].rule \in Pattern
      /\ appr[a].meta \in Metadata /\ appr[a].man = manifest
      /\ manifest[appr[a].rid] = None
      /\ appr[a].pc = "manifest" => approvedFile[appr[a].rid] = appr[a].rule
  BY <1>1 DEF WriteApprovedFile, WriteManifest, ApproverInv, CallInv, LockInv,
              HeldPc, Publishing
<1>5. [sha |-> appr[a].rule, pattern |-> appr[a].meta.pattern] \in Record
  BY <1>4 DEF Record, Metadata
<1>6. LoopInv'
  BY <1>3 DEF IInv, LoopInv, candVars
<1>7. ASSUME NEW b \in Approver, b # a PROVE appr[b].pc \notin HeldPc
  BY <1>1, <1>4, <1>7 DEF LockInv
<1>8. CASE WriteApprovedFile(a)
  <2>1. /\ appr' = [appr EXCEPT ![a] = appr'[a]]
        /\ appr'[a] = [appr[a] EXCEPT !.pc = "manifest"]
        /\ approvedFile' = [approvedFile EXCEPT ![appr[a].rid] = appr[a].rule]
        /\ UNCHANGED <<lock, manifest>>
    BY <1>2, <1>8 DEF WriteApprovedFile
  <2>2. appr'[a] \in ApproverState
    BY <1>2, <2>1 DEF ApproverState, HeldPc
  <2>3. approvedFile' \in [RuleId -> Bytes]
    BY <1>2, <1>4, <2>1 DEF Bytes
  <2>4. TypeOK'
    BY <1>1, <1>2, <1>3, <2>1, <2>2, <2>3 DEF TypeOK, dbVars, candVars
  <2>5. LockInv'
    BY <1>1, <1>2, <1>4, <2>1 DEF LockInv, HeldPc, Publishing, ApproverState
  <2>6. ApproverInv'
    <3>1. CallInv(a)'
      BY <1>1, <1>2, <1>3, <1>4, <2>1 DEF ApproverInv, CallInv, HeldPc, Publishing,
                                          ApproverState, dbVars
    <3>2. ASSUME NEW b \in Approver, b # a PROVE CallInv(b)'
      <4>1. appr'[b] = appr[b] /\ appr[b].pc \notin HeldPc
        BY <1>2, <1>7, <2>1, <3>2
      <4>2. QED BY <1>1, <4>1 DEF ApproverInv, CallInv, HeldPc, Publishing
    <3>3. QED BY <3>1, <3>2 DEF ApproverInv
  <2>7. PublishedFilesMatch'
    BY <1>2, <1>4, <2>1 DEF IInv, PublishedFilesMatch
  <2>8. LoaderInv' /\ LoadedIsAllowed'
    BY <1>3, <2>1 DEF IInv, LoaderInv, LoadedIsAllowed
  <2>9. QED
    BY <1>6, <2>1, <2>4, <2>5, <2>6, <2>7, <2>8 DEF IInv
<1>9. CASE WriteManifest(a)
  <2> DEFINE rec == [sha |-> appr[a].rule, pattern |-> appr[a].meta.pattern]
  <2>1. /\ appr' = [appr EXCEPT ![a] = ApprIdle("published")]
        /\ manifest' = [manifest EXCEPT ![appr[a].rid] = rec]
        /\ lock' = None /\ UNCHANGED approvedFile
    BY <1>4, <1>9 DEF WriteManifest, Return
  <2>2. appr'[a] = ApprIdle("published") /\ appr'[a] \in ApproverState /\ appr'[a].pc = "idle"
    <3>1. ApprIdle("published") \in ApproverState /\ ApprIdle("published").pc = "idle"
      BY IdleIsState DEF ApprIdle, CallAt
    <3>2. QED BY <1>2, <2>1, <3>1
  <2>3. manifest' \in Manifest
    BY <1>2, <1>4, <1>5, <2>1 DEF Manifest
  <2>4. \A r \in RuleId : manifest[r] # None => manifest'[r] = manifest[r]
    BY <1>2, <1>4, <2>1 DEF Manifest
  <2>5. TypeOK'
    BY <1>1, <1>2, <1>3, <2>1, <2>2, <2>3 DEF TypeOK, dbVars, candVars
  <2>6. LockInv'
    BY <1>2, <1>7, <2>1, <2>2 DEF LockInv, HeldPc
  <2>7. ApproverInv'
    <3>1. CallInv(a)'
      BY <2>2 DEF CallInv, HeldPc, Publishing
    <3>2. ASSUME NEW b \in Approver, b # a PROVE CallInv(b)'
      <4>1. appr'[b] = appr[b] /\ appr[b].pc \notin HeldPc
        BY <1>2, <1>7, <2>1, <3>2
      <4>2. QED BY <1>1, <4>1 DEF ApproverInv, CallInv, HeldPc, Publishing
    <3>3. QED BY <3>1, <3>2 DEF ApproverInv
  <2>8. PublishedFilesMatch'
    <3>1. manifest'[appr[a].rid].sha = appr[a].rule /\ appr[a].pc = "manifest"
      BY <1>2, <1>4, <1>9, <2>1 DEF Manifest, WriteManifest
    <3>2. \A r \in RuleId \ {appr[a].rid} : manifest'[r] = manifest[r]
      BY <1>2, <2>1 DEF Manifest
    <3>3. QED BY <1>4, <2>1, <3>1, <3>2 DEF IInv, PublishedFilesMatch
  <2>9. LoaderInv'
    BY <1>3, <2>4 DEF IInv, LoaderInv
  <2>10. LoadedIsAllowed'
    <3>1. \A d \in Loader : \A x \in ldr[d].loaded : x[1] \in RuleId
      BY <1>1 DEF TypeOK, LoaderState
    <3>2. QED BY <1>3, <2>4, <3>1 DEF IInv, LoadedIsAllowed
  <2>11. QED
    BY <1>6, <2>4, <2>5, <2>6, <2>7, <2>8, <2>9, <2>10 DEF IInv
<1>10. QED
  BY <1>8, <1>9

\* A loader records only what its snapshot lists, and the snapshot is a part
\* of the manifest of now.
LEMMA LoaderStepIInv ==
    ASSUME IInv, NEW d \in Loader, ReadManifest(d) \/ LoadRule(d) \/ LoaderRestarts(d)
    PROVE  IInv'
<1> USE NoneAssumption
<1>1. TypeOK /\ LoaderInv /\ LoadedIsAllowed
  BY DEF IInv
<1>2. /\ ldr \in [Loader -> LoaderState] /\ ldr[d] \in LoaderState
      /\ manifest \in Manifest /\ approvedFile \in [RuleId -> Bytes]
  BY <1>1 DEF TypeOK
<1>3. UNCHANGED <<dbVars, candVars, lock, storeVars, loop, appr, history, spent>>
  BY DEF ReadManifest, LoadRule, LoaderRestarts
<1>4. /\ ldr' = [ldr EXCEPT ![d] = ldr'[d]]
      /\ ldr'[d] \in LoaderState
      /\ \A r \in RuleId :
           /\ ldr'[d].man[r] # None => manifest[r] = ldr'[d].man[r]
           /\ r \in ldr'[d].todo => ldr'[d].man[r] # None
      /\ \A x \in ldr'[d].loaded : manifest[x[1]] # None /\ manifest[x[1]].sha = x[2]
  <2>1. CASE ReadManifest(d)
    BY <1>1, <1>2, <2>1 DEF ReadManifest, LoaderState, LoadedIsAllowed
  <2>2. CASE LoadRule(d)
    <3>1. PICK r \in ldr[d].todo :
            \/ /\ approvedFile[r] # None /\ approvedFile[r] = ldr[d].man[r].sha
               /\ ldr' = [ldr EXCEPT ![d].todo = @ \ {r},
                         ![d].loaded = @ \union {<<r, approvedFile[r]>>}]
            \/ ldr' = [ldr EXCEPT ![d].todo = @ \ {r}]
      BY <2>2 DEF LoadRule
    <3>2. r \in RuleId /\ ldr[d].man[r] # None /\ manifest[r] = ldr[d].man[r]
      BY <1>1, <1>2 DEF LoaderState, LoaderInv
    <3>3. CASE ldr' = [ldr EXCEPT ![d].todo = @ \ {r}]
      BY <1>1, <1>2, <3>3 DEF LoaderState, LoadedIsAllowed, LoaderInv
    <3>4. CASE /\ approvedFile[r] # None /\ approvedFile[r] = ldr[d].man[r].sha
               /\ ldr' = [ldr EXCEPT ![d].todo = @ \ {r},
                         ![d].loaded = @ \union {<<r, approvedFile[r]>>}]
      <4>1. approvedFile[r] \in Pattern
        BY <1>2, <3>2, <3>4 DEF Bytes
      <4>2. <<r, approvedFile[r]>> \in RuleId \X Pattern
        BY <3>2, <4>1
      <4>3. /\ ldr' = [ldr EXCEPT ![d] = ldr'[d]]
            /\ ldr'[d] = [ldr[d] EXCEPT !.todo = @ \ {r},
                                        !.loaded = @ \union {<<r, approvedFile[r]>>}]
        BY <1>2, <3>4
      <4>4. ldr'[d] \in LoaderState
        <5>1. ldr'[d] = [man |-> ldr[d].man, todo |-> ldr[d].todo \ {r},
                         loaded |-> ldr[d].loaded \union {<<r, approvedFile[r]>>}]
          BY <1>2, <4>3 DEF LoaderState
        <5>2. /\ ldr[d].loaded \union {<<r, approvedFile[r]>>} \subseteq RuleId \X Pattern
              /\ ldr[d].man \in Manifest /\ ldr[d].todo \ {r} \subseteq RuleId
          BY <1>2, <4>2 DEF LoaderState
        <5>3. QED BY <5>1, <5>2 DEF LoaderState
      <4>5. /\ ldr'[d].man = ldr[d].man /\ ldr'[d].todo \subseteq ldr[d].todo
            /\ ldr'[d].loaded = ldr[d].loaded \union {<<r, approvedFile[r]>>}
        BY <1>2, <4>3 DEF LoaderState
      <4>6. \A x \in ldr'[d].loaded :
              manifest[x[1]] # None /\ manifest[x[1]].sha = x[2]
        <5>1. ASSUME NEW x \in ldr[d].loaded
              PROVE  manifest[x[1]] # None /\ manifest[x[1]].sha = x[2]
          BY <1>1 DEF LoadedIsAllowed
        <5>2. ASSUME NEW x, x = <<r, approvedFile[r]>>
              PROVE  manifest[x[1]] # None /\ manifest[x[1]].sha = x[2]
          BY <3>2, <3>4, <5>2
        <5>3. QED BY <4>5, <5>1, <5>2
      <4>7. QED BY <1>1, <4>3, <4>4, <4>5, <4>6 DEF LoaderInv
    <3>5. QED BY <3>1, <3>3, <3>4
  <2>3. CASE LoaderRestarts(d)
    BY <1>1, <1>2, <2>3 DEF LoaderRestarts, LoaderState, LoaderInv
  <2>4. QED BY <2>1, <2>2, <2>3
<1>5. TypeOK'
  BY <1>1, <1>2, <1>3, <1>4 DEF TypeOK, dbVars, candVars, storeVars
<1>6. LoaderInv' /\ LoadedIsAllowed'
  BY <1>1, <1>2, <1>3, <1>4 DEF LoaderInv, LoadedIsAllowed, storeVars
<1>7. LockInv' /\ ApproverInv' /\ LoopInv' /\ PublishedFilesMatch'
  BY <1>3 DEF IInv, LockInv, ApproverInv, CallInv, LoopInv, PublishedFilesMatch,
              dbVars, candVars, storeVars
<1>8. QED
  BY <1>5, <1>6, <1>7 DEF IInv

LEMMA DetectIInv ==
    ASSUME IInv, NEW p \in Pattern, Detect(p)
    PROVE  IInv'
<1>1. TypeOK /\ UNCHANGED <<catalog, candVars, lock, storeVars, loop, appr, ldr,
                            history, spent>>
  BY DEF IInv, Detect
<1>2. row' \in [Pattern -> CatalogRow]
  BY <1>1 DEF Detect, TypeOK, CatalogRow, Status
<1>3. TypeOK'
  BY <1>1, <1>2 DEF TypeOK, candVars, storeVars
<1>4. QED
  BY <1>1, <1>3 DEF IInv, LockInv, ApproverInv, CallInv, LoopInv, LoaderInv,
                    PublishedFilesMatch, LoadedIsAllowed, candVars, storeVars

LEMMA StutterIInv == IInv /\ UNCHANGED vars => IInv'
BY DEF IInv, TypeOK, LockInv, ApproverInv, CallInv, LoopInv, LoaderInv,
       PublishedFilesMatch, LoadedIsAllowed, vars, dbVars, candVars, storeVars

LEMMA StepIInv == IInv /\ [Next]_vars => IInv'
<1> SUFFICES ASSUME IInv, [Next]_vars PROVE IInv'
  OBVIOUS
<1>1. ASSUME NEW p \in Pattern, Detect(p) PROVE IInv'
  BY <1>1, DetectIInv
<1>2. ASSUME NEW l \in Loop, BeginCandidate(l) \/ LoopStep(l) \/ LoopFails(l)
      PROVE  IInv'
  BY <1>2, LoopStepIInv
<1>3. ASSUME NEW a \in Approver,
             Request(a) \/ ApproveStep(a) \/ WriteFails(a) \/ ApproverDies(a)
      PROVE  IInv'
  BY <1>3, ApproverQuietStepIInv, ApproverWriteStepIInv DEF ApproveStep
<1>4. ASSUME NEW d \in Loader, ReadManifest(d) \/ LoadRule(d) \/ LoaderRestarts(d)
      PROVE  IInv'
  BY <1>4, LoaderStepIInv
<1>5. QED
  BY <1>1, <1>2, <1>3, <1>4, StutterIInv DEF Next

LEMMA Invariance == Spec => []IInv
BY InitIInv, StepIInv, PTL DEF Spec

-----------------------------------------------------------------------------
(* Theorems                                                                *)

\* Every variable keeps its type, whatever the interleaving of loops,
\* approvers, loaders, failures and deaths.
THEOREM TypeCorrect == Spec => []TypeOK
<1>1. IInv => TypeOK
  BY DEF IInv
<1>2. QED
  BY <1>1, Invariance, PTL

\* A listed rule always has its file in place: the file is replaced before the
\* manifest and only under the lock, so the loader's digest comparison never
\* hides an approved rule.
THEOREM FilesBackTheManifest == Spec => []PublishedFilesMatch
<1>1. IInv => PublishedFilesMatch
  BY DEF IInv
<1>2. QED
  BY <1>1, Invariance, PTL

\* The lock-free loader is safe: whatever it has executed is still allowed,
\* with exactly those bytes, although it read the manifest and the files at
\* different times.
THEOREM OnlyAllowedIsLoaded == Spec => []LoadedIsAllowed
<1>1. IInv => LoadedIsAllowed
  BY DEF IInv
<1>2. QED
  BY <1>1, Invariance, PTL

\* No approve call, retry, failure or death removes or rewrites a published
\* record.
LEMMA StepKeepsRecords ==
    ASSUME IInv, [Next]_vars
    PROVE  \A r \in RuleId : manifest[r] # None => manifest'[r] = manifest[r]
<1>1. CASE \E a \in Approver : WriteApprovedFile(a) \/ WriteManifest(a)
  BY <1>1, ApproverWriteStepIInv
<1>2. CASE ~\E a \in Approver : WriteApprovedFile(a) \/ WriteManifest(a)
  <2>1. UNCHANGED manifest
    BY ZenonT(60), <1>2 DEF Next, ApproveStep, LoopStep, Detect, BeginCandidate, WriteRule,
        WriteTest, Verify, SaveEvolvedRule, HashRule, HashTest, WriteMetadata,
        LoopFails, Request, Acquire, ReadMetadata, ReadRule, ReadTest,
        TxnAlreadyPublished, TxnTransition, TxnRepair, TxnRefuse, WriteFails,
        Compensate, ApproverDies, ReadManifest, LoadRule, LoaderRestarts,
        vars, storeVars
  <2>2. QED BY <2>1
<1>3. QED
  BY <1>1, <1>2

\* A published record is never lost or changed, although every approval replaces
\* the whole manifest file (_approve_rule_locked).
THEOREM PublishedRecordsAreKept == Spec => RecordsKept
<1>1. IInv /\ [Next]_vars =>
        [\A r \in RuleId : manifest[r] # None => manifest'[r] = manifest[r]]_vars
  BY StepKeepsRecords
<1>2. QED
  BY <1>1, Invariance, PTL DEF Spec, RecordsKept

\* The approval protocol implements the write-once allow-list: publication of
\* the manifest is the approval, a digest that matches is the activation, and
\* everything else changes nothing a user of the promise can see.
LEMMA InitAllowList == Init => Promise!Init
<1> SUFFICES ASSUME Init PROVE Promise!Init
  OBVIOUS
<1>1. Allowed = [r \in RuleId |-> None]
  BY DEF Init, Allowed
<1>2. Active = [d \in Loader |-> {}]
  BY DEF Init, Active
<1>3. QED
  BY <1>1, <1>2 DEF Promise!Init

LEMMA StepAllowList ==
    ASSUME IInv, [Next]_vars
    PROVE  [Promise!Next]_(Promise!vars)
<1> USE NoneAssumption
<1>1. /\ ldr \in [Loader -> LoaderState] /\ manifest \in Manifest
      /\ appr \in [Approver -> ApproverState] /\ LoaderInv
  BY DEF IInv, TypeOK
<1>2. ASSUME UNCHANGED <<manifest, ldr>> PROVE UNCHANGED Promise!vars
  BY <1>2 DEF Promise!vars, Allowed, Active
<1>3. ASSUME NEW a \in Approver, WriteManifest(a) PROVE Promise!Next
  <2> DEFINE r == appr[a].rid
  <2>1. /\ r \in RuleId /\ appr[a].rule \in Pattern
        /\ appr[a].man = manifest /\ manifest[r] = None
    BY <1>3 DEF IInv, ApproverInv, CallInv, Publishing, WriteManifest
  <2>2. [sha |-> appr[a].rule, pattern |-> appr[a].meta.pattern] # None
    <3>1. appr[a].meta \in Metadata
      BY <1>3 DEF IInv, ApproverInv, CallInv, HeldPc, Publishing, WriteManifest
    <3>2. [sha |-> appr[a].rule, pattern |-> appr[a].meta.pattern] \in Record
      BY <2>1, <3>1 DEF Record, Metadata
    <3>3. QED BY <3>2
  <2>3. /\ manifest' = [manifest EXCEPT ![r] =
                          [sha |-> appr[a].rule, pattern |-> appr[a].meta.pattern]]
        /\ UNCHANGED ldr
    BY <1>3, <2>1 DEF WriteManifest
  <2>4. Allowed[r] = None /\ Allowed' = [Allowed EXCEPT ![r] = appr[a].rule]
    BY <1>1, <2>1, <2>2, <2>3 DEF Allowed, Manifest
  <2>5. UNCHANGED Active
    BY <2>3 DEF Active
  <2>6. QED
    BY <2>1, <2>4, <2>5 DEF Promise!Next, Promise!Approve
<1>4. ASSUME NEW d \in Loader, LoadRule(d)
      PROVE  Promise!Next \/ UNCHANGED Promise!vars
  <2>1. UNCHANGED manifest
    BY <1>4 DEF LoadRule, storeVars
  <2>2. UNCHANGED Allowed
    BY <2>1 DEF Allowed
  <2>3. PICK r \in ldr[d].todo :
          \/ /\ approvedFile[r] # None /\ approvedFile[r] = ldr[d].man[r].sha
             /\ ldr' = [ldr EXCEPT ![d].todo = @ \ {r},
                       ![d].loaded = @ \union {<<r, approvedFile[r]>>}]
          \/ ldr' = [ldr EXCEPT ![d].todo = @ \ {r}]
    BY <1>4 DEF LoadRule
  <2>4. r \in RuleId /\ manifest[r] # None /\ manifest[r] = ldr[d].man[r]
    BY <1>1 DEF LoaderState, LoaderInv
  <2>5. CASE ldr' = [ldr EXCEPT ![d].todo = @ \ {r}]
    <3>1. UNCHANGED Active
      BY <1>1, <2>5 DEF Active, LoaderState
    <3>2. QED BY <2>2, <3>1 DEF Promise!vars
  <2>6. CASE /\ approvedFile[r] = ldr[d].man[r].sha
             /\ ldr' = [ldr EXCEPT ![d].todo = @ \ {r},
                       ![d].loaded = @ \union {<<r, approvedFile[r]>>}]
    <3>1. Allowed[r] # None /\ Allowed[r] = approvedFile[r]
      <4>1. manifest[r] \in Record /\ manifest[r].sha \in Pattern
        BY <1>1, <2>4 DEF Manifest, Record
      <4>2. QED BY <2>4, <2>6, <4>1 DEF Allowed
    <3>2. \A e \in Loader : ldr'[e].loaded =
             IF e = d THEN ldr[e].loaded \union {<<r, approvedFile[r]>>} ELSE ldr[e].loaded
      BY <1>1, <2>6 DEF LoaderState
    <3>3. Active' = [Active EXCEPT ![d] = @ \union {<<r, Allowed[r]>>}]
      BY <3>1, <3>2 DEF Active
    <3>4. QED
      BY <2>2, <2>4, <3>1, <3>3 DEF Promise!Next, Promise!Activate
  <2>7. QED BY <2>3, <2>5, <2>6
<1>5. ASSUME NEW d \in Loader, LoaderRestarts(d) PROVE Promise!Next
  <2>1. UNCHANGED Allowed
    BY <1>5 DEF LoaderRestarts, storeVars, Allowed
  <2>2. Active' = [Active EXCEPT ![d] = {}]
    BY <1>1, <1>5 DEF LoaderRestarts, Active, LoaderState
  <2>3. QED
    BY <2>1, <2>2 DEF Promise!Next, Promise!Restart
<1>6. ASSUME NEW d \in Loader, ReadManifest(d) PROVE UNCHANGED Promise!vars
  <2>1. UNCHANGED Allowed
    BY <1>6 DEF ReadManifest, storeVars, Allowed
  <2>2. UNCHANGED Active
    BY <1>1, <1>6 DEF ReadManifest, Active, LoaderState
  <2>3. QED BY <2>1, <2>2 DEF Promise!vars
<1>7. CASE \/ \E a \in Approver : WriteManifest(a)
           \/ \E d \in Loader : ReadManifest(d) \/ LoadRule(d) \/ LoaderRestarts(d)
  BY <1>3, <1>4, <1>5, <1>6, <1>7
<1>8. CASE ~\/ \E a \in Approver : WriteManifest(a)
            \/ \E d \in Loader : ReadManifest(d) \/ LoadRule(d) \/ LoaderRestarts(d)
  <2>1. UNCHANGED <<manifest, ldr>>
    BY ZenonT(60), <1>8 DEF Next, ApproveStep, LoopStep, Detect, BeginCandidate, WriteRule,
        WriteTest, Verify, SaveEvolvedRule, HashRule, HashTest, WriteMetadata,
        LoopFails, Request, Acquire, ReadMetadata, ReadRule, ReadTest,
        TxnAlreadyPublished, TxnTransition, TxnRepair, TxnRefuse,
        WriteApprovedFile, WriteFails, Compensate, ApproverDies, vars, storeVars
  <2>2. QED BY <1>2, <2>1
<1>9. QED
  BY <1>7, <1>8

\* approve_rule, with its lock, transaction, two file replacements, compensation
\* and faults, is one atomic addition to a write-once allow-list.
THEOREM Refinement == Spec => ImplementsAllowList
BY InitAllowList, StepAllowList, Invariance, PTL
   DEF Spec, ImplementsAllowList, Promise!Spec
-----------------------------------------------------------------------------
(***************************************************************************)
(* The database and the manifest: an approved row is published, or the    *)
(* call that publishes it or undoes the row is running.                    *)
(***************************************************************************)
\* candidate.json is filed under the rule id of its pattern.
MetaInv ==
    \A r \in RuleId : candMeta[r] # None => RuleIdOf[candMeta[r].pattern] = r

\* An approve call publishes under the rule id of the pattern it read, and as
\* long as no approver has died it has moved the rows itself.
PublishInv ==
    \A a \in Approver :
        /\ appr[a].pc \in HeldPc \ {"metadata"} => RuleIdOf[appr[a].meta.pattern] = appr[a].rid
        /\ appr[a].pc \in Publishing /\ spent.deaths = 0 => appr[a].mine

RowsInv == IInv /\ MetaInv /\ PublishInv /\ ApprovedIsPublished

LEMMA Init_RowsInv == Init => RowsInv
<1> SUFFICES ASSUME Init PROVE RowsInv
  OBVIOUS
<1>1. MetaInv /\ PublishInv /\ ApprovedIsPublished
  BY DEF Init, MetaInv, PublishInv, ApprovedIsPublished, ApprIdle, CallAt, HeldPc, Publishing
<1> QED BY <1>1, InitIInv DEF RowsInv

\* Steps that touch neither the calls, the records nor the candidates' metadata,
\* and leave no row approved that was not.
LEMMA Unpublished_RowsInv ==
    ASSUME RowsInv, IInv', UNCHANGED <<candMeta, appr, manifest>>, spent'.deaths = spent.deaths,
           \A p \in Pattern : row'[p].status = "approved" => row[p].status = "approved"
    PROVE  RowsInv'
<1>1. MetaInv' /\ PublishInv'
  BY DEF RowsInv, MetaInv, PublishInv
<1>2. ApprovedIsPublished'
  BY DEF RowsInv, ApprovedIsPublished, PublishedFor, InFlight
<1> QED BY <1>1, <1>2 DEF RowsInv

LEMMA Loop_RowsInv ==
    ASSUME RowsInv, NEW l \in Loop, BeginCandidate(l) \/ LoopStep(l) \/ LoopFails(l)
    PROVE  RowsInv'
<1>1. IInv'
  BY LoopStepIInv DEF RowsInv
<1>2. TypeOK /\ LoopInv
  BY DEF RowsInv, IInv
<1>3. CASE WriteMetadata(l)
  <2>1. /\ loop[l].pat \in Pattern
        /\ UNCHANGED <<row, appr, manifest, spent>>
    BY <1>2, <1>3 DEF WriteMetadata, TypeOK, dbVars, storeVars
  <2>2. MetaInv'
    <3> SUFFICES ASSUME NEW r \in RuleId, candMeta'[r] # None
                 PROVE  RuleIdOf[candMeta'[r].pattern] = r
      BY DEF MetaInv
    <3>1. candMeta \in [RuleId -> Metadata \union {None}]
      BY <1>2 DEF TypeOK
    <3>2. CASE r = RuleIdOf[loop[l].pat]
      BY <1>3, <3>1, <3>2 DEF WriteMetadata
    <3>3. CASE r # RuleIdOf[loop[l].pat]
      BY <1>3, <3>1, <3>3 DEF WriteMetadata, RowsInv, MetaInv
    <3> QED BY <3>2, <3>3
  <2>3. PublishInv' /\ ApprovedIsPublished'
    BY <2>1 DEF RowsInv, PublishInv, ApprovedIsPublished, PublishedFor, InFlight
  <2> QED BY <1>1, <2>2, <2>3 DEF RowsInv
<1>4. CASE ~WriteMetadata(l)
  <2>1. UNCHANGED <<candMeta, appr, manifest>>
    BY <1>4 DEF BeginCandidate, LoopStep, LoopFails, WriteRule, WriteTest, Verify,
                SaveEvolvedRule, HashRule, HashTest, candVars, storeVars
  <2>2. spent'.deaths = spent.deaths
    BY <1>2, <1>4 DEF BeginCandidate, LoopStep, LoopFails, WriteRule, WriteTest, Verify,
                SaveEvolvedRule, HashRule, HashTest, TypeOK, Budget
  <2>3. ASSUME NEW p \in Pattern, row'[p].status = "approved" PROVE row[p].status = "approved"
    <3>1. CASE SaveEvolvedRule(l)
      <4>1. row \in [Pattern -> CatalogRow] /\ loop[l].pat \in Pattern
        BY <1>2, <3>1 DEF SaveEvolvedRule, TypeOK
      <4>2. EvolveDecision(loop[l].score) # "approved"
        BY DEF EvolveDecision
      <4> QED BY <2>3, <3>1, <4>1, <4>2 DEF SaveEvolvedRule
    <3>2. CASE ~SaveEvolvedRule(l)
      BY <1>4, <2>3, <3>2 DEF BeginCandidate, LoopStep, LoopFails, WriteRule, WriteTest, Verify,
                HashRule, HashTest, dbVars
    <3> QED BY <3>1, <3>2
  <2> QED BY <1>1, <2>1, <2>2, <2>3, Unpublished_RowsInv
<1> QED BY <1>3, <1>4

LEMMA Others_RowsInv ==
    ASSUME RowsInv,
           \/ \E p \in Pattern : Detect(p)
           \/ \E d \in Loader : ReadManifest(d) \/ LoadRule(d) \/ LoaderRestarts(d)
           \/ UNCHANGED vars
    PROVE  RowsInv'
<1>1. IInv' /\ row \in [Pattern -> CatalogRow]
  BY StepIInv DEF RowsInv, IInv, TypeOK, Next
<1>2. CASE \E p \in Pattern : Detect(p)
  BY <1>1, <1>2, Unpublished_RowsInv DEF Detect, candVars, storeVars, CatalogRow
<1>3. CASE UNCHANGED vars \/ \E d \in Loader : ReadManifest(d) \/ LoadRule(d) \/ LoaderRestarts(d)
  <2>1. UNCHANGED <<candMeta, appr, manifest, row, spent>>
    BY <1>3 DEF ReadManifest, LoadRule, LoaderRestarts, candVars, storeVars, dbVars, vars
  <2> QED BY <1>1, <2>1, Unpublished_RowsInv
<1> QED BY <1>2, <1>3

\* A step of an approve call that publishes nothing, approves nothing, and goes
\* on with a publication that was under way.
LEMMA Call_RowsInv ==
    ASSUME RowsInv, IInv', NEW a \in Approver,
           UNCHANGED <<candMeta, manifest>>,
           \A b \in Approver \ {a} : appr'[b] = appr[b],
           appr'[a].pc \in HeldPc \ {"metadata"} => RuleIdOf[appr'[a].meta.pattern] = appr'[a].rid,
           spent'.deaths = 0 => spent.deaths = 0,
           appr'[a].pc \in Publishing /\ spent'.deaths = 0 => appr'[a].mine,
           \A p \in Pattern : spent'.deaths = 0 /\ row'[p].status = "approved" =>
               \/ row[p].status = "approved" /\ (appr[a].pc \in Publishing => appr[a].meta.pattern # p)
               \/ appr'[a].pc \in Publishing /\ appr'[a].meta.pattern = p
    PROVE  RowsInv'
<1>1. MetaInv'
  BY DEF RowsInv, MetaInv
<1>2. PublishInv'
  BY DEF RowsInv, PublishInv
<1>3. ApprovedIsPublished'
  <2> SUFFICES ASSUME NEW p \in Pattern, spent'.deaths = 0, row'[p].status = "approved"
               PROVE  PublishedFor(p)' \/ InFlight(p)'
    BY DEF ApprovedIsPublished
  <2>1. CASE appr'[a].pc \in Publishing /\ appr'[a].meta.pattern = p
    BY <2>1 DEF InFlight, Publishing
  <2>2. CASE row[p].status = "approved" /\ (appr[a].pc \in Publishing => appr[a].meta.pattern # p)
    <3>1. PublishedFor(p) \/ InFlight(p)
      BY <2>2 DEF RowsInv, ApprovedIsPublished
    <3>2. CASE PublishedFor(p)
      BY <3>2 DEF PublishedFor
    <3>3. CASE InFlight(p)
      <4>1. PICK b \in Approver : appr[b].pc \in Publishing /\ appr[b].meta.pattern = p
        BY <3>3 DEF InFlight, Publishing
      <4>2. b # a
        BY <2>2, <4>1
      <4> QED BY <4>1, <4>2 DEF InFlight, Publishing
    <3> QED BY <3>1, <3>2, <3>3
  <2> QED BY <2>1, <2>2
<1> QED BY <1>1, <1>2, <1>3 DEF RowsInv

\* A call that repairs an approved row found it unpublished and nobody at it,
\* so that an approver must have died.
LEMMA RepairAfterDeath ==
    ASSUME RowsInv, NEW a \in Approver, TxnRepair(a)
    PROVE  spent.deaths # 0
<1> DEFINE p == appr[a].meta.pattern
<1>1. /\ appr[a].pc = "txn" /\ manifest[appr[a].rid] = None
      /\ row[p].status = "approved" /\ appr[a].meta \in Metadata
      /\ RuleIdOf[p] = appr[a].rid
  BY DEF TxnRepair, RowsAre, RowsInv, PublishInv, IInv, ApproverInv, CallInv, HeldPc
<1>2. p \in Pattern /\ ~PublishedFor(p)
  BY <1>1 DEF PublishedFor, Metadata
<1>3. ~InFlight(p)
  BY <1>1 DEF InFlight, RowsInv, IInv, LockInv, HeldPc
<1> QED BY <1>1, <1>2, <1>3 DEF RowsInv, ApprovedIsPublished

LEMMA QuietCall_RowsInv ==
    ASSUME RowsInv, NEW a \in Approver,
           \/ Request(a) \/ Acquire(a) \/ ReadMetadata(a) \/ ReadRule(a) \/ ReadTest(a)
           \/ TxnAlreadyPublished(a) \/ TxnRefuse(a)
    PROVE  RowsInv'
<1>1. IInv' /\ appr \in [Approver -> ApproverState] /\ appr[a].pc \notin Publishing
  BY ApproverQuietStepIInv
     DEF RowsInv, IInv, TypeOK, Publishing, Request, Acquire, ReadMetadata, ReadRule, ReadTest,
         TxnAlreadyPublished, TxnRefuse
<1>2. /\ UNCHANGED <<candMeta, manifest, row>>
      /\ \A b \in Approver \ {a} : appr'[b] = appr[b]
      /\ appr'[a].pc \notin Publishing
  <2>1. UNCHANGED <<candMeta, manifest, row>>
    BY DEF Request, Acquire, ReadMetadata, ReadRule, ReadTest, TxnAlreadyPublished,
           TxnRefuse, candVars, storeVars, dbVars
  <2>2. CASE Request(a)
    BY <1>1, <2>1, <2>2 DEF Request, CallAt, Publishing
  <2>3. CASE Acquire(a)
    BY <1>1, <2>1, <2>3 DEF Acquire, ApproverState, Publishing
  <2>4. CASE ReadRule(a)
    BY <1>1, <2>1, <2>4 DEF ReadRule, ApproverState, Publishing
  <2>5. ASSUME NEW outcome, Return(a, outcome)
        PROVE  /\ \A b \in Approver \ {a} : appr'[b] = appr[b]
               /\ appr'[a].pc \notin Publishing
    BY <1>1, <2>5 DEF Return, ApprIdle, CallAt, Publishing
  <2>6. CASE ReadMetadata(a)
    BY <1>1, <2>1, <2>5, <2>6 DEF ReadMetadata, ApproverState, Publishing
  <2>7. CASE ReadTest(a)
    BY <1>1, <2>1, <2>5, <2>7 DEF ReadTest, ApproverState, Publishing
  <2>8. CASE TxnAlreadyPublished(a) \/ TxnRefuse(a)
    BY <2>1, <2>5, <2>8 DEF TxnAlreadyPublished, TxnRefuse
  <2> QED BY <2>2, <2>3, <2>4, <2>6, <2>7, <2>8
<1>3. spent'.deaths = spent.deaths
  BY DEF Request, Acquire, ReadMetadata, ReadRule, ReadTest, TxnAlreadyPublished,
         TxnRefuse, RowsInv, IInv, TypeOK, Budget
<1>4. appr'[a].pc \in HeldPc \ {"metadata"} => RuleIdOf[appr'[a].meta.pattern] = appr'[a].rid
  <2>1. CASE ReadMetadata(a)
    <3>1. CASE appr' = [appr EXCEPT ![a] = ApprIdle("rejected")]
      BY <1>1, <3>1 DEF ApprIdle, CallAt, HeldPc
    <3>2. CASE appr' = [appr EXCEPT ![a].pc = "rule", ![a].meta = candMeta[appr[a].rid]]
               /\ Eligible(candMeta[appr[a].rid])
      <4>1. appr'[a].rid = appr[a].rid /\ appr'[a].meta = candMeta[appr[a].rid]
        BY <1>1, <3>2 DEF ApproverState
      <4>2. appr[a].rid \in RuleId
        BY <2>1 DEF ReadMetadata, RowsInv, IInv, ApproverInv, CallInv
      <4> QED BY <3>2, <4>1, <4>2 DEF Eligible, RowsInv, MetaInv
    <3> QED BY <2>1, <3>1, <3>2 DEF ReadMetadata, Return
  <2>2. CASE ReadRule(a) \/ ReadTest(a)
    <3>1. \/ appr'[a] = ApprIdle("rejected")
          \/ /\ appr[a].pc \in HeldPc \ {"metadata"}
             /\ appr'[a].meta = appr[a].meta /\ appr'[a].rid = appr[a].rid
      BY <1>1, <2>2 DEF ReadRule, ReadTest, Return, ApproverState, HeldPc
    <3> QED BY <3>1 DEF ApprIdle, CallAt, HeldPc, RowsInv, PublishInv
  <2>3. CASE Request(a) \/ Acquire(a) \/ TxnAlreadyPublished(a) \/ TxnRefuse(a)
    BY <1>1, <2>3 DEF Request, Acquire, TxnAlreadyPublished, TxnRefuse, Return, ApprIdle,
                      CallAt, HeldPc, ApproverState
  <2> QED BY <2>1, <2>2, <2>3
<1> QED BY <1>1, <1>2, <1>3, <1>4, Call_RowsInv

LEMMA Txn_RowsInv ==
    ASSUME RowsInv, NEW a \in Approver, TxnTransition(a) \/ TxnRepair(a)
    PROVE  RowsInv'
<1>1. IInv' /\ appr \in [Approver -> ApproverState] /\ row \in [Pattern -> CatalogRow]
  BY ApproverQuietStepIInv DEF RowsInv, IInv, TypeOK
<1>2. /\ appr[a].pc = "txn" /\ appr[a].meta.pattern \in Pattern
      /\ RuleIdOf[appr[a].meta.pattern] = appr[a].rid
  BY DEF TxnTransition, TxnRepair, RowsInv, PublishInv, IInv, ApproverInv, CallInv, HeldPc, Metadata
<1>3. /\ UNCHANGED <<candMeta, manifest, spent>>
      /\ \A b \in Approver \ {a} : appr'[b] = appr[b]
      /\ appr'[a].pc = "file" /\ appr'[a].meta = appr[a].meta /\ appr'[a].rid = appr[a].rid
  BY <1>1 DEF TxnTransition, TxnRepair, candVars, storeVars, ApproverState
<1>4. CASE TxnTransition(a)
  <2>1. appr'[a].mine
    BY <1>1, <1>4 DEF TxnTransition, ApproverState
  <2>2. \A p \in Pattern \ {appr[a].meta.pattern} : row'[p] = row[p]
    BY <1>1, <1>2, <1>4 DEF TxnTransition, SetRows
  <2> QED BY <1>1, <1>2, <1>3, <2>1, <2>2, Call_RowsInv DEF Publishing
<1>5. CASE TxnRepair(a)
  <2>1. spent.deaths # 0 /\ row' = row
    BY <1>5, RepairAfterDeath DEF TxnRepair, dbVars
  <2> QED BY <1>1, <1>2, <1>3, <2>1, Call_RowsInv
<1> QED BY <1>4, <1>5

\* A write that fails, the undoing of the rows, and the death of an approver.
LEMMA Failure_RowsInv ==
    ASSUME RowsInv, NEW a \in Approver, WriteFails(a) \/ Compensate(a) \/ ApproverDies(a)
    PROVE  RowsInv'
<1>1. /\ IInv' /\ appr \in [Approver -> ApproverState] /\ row \in [Pattern -> CatalogRow]
      /\ spent \in Budget
  BY ApproverQuietStepIInv DEF RowsInv, IInv, TypeOK
<1>2. /\ UNCHANGED <<candMeta, manifest>>
      /\ \A b \in Approver \ {a} : appr'[b] = appr[b]
  BY <1>1 DEF WriteFails, Compensate, ApproverDies, Return, candVars, storeVars
<1>3. CASE ApproverDies(a)
  <2>1. spent'.deaths # 0 /\ appr'[a].pc = "idle"
    BY <1>1, <1>3 DEF ApproverDies, Budget, ApprIdle, CallAt
  <2> QED BY <1>1, <1>2, <2>1, Call_RowsInv DEF HeldPc
<1>4. CASE Compensate(a)
  <2>1. appr'[a].pc = "idle" /\ spent' = spent
    BY <1>1, <1>4 DEF Compensate, Return, ApprIdle, CallAt
  <2>2. appr[a].pc = "undo" /\ appr[a].meta.pattern \in Pattern
    BY <1>4 DEF Compensate, RowsInv, IInv, ApproverInv, CallInv, HeldPc, Metadata
  <2>3. /\ row'[appr[a].meta.pattern].status # "approved"
        /\ \A p \in Pattern \ {appr[a].meta.pattern} : row'[p] = row[p]
    BY <1>1, <1>4, <2>2 DEF Compensate, CatalogRow
  <2> QED BY <1>1, <1>2, <2>1, <2>2, <2>3, Call_RowsInv DEF HeldPc, Publishing
<1>5. CASE WriteFails(a)
  <2>1. row' = row /\ spent'.deaths = spent.deaths /\ appr[a].pc \in Publishing
    BY <1>1, <1>5 DEF WriteFails, dbVars, Budget, Publishing
  <2>2. CASE appr[a].mine /\ appr' = [appr EXCEPT ![a].pc = "undo"]
    <3>1. /\ appr'[a].pc = "undo" /\ appr'[a].meta = appr[a].meta
          /\ appr'[a].rid = appr[a].rid /\ appr'[a].mine
      BY <1>1, <2>2 DEF ApproverState
    <3>2. RuleIdOf[appr[a].meta.pattern] = appr[a].rid
      BY <2>1 DEF RowsInv, PublishInv, HeldPc, Publishing
    <3> QED BY <1>1, <1>2, <2>1, <3>1, <3>2, Call_RowsInv DEF Publishing
  <2>3. CASE ~appr[a].mine /\ Return(a, "failed")
    <3>1. appr'[a].pc = "idle" /\ spent.deaths # 0
      BY <1>1, <2>1, <2>3 DEF Return, ApprIdle, CallAt, RowsInv, PublishInv
    <3> QED BY <1>1, <1>2, <2>1, <3>1, Call_RowsInv DEF HeldPc, Publishing
  <2> QED BY <1>5, <2>2, <2>3 DEF WriteFails
<1> QED BY <1>3, <1>4, <1>5

\* Publication: the file, then the manifest.
LEMMA Write_RowsInv ==
    ASSUME RowsInv, NEW a \in Approver, WriteApprovedFile(a) \/ WriteManifest(a)
    PROVE  RowsInv'
<1>1. IInv' /\ appr \in [Approver -> ApproverState] /\ manifest \in Manifest
  BY ApproverWriteStepIInv DEF RowsInv, IInv, TypeOK
<1>2. /\ appr[a].pc \in Publishing /\ appr[a].meta \in Metadata /\ appr[a].rid \in RuleId
      /\ RuleIdOf[appr[a].meta.pattern] = appr[a].rid
      /\ appr[a].man = manifest /\ appr[a].rule \in Pattern
  BY DEF WriteApprovedFile, WriteManifest, RowsInv, PublishInv, IInv, ApproverInv, CallInv,
         HeldPc, Publishing
<1>3. /\ UNCHANGED <<candMeta, row, spent>>
      /\ \A b \in Approver \ {a} : appr'[b] = appr[b]
  BY <1>1 DEF WriteApprovedFile, WriteManifest, Return, candVars, dbVars
<1>4. CASE WriteApprovedFile(a)
  <2>1. /\ manifest' = manifest /\ appr'[a].pc = "manifest" /\ appr'[a].meta = appr[a].meta
        /\ appr'[a].rid = appr[a].rid /\ appr'[a].mine = appr[a].mine
    BY <1>1, <1>4 DEF WriteApprovedFile, ApproverState
  <2>2. spent.deaths = 0 => appr[a].mine
    BY <1>2 DEF RowsInv, PublishInv
  <2> QED BY <1>1, <1>2, <1>3, <2>1, <2>2, Call_RowsInv DEF Publishing
<1>5. CASE WriteManifest(a)
  <2> SUFFICES ASSUME NEW p \in Pattern, p = appr[a].meta.pattern,
                      NEW rec, rec = [sha |-> appr[a].rule, pattern |-> p]
               PROVE  RowsInv'
    BY <1>2 DEF Metadata
  <2>1. appr'[a].pc = "idle" /\ manifest' = [manifest EXCEPT ![appr[a].rid] = rec]
    BY <1>1, <1>2, <1>5 DEF WriteManifest, Return, ApprIdle, CallAt
  <2>2. rec # None /\ rec.pattern = p
    <3>1. rec \in Record
      BY <1>2 DEF Record, Metadata
    <3> QED BY <3>1, NoneAssumption
  <2>3. MetaInv' /\ PublishInv'
    BY <1>3, <2>1 DEF RowsInv, MetaInv, PublishInv, HeldPc, Publishing
  <2>4. PublishedFor(p)'
    <3>1. manifest'[RuleIdOf[p]] = rec
      BY <1>1, <1>2, <2>1 DEF Manifest
    <3> QED BY <2>2, <3>1 DEF PublishedFor
  <2>5. ASSUME NEW q \in Pattern, PublishedFor(q) PROVE PublishedFor(q)'
    <3>1. \A r \in RuleId : manifest[r] # None => manifest'[r] = manifest[r]
      BY <1>5, ApproverWriteStepIInv DEF RowsInv
    <3> QED BY <2>5, <3>1, RuleIdOfAssumption DEF PublishedFor
  <2>6. ASSUME NEW q \in Pattern, q # p, InFlight(q) PROVE InFlight(q)'
    BY <1>3, <2>6 DEF InFlight
  <2>7. ApprovedIsPublished'
    BY <1>3, <2>4, <2>5, <2>6 DEF RowsInv, ApprovedIsPublished
  <2> QED BY <1>1, <2>3, <2>7 DEF RowsInv
<1> QED BY <1>4, <1>5

LEMMA Next_RowsInv == RowsInv /\ [Next]_vars => RowsInv'
<1> SUFFICES ASSUME RowsInv, [Next]_vars PROVE RowsInv'
  OBVIOUS
<1>1. ASSUME NEW l \in Loop, BeginCandidate(l) \/ LoopStep(l) \/ LoopFails(l) PROVE RowsInv'
  BY <1>1, Loop_RowsInv
<1>2. ASSUME NEW a \in Approver,
             Request(a) \/ ApproveStep(a) \/ WriteFails(a) \/ ApproverDies(a)
      PROVE  RowsInv'
  BY <1>2, QuietCall_RowsInv, Txn_RowsInv, Failure_RowsInv, Write_RowsInv DEF ApproveStep
<1> QED BY <1>1, <1>2, Others_RowsInv DEF Next

LEMMA RowsInvariance == Spec => []RowsInv
BY Init_RowsInv, Next_RowsInv, PTL DEF Spec

\* Failed writes are compensated: without a death, no pattern stays approved in
\* the database whose rule nobody publishes.
THEOREM ApprovedRowsArePublished == Spec => []ApprovedIsPublished
<1>1. RowsInv => ApprovedIsPublished
  BY DEF RowsInv
<1> QED BY <1>1, RowsInvariance, PTL

-----------------------------------------------------------------------------
(***************************************************************************)
(* Published bytes were executed.  Verification reads a candidate's rule   *)
(* file, and so does the digest that is approved, later: both are of the   *)
(* same bytes if no other loop writes another pattern under that rule id.  *)
(***************************************************************************)
NoSharedIds == \A p, q \in Pattern : RuleIdOf[p] = RuleIdOf[q] => p = q
OneLoop == \A l, m \in Loop : l = m

\* What a loop that wrote a candidate knows of it: its rule file is its own,
\* and a verified candidate was executed.
Wrote(c) ==
    LET r == RuleIdOf[c.pat] IN
    /\ c.pc \in {"rule", "test", "verify"} => ~c.ok /\ c.score \in Score
    /\ c.pc \in {"save", "hashRule", "hashTest", "meta"} =>
         IF c.ok THEN c.score \in Score ELSE c.score = 0
    /\ c.pc \notin {"idle", "rule"} => candRule[r] = c.pat
    /\ c.pc \in {"hashTest", "meta"} => c.rule = c.pat
    /\ c.pc # "idle" /\ c.ok => <<r, c.pat>> \in validated
WroteInv == \A l \in Loop : Wrote(loop[l])

\* The digest of a verified candidate is of bytes that were executed; a call
\* that goes on holds those bytes.
DigestInv ==
    /\ \A r \in RuleId : candMeta[r] # None /\ candMeta[r].verified =>
         <<r, candMeta[r].rule>> \in validated
    /\ \A a \in Approver :
         /\ appr[a].pc \in HeldPc \ {"metadata"} => <<appr[a].rid, appr[a].meta.rule>> \in validated
         /\ appr[a].pc \in Publishing \union {"txn"} => appr[a].rule = appr[a].meta.rule

ExecutedInv == IInv /\ WroteInv /\ DigestInv /\ PublishedWasValidated

LEMMA Init_ExecutedInv == Init => ExecutedInv
<1> SUFFICES ASSUME Init PROVE ExecutedInv
  OBVIOUS
<1>1. WroteInv /\ DigestInv /\ PublishedWasValidated
  BY DEF Init, WroteInv, Wrote, DigestInv, PublishedWasValidated, LoopIdle, LoopAt, ApprIdle,
         CallAt, HeldPc, Publishing
<1> QED BY <1>1, InitIInv DEF ExecutedInv

\* What a step of a loop does to its own state and to the files.
LEMMA LoopStep_Wrote ==
    ASSUME IInv, NEW l \in Loop, Wrote(loop[l]), BeginCandidate(l) \/ LoopStep(l) \/ LoopFails(l)
    PROVE  /\ Wrote(loop[l])'
           /\ \A m \in Loop \ {l} : loop'[m] = loop[m]
           /\ validated \subseteq validated'
<1>1. /\ loop \in [Loop -> LoopState] /\ candRule \in [RuleId -> Bytes]
      /\ loop[l] \in LoopState /\ (loop[l].pc # "idle" => loop[l].pat \in Pattern)
      /\ RuleIdOf \in [Pattern -> RuleId]
  BY RuleIdOfAssumption DEF IInv, TypeOK
<1>2. CASE BeginCandidate(l)
  <2>1. PICK p \in Pattern, s \in Score : loop' = [loop EXCEPT ![l] = LoopAt("rule", p, s)]
    BY <1>2 DEF BeginCandidate
  <2>2. validated' = validated
    BY <1>2 DEF BeginCandidate
  <2> QED BY <1>1, <2>1, <2>2 DEF Wrote, LoopAt
<1>3. CASE LoopFails(l)
  BY <1>1, <1>3 DEF LoopFails, Wrote, LoopAt, LoopIdle
<1>4. CASE WriteRule(l)
  BY <1>1, <1>4 DEF WriteRule, Wrote, LoopState
<1>5. CASE WriteTest(l)
  BY <1>1, <1>5 DEF WriteTest, Wrote, LoopState
<1>6. CASE Verify(l)
  <2>1. /\ candRule' = candRule /\ loop[l].pc = "verify"
        /\ \A m \in Loop \ {l} : loop'[m] = loop[m]
        /\ loop'[l].pc = "save" /\ loop'[l].pat = loop[l].pat
    BY <1>1, <1>6 DEF Verify, LoopState, candVars
  <2>2. \/ /\ loop'[l].ok /\ loop'[l].score = loop[l].score
           /\ validated' = validated \union {<<RuleIdOf[loop[l].pat], candRule[RuleIdOf[loop[l].pat]]>>}
        \/ /\ loop'[l].ok = loop[l].ok /\ loop'[l].score = 0
           /\ validated' = validated
    BY <1>1, <1>6 DEF Verify, LoopState
  <2> QED BY <1>1, <2>1, <2>2 DEF Wrote
<1>7. CASE SaveEvolvedRule(l)
  BY <1>1, <1>7 DEF SaveEvolvedRule, Wrote, LoopState, candVars
<1>8. CASE HashRule(l)
  <2>1. /\ candRule' = candRule /\ validated' = validated /\ loop[l].pc = "hashRule"
        /\ \A m \in Loop \ {l} : loop'[m] = loop[m]
        /\ loop'[l].pc = "hashTest" /\ loop'[l].pat = loop[l].pat
        /\ loop'[l].ok = loop[l].ok /\ loop'[l].score = loop[l].score
        /\ loop'[l].rule = candRule[RuleIdOf[loop[l].pat]]
    BY <1>1, <1>8 DEF HashRule, LoopState, candVars
  <2> QED BY <2>1 DEF Wrote
<1>9. CASE HashTest(l)
  <2>1. /\ candRule' = candRule /\ validated' = validated /\ loop[l].pc = "hashTest"
        /\ \A m \in Loop \ {l} : loop'[m] = loop[m]
        /\ loop'[l].pc = "meta" /\ loop'[l].pat = loop[l].pat
        /\ loop'[l].ok = loop[l].ok /\ loop'[l].score = loop[l].score
        /\ loop'[l].rule = loop[l].rule
    BY <1>1, <1>9 DEF HashTest, LoopState, candVars
  <2> QED BY <2>1 DEF Wrote
<1>10. CASE WriteMetadata(l)
  BY <1>1, <1>10 DEF WriteMetadata, Wrote, LoopAt, LoopIdle
<1> QED BY <1>2, <1>3, <1>4, <1>5, <1>6, <1>7, <1>8, <1>9, <1>10 DEF LoopStep

\* Loops do not overwrite each other's rule files with other bytes.
LEMMA Loop_WroteInv ==
    ASSUME OneLoop \/ NoSharedIds, IInv, WroteInv,
           NEW l \in Loop, BeginCandidate(l) \/ LoopStep(l) \/ LoopFails(l)
    PROVE  WroteInv'
<1>1. /\ Wrote(loop[l])'
      /\ \A m \in Loop \ {l} : loop'[m] = loop[m]
      /\ validated \subseteq validated'
  BY LoopStep_Wrote DEF WroteInv
<1>2. ASSUME NEW m \in Loop \ {l} PROVE Wrote(loop[m])'
  <2>1. Wrote(loop[m]) /\ loop'[m] = loop[m] /\ NoSharedIds
    BY <1>1 DEF WroteInv, OneLoop
  <2>2. loop[m].pc # "idle" => loop[m].pat \in Pattern
    BY DEF IInv, TypeOK
  <2>3. CASE WriteRule(l)
    <3>1. loop[l].pat \in Pattern /\ candRule \in [RuleId -> Bytes] /\ RuleIdOf \in [Pattern -> RuleId]
      BY <2>3, RuleIdOfAssumption DEF IInv, TypeOK, WriteRule
    <3>2. candRule' = [candRule EXCEPT ![RuleIdOf[loop[l].pat]] = loop[l].pat]
      BY <2>3 DEF WriteRule
    <3>3. loop[m].pc \notin {"idle", "rule"} => candRule'[RuleIdOf[loop[m].pat]] = loop[m].pat
      BY <2>1, <2>2, <3>1, <3>2 DEF Wrote, NoSharedIds
    <3> QED BY <1>1, <2>1, <3>3 DEF Wrote
  <2>4. CASE ~WriteRule(l)
    <3>1. candRule' = candRule
      BY <2>4 DEF BeginCandidate, LoopStep, LoopFails, WriteTest, Verify, SaveEvolvedRule,
                  HashRule, HashTest, WriteMetadata, candVars
    <3> QED BY <1>1, <2>1, <3>1 DEF Wrote
  <2> QED BY <2>3, <2>4
<1> QED BY <1>1, <1>2 DEF WroteInv

LEMMA Loop_ExecutedInv ==
    ASSUME OneLoop \/ NoSharedIds, ExecutedInv,
           NEW l \in Loop, BeginCandidate(l) \/ LoopStep(l) \/ LoopFails(l)
    PROVE  ExecutedInv'
<1>1. IInv' /\ WroteInv'
  BY LoopStepIInv, Loop_WroteInv DEF ExecutedInv
<1>2. /\ validated \subseteq validated' /\ UNCHANGED <<manifest, appr>>
      /\ Wrote(loop[l])
  <2>1. UNCHANGED <<manifest, appr>>
    BY DEF BeginCandidate, LoopStep, LoopFails, WriteRule, WriteTest, Verify, SaveEvolvedRule,
           HashRule, HashTest, WriteMetadata, storeVars
  <2> QED BY <2>1, LoopStep_Wrote DEF ExecutedInv, WroteInv
<1>3. PublishedWasValidated'
  BY <1>2 DEF ExecutedInv, PublishedWasValidated
<1>4. ASSUME NEW r \in RuleId, candMeta'[r] # None, candMeta'[r].verified
      PROVE  <<r, candMeta'[r].rule>> \in validated'
  <2>1. CASE candMeta'[r] = candMeta[r]
    BY <1>2, <1>4, <2>1 DEF ExecutedInv, DigestInv
  <2>2. CASE candMeta'[r] # candMeta[r]
    <3>1. WriteMetadata(l)
      BY <2>2 DEF BeginCandidate, LoopStep, LoopFails, WriteRule, WriteTest, Verify,
                  SaveEvolvedRule, HashRule, HashTest, candVars
    <3>2. candMeta \in [RuleId -> Metadata \union {None}]
      BY DEF ExecutedInv, IInv, TypeOK
    <3>3. /\ r = RuleIdOf[loop[l].pat]
          /\ candMeta'[r].rule = loop[l].rule /\ candMeta'[r].verified = loop[l].ok
          /\ loop[l].pc = "meta"
      BY <2>2, <3>1, <3>2 DEF WriteMetadata
    <3> QED BY <1>2, <1>4, <3>3 DEF Wrote
  <2> QED BY <2>1, <2>2
<1>5. DigestInv'
  BY <1>2, <1>4 DEF ExecutedInv, DigestInv
<1> QED BY <1>1, <1>3, <1>5 DEF ExecutedInv

\* Steps that leave loops, files, metadata and calls alone.
LEMMA Others_ExecutedInv ==
    ASSUME ExecutedInv,
           \/ \E p \in Pattern : Detect(p)
           \/ \E d \in Loader : ReadManifest(d) \/ LoadRule(d) \/ LoaderRestarts(d)
           \/ UNCHANGED vars
    PROVE  ExecutedInv'
<1>1. IInv'
  BY StepIInv DEF ExecutedInv, Next
<1>2. UNCHANGED <<candVars, loop, appr, manifest, validated>>
  BY DEF Detect, ReadManifest, LoadRule, LoaderRestarts, candVars, storeVars, vars
<1> QED BY <1>1, <1>2 DEF ExecutedInv, WroteInv, Wrote, DigestInv, PublishedWasValidated, candVars

\* What a step of an approve call does to the call: it ends or has read nothing
\* yet, reads the metadata, compares the digests, or keeps what it has.
LEMMA CallStep ==
    ASSUME IInv, NEW a \in Approver, Request(a) \/ ApproveStep(a) \/ WriteFails(a) \/ ApproverDies(a)
    PROVE  /\ UNCHANGED <<candVars, loop, validated>>
           /\ \A b \in Approver \ {a} : appr'[b] = appr[b]
           /\ \/ appr'[a].pc \notin HeldPc \ {"metadata"}
              \/ /\ appr'[a].pc = "rule" /\ Eligible(candMeta[appr[a].rid])
                 /\ appr[a].rid \in RuleId
                 /\ appr'[a].rid = appr[a].rid /\ appr'[a].meta = candMeta[appr[a].rid]
              \/ /\ appr[a].pc \in HeldPc \ {"metadata"}
                 /\ appr'[a].rid = appr[a].rid /\ appr'[a].meta = appr[a].meta
                 /\ \/ appr'[a].pc = "test"
                    \/ /\ appr'[a].rule = appr[a].rule
                       /\ appr[a].pc \in Publishing \union {"txn"} \/ appr[a].rule = appr[a].meta.rule
<1>1. appr \in [Approver -> ApproverState] /\ appr[a] \in ApproverState
  BY DEF IInv, TypeOK
<1>2. UNCHANGED <<candVars, loop, validated>>
  BY DEF Request, ApproveStep, WriteFails, ApproverDies, Acquire, ReadMetadata, ReadRule,
         ReadTest, TxnAlreadyPublished, TxnTransition, TxnRepair, TxnRefuse,
         WriteApprovedFile, WriteManifest, Compensate
<1>3. ASSUME NEW outcome, appr' = [appr EXCEPT ![a] = ApprIdle(outcome)]
      PROVE  /\ \A b \in Approver \ {a} : appr'[b] = appr[b]
             /\ appr'[a].pc \notin HeldPc \ {"metadata"}
  BY <1>1, <1>3 DEF ApprIdle, CallAt, HeldPc
<1>4. CASE TxnAlreadyPublished(a) \/ TxnRefuse(a) \/ WriteManifest(a) \/ Compensate(a)
           \/ ApproverDies(a)
  BY <1>2, <1>3, <1>4 DEF TxnAlreadyPublished, TxnRefuse, WriteManifest, Compensate,
                          ApproverDies, Return
<1>5. CASE Request(a) \/ Acquire(a)
  BY <1>1, <1>2, <1>5 DEF Request, Acquire, CallAt, HeldPc, ApproverState
<1>6. CASE ReadMetadata(a)
  <2>1. appr[a].rid \in RuleId
    BY <1>6 DEF ReadMetadata, IInv, ApproverInv, CallInv
  <2> QED BY <1>1, <1>2, <1>3, <1>6, <2>1 DEF ReadMetadata, Return, ApproverState
<1>7. CASE ReadRule(a)
  BY <1>1, <1>2, <1>7 DEF ReadRule, ApproverState, HeldPc
<1>8. CASE ReadTest(a)
  <2>1. CASE Return(a, "rejected")
    BY <1>2, <1>3, <2>1 DEF Return
  <2>2. CASE appr[a].rule = appr[a].meta.rule /\ appr' = [appr EXCEPT ![a].pc = "txn"]
    BY <1>1, <1>2, <1>8, <2>2 DEF ReadTest, ApproverState, HeldPc
  <2> QED BY <1>8, <2>1, <2>2 DEF ReadTest
<1>9. CASE TxnTransition(a) \/ TxnRepair(a)
  BY <1>1, <1>2, <1>9 DEF TxnTransition, TxnRepair, ApproverState, HeldPc, Publishing
<1>10. CASE WriteApprovedFile(a)
  BY <1>1, <1>2, <1>10 DEF WriteApprovedFile, ApproverState, HeldPc, Publishing
<1>11. CASE WriteFails(a)
  <2>1. CASE Return(a, "failed")
    BY <1>2, <1>3, <2>1 DEF Return
  <2>2. CASE appr' = [appr EXCEPT ![a].pc = "undo"]
    BY <1>1, <1>2, <1>11, <2>2 DEF WriteFails, ApproverState, HeldPc, Publishing
  <2> QED BY <1>11, <2>1, <2>2 DEF WriteFails
<1> QED BY <1>4, <1>5, <1>6, <1>7, <1>8, <1>9, <1>10, <1>11 DEF ApproveStep

LEMMA Call_ExecutedInv ==
    ASSUME ExecutedInv, NEW a \in Approver,
           Request(a) \/ ApproveStep(a) \/ WriteFails(a) \/ ApproverDies(a)
    PROVE  ExecutedInv'
<1>1. IInv' /\ IInv
  BY ApproverQuietStepIInv, ApproverWriteStepIInv DEF ExecutedInv, ApproveStep
<1>2. UNCHANGED <<candVars, loop, validated>>
  BY <1>1, CallStep
<1>3. WroteInv'
  BY <1>2 DEF ExecutedInv, WroteInv, Wrote, candVars
<1>4. DigestInv'
  <2>1. ASSUME NEW r \in RuleId, candMeta'[r] # None, candMeta'[r].verified
        PROVE  <<r, candMeta'[r].rule>> \in validated'
    BY <1>2, <2>1 DEF ExecutedInv, DigestInv, candVars
  <2>2. ASSUME NEW b \in Approver \ {a}
        PROVE  /\ appr'[b].pc \in HeldPc \ {"metadata"} =>
                    <<appr'[b].rid, appr'[b].meta.rule>> \in validated'
               /\ appr'[b].pc \in Publishing \union {"txn"} => appr'[b].rule = appr'[b].meta.rule
    BY <1>1, <1>2, CallStep DEF ExecutedInv, DigestInv
  <2>3. /\ appr'[a].pc \in HeldPc \ {"metadata"} =>
             <<appr'[a].rid, appr'[a].meta.rule>> \in validated'
        /\ appr'[a].pc \in Publishing \union {"txn"} => appr'[a].rule = appr'[a].meta.rule
    <3>1. CASE appr'[a].pc \notin HeldPc \ {"metadata"}
      BY <3>1 DEF HeldPc, Publishing
    <3>2. CASE /\ appr'[a].pc = "rule" /\ Eligible(candMeta[appr[a].rid])
               /\ appr[a].rid \in RuleId
               /\ appr'[a].rid = appr[a].rid /\ appr'[a].meta = candMeta[appr[a].rid]
      BY <1>2, <3>2 DEF Eligible, ExecutedInv, DigestInv, Publishing
    <3>3. CASE /\ appr[a].pc \in HeldPc \ {"metadata"}
               /\ appr'[a].rid = appr[a].rid /\ appr'[a].meta = appr[a].meta
               /\ \/ appr'[a].pc = "test"
                  \/ /\ appr'[a].rule = appr[a].rule
                     /\ appr[a].pc \in Publishing \union {"txn"} \/ appr[a].rule = appr[a].meta.rule
      BY <1>2, <3>3 DEF ExecutedInv, DigestInv, Publishing
    <3> QED BY <1>1, <3>1, <3>2, <3>3, CallStep
  <2> QED BY <2>1, <2>2, <2>3 DEF DigestInv
<1>5. PublishedWasValidated'
  <2>1. CASE WriteManifest(a)
    <3>1. /\ appr[a].pc = "manifest" /\ appr[a].rid \in RuleId /\ appr[a].man = manifest
          /\ manifest \in Manifest
      BY <1>1, <2>1 DEF WriteManifest, IInv, ApproverInv, CallInv, Publishing, TypeOK
    <3>2. <<appr[a].rid, appr[a].rule>> \in validated
      BY <3>1 DEF ExecutedInv, DigestInv, HeldPc, Publishing
    <3>3. manifest' = [manifest EXCEPT ![appr[a].rid] =
                         [sha |-> appr[a].rule, pattern |-> appr[a].meta.pattern]]
      BY <2>1, <3>1 DEF WriteManifest
    <3> QED BY <1>2, <3>1, <3>2, <3>3 DEF ExecutedInv, PublishedWasValidated, Manifest
  <2>2. CASE ~WriteManifest(a)
    <3>1. manifest' = manifest
      BY <2>2 DEF Request, ApproveStep, WriteFails, ApproverDies, Acquire, ReadMetadata,
                  ReadRule, ReadTest, TxnAlreadyPublished, TxnTransition, TxnRepair, TxnRefuse,
                  WriteApprovedFile, Compensate, storeVars
    <3> QED BY <1>2, <3>1 DEF ExecutedInv, PublishedWasValidated
  <2> QED BY <2>1, <2>2
<1> QED BY <1>1, <1>3, <1>4, <1>5 DEF ExecutedInv

LEMMA Next_ExecutedInv ==
    ASSUME OneLoop \/ NoSharedIds, ExecutedInv, [Next]_vars
    PROVE  ExecutedInv'
<1>1. ASSUME NEW l \in Loop, BeginCandidate(l) \/ LoopStep(l) \/ LoopFails(l) PROVE ExecutedInv'
  BY <1>1, Loop_ExecutedInv
<1>2. ASSUME NEW a \in Approver,
             Request(a) \/ ApproveStep(a) \/ WriteFails(a) \/ ApproverDies(a)
      PROVE  ExecutedInv'
  BY <1>2, Call_ExecutedInv
<1> QED BY <1>1, <1>2, Others_ExecutedInv DEF Next

\* approve_rule copies the bytes that were executed, if only one process runs
\* the loop or if no two patterns have one rule id.
THEOREM PublishedBytesWereExecuted ==
    ASSUME OneLoop \/ NoSharedIds
    PROVE  Spec => []PublishedWasValidated
<1>1. ExecutedInv /\ [Next]_vars => ExecutedInv'
  BY Next_ExecutedInv
<1>2. ExecutedInv => PublishedWasValidated
  BY DEF ExecutedInv
<1> QED BY <1>1, <1>2, Init_ExecutedInv, PTL DEF Spec

-----------------------------------------------------------------------------
(***************************************************************************)
(* What is left of a call whose approver died.  The artifacts of a pattern *)
(* agree with its rows if one loop wrote them all and no other wrote there *)
(* since, and a loop that is writing alone is on the way to that.          *)
(***************************************************************************)
\* What a loop will record: a score of its own, or none.
Graded(c) ==
    /\ c.pc \in {"rule", "test", "verify"} => ~c.ok /\ c.score \in Score
    /\ c.pc \in {"save", "hashRule", "hashTest", "meta"} =>
         IF c.ok THEN c.score \in Score ELSE c.score = 0
GradedInv == \A l \in Loop : Graded(loop[l])

\* What a loop has written is there, and after _save_evolved_rule the row holds its
\* score.
Own(c) ==
    LET r == RuleIdOf[c.pat] IN
    /\ c.pc \notin {"idle", "rule"} /\ candRule[r] = c.pat
    /\ c.pc # "test" => candTest[r] = c.pat
    /\ c.pc \in {"hashTest", "meta"} => c.rule = c.pat
    /\ c.pc = "meta" => c.test = c.pat
    /\ c.pc \in {"hashRule", "hashTest", "meta"} => row[c.pat].score = c.score
OwnInv == \A l \in alone : Own(loop[l])

\* A row that may be or was approved holds a verified score, and candidate.json
\* the verdict that follows from its own.
ScoreInv ==
    /\ \A p \in Pattern : row[p].status \in {"pr-ready", "approved"} => row[p].score \in Score
    /\ \A r \in RuleId : candMeta[r] # None =>
         /\ candMeta[r].status = EvolveDecision(candMeta[r].score)
         /\ candMeta[r].verified \/ candMeta[r].score = 0

\* The last catalog row of a pattern says what its row says.
LastAgrees(p) == catalog[p] # <<>> /\ Latest(p) = row[p]
CatalogInv == \A p \in Pattern : row[p].status \notin {"absent", "pending"} => LastAgrees(p)

Described(p) ==
    LET r == RuleIdOf[p]
        m == candMeta[r]
    IN /\ m # None /\ m.pattern = p /\ m.score = row[p].score
       /\ m.rule = p /\ candRule[r] = p /\ m.test = p /\ candTest[r] = p
DescribedInv == \A p \in whole : Described(p)

ResidueInv == IInv /\ GradedInv /\ OwnInv /\ ScoreInv /\ CatalogInv /\ DescribedInv

LEMMA Init_ResidueInv == Init => ResidueInv
<1> SUFFICES ASSUME Init PROVE ResidueInv
  OBVIOUS
<1>1. GradedInv /\ OwnInv /\ ScoreInv /\ CatalogInv /\ DescribedInv
  BY DEF Init, GradedInv, Graded, OwnInv, ScoreInv, CatalogInv, DescribedInv, LoopIdle, LoopAt
<1> QED BY <1>1, InitIInv DEF ResidueInv

LEMMA InvMeansRepair == ResidueInv => RetryCanRepair
<1> SUFFICES ASSUME ResidueInv, NEW p \in whole, row[p].status = "approved"
             PROVE  LET r == RuleIdOf[p]
                        m == candMeta[r]
                    IN /\ Eligible(m) /\ m.pattern = p
                       /\ candRule[r] = m.rule /\ candTest[r] = m.test
                       /\ RowsAre(p, "approved")
                       /\ Provenance([meta |-> m, rule |-> candRule[r]])
  BY DEF RetryCanRepair
<1>1. Described(p) /\ p \in Pattern /\ RuleIdOf[p] \in RuleId
  BY RuleIdOfAssumption DEF ResidueInv, DescribedInv, IInv, TypeOK
<1>2. row[p].score \in Score /\ row[p].score \in 70..100
  BY <1>1, ScoreAssumption DEF ResidueInv, ScoreInv
<1>3. Eligible(candMeta[RuleIdOf[p]])
  BY <1>1, <1>2 DEF ResidueInv, ScoreInv, Described, Eligible, EvolveDecision
<1>4. LastAgrees(p)
  BY <1>1 DEF ResidueInv, CatalogInv
<1> QED BY <1>1, <1>3, <1>4 DEF Described, LastAgrees, RowsAre, Provenance

\* A step that keeps the files, the metadata and the scores of the rows.
LEMMA Kept_ResidueInv ==
    ASSUME ResidueInv, IInv', CatalogInv', UNCHANGED <<candVars, loop, alone, whole>>,
           \A p \in Pattern :
              /\ row'[p].score = row[p].score
              /\ row'[p].status \in {"pr-ready", "approved"} =>
                   row[p].status \in {"pr-ready", "approved"}
    PROVE  ResidueInv'
<1>1. whole \subseteq Pattern /\ alone \subseteq Loop
      /\ \A l \in Loop : loop[l].pc # "idle" => loop[l].pat \in Pattern
  BY DEF ResidueInv, IInv, TypeOK
<1>2. GradedInv'
  BY DEF ResidueInv, GradedInv, Graded
<1>3. OwnInv'
  BY <1>1 DEF ResidueInv, OwnInv, Own, candVars
<1>4. ScoreInv'
  BY DEF ResidueInv, ScoreInv, candVars
<1>5. DescribedInv'
  BY <1>1 DEF ResidueInv, DescribedInv, Described, candVars
<1> QED BY <1>2, <1>3, <1>4, <1>5 DEF ResidueInv

\* A new status in a row and in the last catalog row.
LEMMA LastOfUpdated ==
    ASSUME NEW s \in Seq(CatalogRow), s # <<>>, NEW st \in Status
    PROVE  LET t == [s EXCEPT ![Len(s)].status = st]
           IN t # <<>> /\ t[Len(t)] = [s[Len(s)] EXCEPT !.status = st]
<1>1. Len(s) \in 1..Len(s) /\ s[Len(s)] \in CatalogRow
  OBVIOUS
<1>2. [s EXCEPT ![Len(s)].status = st]
        = [s EXCEPT ![Len(s)] = [s[Len(s)] EXCEPT !.status = st]]
  OBVIOUS
<1> QED BY <1>1, <1>2

\* SetRows changes a row and its last catalog row alike.
LEMMA SetRowsKeepsCatalog ==
    ASSUME CatalogInv, row \in [Pattern -> CatalogRow],
           catalog \in [Pattern -> Seq(CatalogRow)],
           NEW q \in Pattern, NEW st \in Status, LastAgrees(q), SetRows(q, st)
    PROVE  /\ CatalogInv'
           /\ \A p \in Pattern : /\ row'[p].score = row[p].score
                                 /\ p # q => row'[p] = row[p]
<1>1. /\ row' = [row EXCEPT ![q].status = st]
      /\ catalog' = [catalog EXCEPT ![q] = [@ EXCEPT ![Len(@)].status = st]]
  BY DEF SetRows
<1>2. \A p \in Pattern \ {q} : row'[p] = row[p] /\ catalog'[p] = catalog[p]
  BY <1>1
<1>3. row'[q] = [row[q] EXCEPT !.status = st]
  BY <1>1
<1>4. row[q] \in CatalogRow
  OBVIOUS
<1>5. row'[q].score = row[q].score
  BY <1>3, <1>4 DEF CatalogRow
<1>6. catalog'[q] # <<>> /\ catalog'[q][Len(catalog'[q])] = row'[q]
  <2>1. catalog'[q] = [catalog[q] EXCEPT ![Len(catalog[q])].status = st]
    BY <1>1
  <2>2. catalog[q] \in Seq(CatalogRow) /\ catalog[q] # <<>> /\ catalog[q][Len(catalog[q])] = row[q]
    BY DEF LastAgrees, Latest
  <2> QED BY <1>3, <2>1, <2>2, LastOfUpdated
<1>7. ASSUME NEW p \in Pattern, row'[p].status \notin {"absent", "pending"}
      PROVE  LastAgrees(p)'
  <2>1. CASE p = q
    BY <1>6, <2>1 DEF LastAgrees, Latest
  <2>2. CASE p # q
    BY <1>2, <1>7, <2>2 DEF CatalogInv, LastAgrees, Latest
  <2> QED BY <2>1, <2>2
<1>8. CatalogInv'
  BY <1>7 DEF CatalogInv
<1> QED BY <1>2, <1>5, <1>8

\* Approve calls move rows between pr-ready and approved, and no more.
LEMMA Call_ResidueInv ==
    ASSUME ResidueInv, NEW a \in Approver,
           Request(a) \/ ApproveStep(a) \/ WriteFails(a) \/ ApproverDies(a)
    PROVE  ResidueInv'
<1>1. IInv' /\ IInv
  BY StepIInv DEF ResidueInv, Next
<1>2. UNCHANGED <<candVars, loop, alone, whole>>
  BY DEF Request, ApproveStep, WriteFails, ApproverDies, Acquire, ReadMetadata, ReadRule,
         ReadTest, TxnAlreadyPublished, TxnTransition, TxnRepair, TxnRefuse,
         WriteApprovedFile, WriteManifest, Compensate
<1>3. row \in [Pattern -> CatalogRow] /\ catalog \in [Pattern -> Seq(CatalogRow)]
  BY <1>1 DEF IInv, TypeOK
<1> DEFINE q == appr[a].meta.pattern
<1>4. ASSUME NEW after \in {"pr-ready", "approved"}, SetRows(q, after),
             q \in Pattern, row[q].status \in {"pr-ready", "approved"}, LastAgrees(q)
      PROVE  ResidueInv'
  <2> HIDE DEF q
  <2>1. /\ CatalogInv'
        /\ \A p \in Pattern : /\ row'[p].score = row[p].score
                              /\ p # q => row'[p] = row[p]
    BY <1>3, <1>4, SetRowsKeepsCatalog DEF ResidueInv, Status
  <2> QED BY <1>1, <1>2, <1>4, <2>1, Kept_ResidueInv
<1>5. ASSUME UNCHANGED <<row, catalog>> PROVE ResidueInv'
  <2>1. CatalogInv'
    BY <1>5 DEF ResidueInv, CatalogInv, LastAgrees, Latest
  <2> QED BY <1>1, <1>2, <1>5, <2>1, Kept_ResidueInv
<1>6. appr[a].pc \in Publishing \union {"txn"} => q \in Pattern
  BY <1>1 DEF IInv, ApproverInv, CallInv, HeldPc, Publishing, Metadata
<1>7. CASE TxnTransition(a)
  <2>1. q \in Pattern /\ row[q].status = "pr-ready" /\ SetRows(q, "approved")
    BY <1>6, <1>7 DEF TxnTransition, RowsAre
  <2> HIDE DEF q
  <2>2. LastAgrees(q)
    BY <2>1 DEF ResidueInv, CatalogInv
  <2> QED BY <1>4, <2>1, <2>2
<1>8. CASE Compensate(a)
  <2>1. q \in Pattern /\ catalog[q] # <<>>
    BY <1>1, <1>6, <1>8 DEF Compensate, Publishing, IInv, ApproverInv, CallInv
  <2>2. /\ row' = IF row[q].status = "approved"
                    THEN [row EXCEPT ![q].status = "pr-ready"] ELSE row
        /\ catalog' = IF Latest(q).status = "approved"
                        THEN [catalog EXCEPT ![q] = [@ EXCEPT ![Len(@)].status = "pr-ready"]]
                        ELSE catalog
    BY <1>8 DEF Compensate
  <2>3. CASE row[q].status = "approved"
    <3>1. LastAgrees(q)
      BY <2>1, <2>3 DEF ResidueInv, CatalogInv
    <3>2. SetRows(q, "pr-ready")
      BY <2>2, <2>3, <3>1 DEF SetRows, LastAgrees
    <3> QED BY <1>4, <2>1, <2>3, <3>1, <3>2
  <2>4. CASE row[q].status \notin {"absent", "pending", "approved"}
    <3>1. LastAgrees(q)
      BY <2>1, <2>4 DEF ResidueInv, CatalogInv
    <3>2. UNCHANGED <<row, catalog>>
      BY <2>2, <2>4, <3>1 DEF LastAgrees
    <3> QED BY <1>5, <3>2
  <2>5. CASE row[q].status \in {"absent", "pending"}
    <3>1. row' = row /\ \A p \in Pattern \ {q} : catalog'[p] = catalog[p]
      BY <1>3, <2>1, <2>2, <2>5
    <3>2. CatalogInv'
      BY <2>1, <2>5, <3>1 DEF ResidueInv, CatalogInv, LastAgrees, Latest
    <3> QED BY <1>1, <1>2, <3>1, <3>2, Kept_ResidueInv
  <2> QED BY <2>3, <2>4, <2>5
<1>9. CASE ~TxnTransition(a) /\ ~Compensate(a)
  <2>1. UNCHANGED <<row, catalog>>
    BY <1>9 DEF Request, ApproveStep, WriteFails, ApproverDies, Acquire, ReadMetadata,
                ReadRule, ReadTest, TxnAlreadyPublished, TxnRepair, TxnRefuse,
                WriteApprovedFile, WriteManifest, dbVars
  <2> QED BY <1>5, <2>1
<1> QED BY <1>7, <1>8, <1>9

LEMMA Others_ResidueInv ==
    ASSUME ResidueInv,
           \/ \E p \in Pattern : Detect(p)
           \/ \E d \in Loader : ReadManifest(d) \/ LoadRule(d) \/ LoaderRestarts(d)
           \/ UNCHANGED vars
    PROVE  ResidueInv'
<1>1. IInv' /\ row \in [Pattern -> CatalogRow]
  BY StepIInv DEF ResidueInv, IInv, TypeOK, Next
<1>2. UNCHANGED <<candVars, loop, alone, whole, catalog>>
  BY DEF Detect, ReadManifest, LoadRule, LoaderRestarts, candVars, vars, dbVars
<1>3. \/ row' = row
      \/ \E p \in Pattern : row[p].status = "absent" /\ row' = [row EXCEPT ![p].status = "pending"]
  BY DEF Detect, ReadManifest, LoadRule, LoaderRestarts, dbVars, vars
<1>4. ASSUME NEW p \in Pattern
      PROVE  /\ row'[p].score = row[p].score
             /\ row'[p].status \notin {"absent", "pending"} => row'[p] = row[p]
  BY <1>1, <1>3 DEF CatalogRow
<1>5. CatalogInv'
  BY <1>2, <1>4 DEF ResidueInv, CatalogInv, LastAgrees, Latest
<1>6. \A p \in Pattern : row'[p].status \in {"pr-ready", "approved"} =>
                           row[p].status \in {"pr-ready", "approved"}
  BY <1>4
<1> QED BY <1>1, <1>2, <1>4, <1>5, <1>6, Kept_ResidueInv

\* A step of a loop by which nobody else's files, metadata or row change.
Untouched(p) ==
    LET r == RuleIdOf[p] IN
    /\ candRule'[r] = candRule[r] /\ candTest'[r] = candTest[r]
    /\ candMeta'[r] = candMeta[r] /\ row'[p] = row[p]
Writes(l) == WriteRule(l) \/ WriteTest(l) \/ SaveEvolvedRule(l) \/ WriteMetadata(l)

LEMMA ElsewhereUntouched ==
    ASSUME IInv, NEW l \in Loop, BeginCandidate(l) \/ LoopStep(l) \/ LoopFails(l),
           NEW p \in Pattern, Writes(l) => RuleIdOf[p] # RuleIdOf[loop[l].pat]
    PROVE  Untouched(p)
<1>1. /\ candRule \in [RuleId -> Bytes] /\ candTest \in [RuleId -> Bytes]
      /\ candMeta \in [RuleId -> Metadata \union {None}] /\ row \in [Pattern -> CatalogRow]
      /\ RuleIdOf \in [Pattern -> RuleId]
  BY RuleIdOfAssumption DEF IInv, TypeOK
<1>2. CASE WriteRule(l)
  BY <1>1, <1>2 DEF Writes, WriteRule, Untouched, dbVars
<1>3. CASE WriteTest(l)
  BY <1>1, <1>3 DEF Writes, WriteTest, Untouched, dbVars
<1>4. CASE SaveEvolvedRule(l)
  <2>1. p # loop[l].pat /\ candRule' = candRule /\ candTest' = candTest /\ candMeta' = candMeta
    BY <1>4 DEF Writes, SaveEvolvedRule, candVars
  <2>2. row'[p] = row[p]
    BY <1>1, <1>4, <2>1 DEF SaveEvolvedRule
  <2> QED BY <2>1, <2>2 DEF Untouched
<1>5. CASE WriteMetadata(l)
  BY <1>1, <1>5 DEF Writes, WriteMetadata, Untouched, dbVars
<1>6. CASE ~Writes(l)
  <2>1. UNCHANGED <<candRule, candTest, candMeta, row>>
    BY <1>6 DEF Writes, BeginCandidate, LoopStep, LoopFails, Verify, HashRule, HashTest,
                candVars, dbVars
  <2> QED BY <2>1 DEF Untouched
<1> QED BY <1>2, <1>3, <1>4, <1>5, <1>6 DEF Writes

\* The histories keep only what the step leaves untouched, but for the candidate the
\* step itself completes.
LEMMA HistoriesUntouched ==
    ASSUME IInv, OwnInv, NEW l \in Loop, BeginCandidate(l) \/ LoopStep(l) \/ LoopFails(l)
    PROVE  /\ \A m \in Loop \ {l} : loop'[m] = loop[m]
           /\ \A m \in alone' \ {l} : m \in alone /\ Untouched(loop[m].pat)
           /\ \A p \in whole' : \/ p \in whole /\ Untouched(p)
                                \/ WriteMetadata(l) /\ l \in alone /\ p = loop[l].pat
<1>1. /\ loop \in [Loop -> LoopState] /\ alone \subseteq Loop /\ whole \subseteq Pattern
      /\ \A m \in alone : loop[m].pat \in Pattern
  BY DEF IInv, TypeOK, OwnInv, Own
<1>2. \A m \in Loop \ {l} : loop'[m] = loop[m]
  BY <1>1 DEF BeginCandidate, LoopStep, LoopFails, WriteRule, WriteTest, Verify,
              SaveEvolvedRule, HashRule, HashTest, WriteMetadata
<1>3. CASE Writes(l)
  <2>1. alone' \ {l} \subseteq OthersAlone(l)
    BY <1>3 DEF Writes, WriteRule, WriteTest, SaveEvolvedRule, WriteMetadata, OthersAlone
  <2>2. \A p \in whole' : \/ p \in OthersWhole(l)
                          \/ WriteMetadata(l) /\ l \in alone /\ p = loop[l].pat
    BY <1>3 DEF Writes, WriteRule, WriteTest, SaveEvolvedRule, WriteMetadata
  <2>3. ASSUME NEW m \in OthersAlone(l) PROVE m \in alone /\ Untouched(loop[m].pat)
    BY <1>1, <2>3, ElsewhereUntouched DEF OthersAlone
  <2>4. ASSUME NEW p \in OthersWhole(l) PROVE p \in whole /\ Untouched(p)
    BY <1>1, <2>4, ElsewhereUntouched DEF OthersWhole
  <2> QED BY <1>2, <2>1, <2>2, <2>3, <2>4
<1>4. CASE ~Writes(l)
  <2>1. alone' \subseteq alone /\ whole' = whole
    BY <1>4 DEF Writes, BeginCandidate, LoopStep, LoopFails, Verify, HashRule, HashTest
  <2> QED BY <1>1, <1>2, <1>4, <2>1, ElsewhereUntouched
<1> QED BY <1>3, <1>4

\* What each step of a loop does to its own state, the files it writes and its row.
LEMMA LoopStep_Own ==
    ASSUME IInv, NEW l \in Loop, Graded(loop[l]), l \in alone => Own(loop[l]),
           BeginCandidate(l) \/ LoopStep(l) \/ LoopFails(l)
    PROVE  Graded(loop[l])' /\ (l \in alone' => Own(loop[l])')
<1>1. /\ loop \in [Loop -> LoopState] /\ candTest \in [RuleId -> Bytes]
      /\ candRule \in [RuleId -> Bytes] /\ row \in [Pattern -> CatalogRow]
      /\ loop[l] \in LoopState /\ (loop[l].pc # "idle" => loop[l].pat \in Pattern)
      /\ RuleIdOf \in [Pattern -> RuleId]
  BY RuleIdOfAssumption DEF IInv, TypeOK
<1>2. CASE BeginCandidate(l)
  <2>1. PICK p \in Pattern, s \in Score : loop' = [loop EXCEPT ![l] = LoopAt("rule", p, s)]
    BY <1>2 DEF BeginCandidate
  <2>2. alone' = alone /\ loop[l].pc = "idle"
    BY <1>2 DEF BeginCandidate
  <2> QED BY <1>1, <2>1, <2>2 DEF Graded, Own, LoopAt
<1>3. CASE LoopFails(l) \/ WriteMetadata(l)
  <2>1. l \notin alone' /\ loop' = [loop EXCEPT ![l] = LoopIdle]
    BY <1>3 DEF LoopFails, WriteMetadata, OthersAlone
  <2> QED BY <1>1, <2>1 DEF Graded, LoopAt, LoopIdle
<1>4. CASE WriteRule(l)
  <2>1. /\ loop[l].pc = "rule" /\ loop'[l].pc = "test" /\ loop'[l].pat = loop[l].pat
        /\ loop'[l].ok = loop[l].ok /\ loop'[l].score = loop[l].score
        /\ candRule'[RuleIdOf[loop[l].pat]] = loop[l].pat
    BY <1>1, <1>4 DEF WriteRule, LoopState
  <2> QED BY <2>1 DEF Graded, Own
<1>5. CASE WriteTest(l)
  <2>1. /\ loop[l].pc = "test" /\ loop'[l].pc = "verify" /\ loop'[l].pat = loop[l].pat
        /\ loop'[l].ok = loop[l].ok /\ loop'[l].score = loop[l].score
        /\ candTest'[RuleIdOf[loop[l].pat]] = loop[l].pat /\ candRule' = candRule
        /\ l \in alone' => l \in alone
    BY <1>1, <1>5 DEF WriteTest, LoopState, OthersAlone
  <2> QED BY <2>1 DEF Graded, Own
<1>6. CASE Verify(l)
  <2>1. /\ candTest' = candTest /\ candRule' = candRule /\ alone' = alone
        /\ loop[l].pc = "verify" /\ loop'[l].pc = "save" /\ loop'[l].pat = loop[l].pat
        /\ \/ loop'[l].ok /\ loop'[l].score = loop[l].score
           \/ loop'[l].ok = loop[l].ok /\ loop'[l].score = 0
    BY <1>1, <1>6 DEF Verify, LoopState, candVars
  <2> QED BY <2>1 DEF Graded, Own
<1>7. CASE SaveEvolvedRule(l)
  <2>1. /\ candTest' = candTest /\ candRule' = candRule /\ loop[l].pc = "save"
        /\ loop'[l].pc = "hashRule" /\ loop'[l].pat = loop[l].pat
        /\ loop'[l].ok = loop[l].ok /\ loop'[l].score = loop[l].score
        /\ l \in alone' => l \in alone
    BY <1>1, <1>7 DEF SaveEvolvedRule, LoopState, candVars, OthersAlone
  <2>2. row'[loop[l].pat].score = loop[l].score
    BY <1>1, <1>7, <2>1 DEF SaveEvolvedRule
  <2> QED BY <2>1, <2>2 DEF Graded, Own
<1>8. CASE HashRule(l)
  <2>1. /\ candTest' = candTest /\ candRule' = candRule /\ row' = row /\ alone' = alone
        /\ loop[l].pc = "hashRule" /\ loop'[l].pc = "hashTest"
        /\ loop'[l].pat = loop[l].pat /\ loop'[l].ok = loop[l].ok
        /\ loop'[l].score = loop[l].score
        /\ loop'[l].rule = candRule[RuleIdOf[loop[l].pat]]
    BY <1>1, <1>8 DEF HashRule, LoopState, candVars, dbVars
  <2> QED BY <2>1 DEF Graded, Own
<1>9. CASE HashTest(l)
  <2>1. /\ candTest' = candTest /\ candRule' = candRule /\ row' = row /\ alone' = alone
        /\ loop[l].pc = "hashTest" /\ loop'[l].pc = "meta"
        /\ loop'[l].pat = loop[l].pat /\ loop'[l].ok = loop[l].ok
        /\ loop'[l].score = loop[l].score /\ loop'[l].rule = loop[l].rule
        /\ loop'[l].test = candTest[RuleIdOf[loop[l].pat]]
    BY <1>1, <1>9 DEF HashTest, LoopState, candVars, dbVars
  <2> QED BY <2>1 DEF Graded, Own
<1> QED BY <1>2, <1>3, <1>4, <1>5, <1>6, <1>7, <1>8, <1>9 DEF LoopStep

LEMMA Loop_OwnInv ==
    ASSUME ResidueInv, NEW l \in Loop, BeginCandidate(l) \/ LoopStep(l) \/ LoopFails(l)
    PROVE  GradedInv' /\ OwnInv'
<1>1. Graded(loop[l])' /\ (l \in alone' => Own(loop[l])')
  BY LoopStep_Own DEF ResidueInv, GradedInv, OwnInv
<1>2. /\ \A m \in Loop \ {l} : loop'[m] = loop[m]
      /\ \A m \in alone' \ {l} : m \in alone /\ Untouched(loop[m].pat)
      /\ alone \subseteq Loop
  BY HistoriesUntouched DEF ResidueInv, IInv, TypeOK
<1>3. GradedInv'
  BY <1>1, <1>2 DEF ResidueInv, GradedInv, Graded
<1>4. ASSUME NEW m \in alone' \ {l} PROVE Own(loop[m])'
  <2>1. loop'[m] = loop[m] /\ Own(loop[m]) /\ Untouched(loop[m].pat)
    BY <1>2, <1>4 DEF ResidueInv, OwnInv
  <2> QED BY <2>1 DEF Own, Untouched
<1> QED BY <1>1, <1>3, <1>4 DEF OwnInv

\* Only _save_evolved_rule and candidate.json record a score, and it is the loop's.
LEMMA Loop_ScoreInv ==
    ASSUME ResidueInv, NEW l \in Loop, BeginCandidate(l) \/ LoopStep(l) \/ LoopFails(l)
    PROVE  ScoreInv'
<1>1. /\ row \in [Pattern -> CatalogRow] /\ candMeta \in [RuleId -> Metadata \union {None}]
      /\ Graded(loop[l]) /\ (loop[l].pc # "idle" => loop[l].pat \in Pattern)
      /\ ScoreInv
  BY DEF ResidueInv, GradedInv, IInv, TypeOK
<1>2. CASE SaveEvolvedRule(l)
  <2>1. candMeta' = candMeta /\ loop[l].pc = "save"
    BY <1>2 DEF SaveEvolvedRule, candVars
  <2>2. ASSUME NEW p \in Pattern, row'[p].status \in {"pr-ready", "approved"}
        PROVE  row'[p].score \in Score
    <3>1. CASE p = loop[l].pat
      <4>1. row'[p] = [status |-> EvolveDecision(loop[l].score), score |-> loop[l].score]
        BY <1>1, <1>2, <3>1 DEF SaveEvolvedRule
      <4>2. loop[l].score # 0
        BY <2>2, <4>1 DEF EvolveDecision
      <4> QED BY <1>1, <2>1, <4>1, <4>2 DEF Graded
    <3>2. CASE p # loop[l].pat
      <4>1. row'[p] = row[p]
        BY <1>1, <1>2, <3>2 DEF SaveEvolvedRule
      <4> QED BY <1>1, <2>2, <4>1 DEF ScoreInv
    <3> QED BY <3>1, <3>2
  <2> QED BY <1>1, <2>1, <2>2 DEF ScoreInv
<1>3. CASE WriteMetadata(l)
  <2>1. row' = row /\ loop[l].pc = "meta"
    BY <1>3 DEF WriteMetadata, dbVars
  <2>2. ASSUME NEW r \in RuleId, candMeta'[r] # None
        PROVE  /\ candMeta'[r].status = EvolveDecision(candMeta'[r].score)
               /\ candMeta'[r].verified \/ candMeta'[r].score = 0
    <3>1. CASE r = RuleIdOf[loop[l].pat]
      <4>1. /\ candMeta'[r].score = loop[l].score /\ candMeta'[r].verified = loop[l].ok
            /\ candMeta'[r].status = EvolveDecision(loop[l].score)
        BY <1>1, <1>3, <3>1 DEF WriteMetadata
      <4> QED BY <1>1, <2>1, <4>1 DEF Graded
    <3>2. CASE r # RuleIdOf[loop[l].pat]
      <4>1. candMeta'[r] = candMeta[r]
        BY <1>1, <1>3, <3>2 DEF WriteMetadata
      <4> QED BY <1>1, <2>2, <4>1 DEF ScoreInv
    <3> QED BY <3>1, <3>2
  <2> QED BY <1>1, <2>1, <2>2 DEF ScoreInv
<1>4. CASE ~SaveEvolvedRule(l) /\ ~WriteMetadata(l)
  <2>1. UNCHANGED <<row, candMeta>>
    BY <1>4 DEF BeginCandidate, LoopStep, LoopFails, WriteRule, WriteTest, Verify,
                HashRule, HashTest, dbVars, candVars
  <2> QED BY <1>1, <2>1 DEF ScoreInv
<1> QED BY <1>2, <1>3, <1>4

LEMMA Loop_CatalogInv ==
    ASSUME ResidueInv, NEW l \in Loop, BeginCandidate(l) \/ LoopStep(l) \/ LoopFails(l)
    PROVE  CatalogInv'
<1>1. /\ row \in [Pattern -> CatalogRow] /\ catalog \in [Pattern -> Seq(CatalogRow)]
      /\ CatalogInv
  BY DEF ResidueInv, IInv, TypeOK
<1>2. CASE SaveEvolvedRule(l)
  <2> DEFINE saved == [status |-> EvolveDecision(loop[l].score), score |-> loop[l].score]
  <2>1. /\ row' = [row EXCEPT ![loop[l].pat] = saved]
        /\ catalog' = [catalog EXCEPT ![loop[l].pat] = Append(catalog[loop[l].pat], saved)]
    BY <1>2 DEF SaveEvolvedRule
  <2> HIDE DEF saved
  <2>2. ASSUME NEW p \in Pattern, p = loop[l].pat PROVE LastAgrees(p)'
    <3>1. row'[p] = saved /\ catalog'[p] = Append(catalog[p], saved)
      BY <1>1, <2>1, <2>2
    <3>2. catalog[p] \in Seq(CatalogRow) /\ saved \in CatalogRow
      <4>1. row' \in [Pattern -> CatalogRow]
        BY LoopStepIInv DEF ResidueInv, IInv, TypeOK
      <4> QED BY <1>1, <3>1, <4>1
    <3>3. catalog'[p] # <<>> /\ catalog'[p][Len(catalog'[p])] = saved
      BY <3>1, <3>2
    <3> QED BY <3>1, <3>3 DEF LastAgrees, Latest
  <2>3. ASSUME NEW p \in Pattern, p # loop[l].pat PROVE row'[p] = row[p] /\ catalog'[p] = catalog[p]
    BY <1>1, <2>1, <2>3
  <2> QED BY <1>1, <2>2, <2>3 DEF CatalogInv, LastAgrees, Latest
<1>3. CASE ~SaveEvolvedRule(l)
  <2>1. UNCHANGED <<row, catalog>>
    BY <1>3 DEF BeginCandidate, LoopStep, LoopFails, WriteRule, WriteTest, Verify,
                HashRule, HashTest, WriteMetadata, dbVars
  <2> QED BY <1>1, <2>1 DEF CatalogInv, LastAgrees, Latest
<1> QED BY <1>2, <1>3

\* A candidate stays whole until a loop writes there, and a loop that wrote all of it
\* alone leaves it whole.
LEMMA Loop_DescribedInv ==
    ASSUME ResidueInv, NEW l \in Loop, BeginCandidate(l) \/ LoopStep(l) \/ LoopFails(l),
           NEW p \in whole'
    PROVE  Described(p)'
<1>1. \/ p \in whole /\ Untouched(p)
      \/ WriteMetadata(l) /\ l \in alone /\ p = loop[l].pat
  BY HistoriesUntouched DEF ResidueInv
<1>2. CASE p \in whole /\ Untouched(p)
  BY <1>2 DEF ResidueInv, DescribedInv, Described, Untouched
<1>3. CASE WriteMetadata(l) /\ l \in alone /\ p = loop[l].pat
  <2>1. /\ loop[l] \in LoopState /\ p \in Pattern /\ RuleIdOf[p] \in RuleId
        /\ candMeta \in [RuleId -> Metadata \union {None}] /\ Own(loop[l])
        /\ loop[l].pc = "meta"
    BY <1>3, RuleIdOfAssumption DEF ResidueInv, OwnInv, IInv, TypeOK, WriteMetadata
  <2>2. /\ UNCHANGED <<candRule, candTest, row>>
        /\ candMeta'[RuleIdOf[p]] =
             [pattern |-> p, score |-> loop[l].score, verified |-> loop[l].ok,
              status |-> EvolveDecision(loop[l].score),
              rule |-> loop[l].rule, test |-> loop[l].test]
    BY <1>3, <2>1 DEF WriteMetadata, dbVars
  <2>3. /\ loop[l].rule = p /\ loop[l].test = p /\ row[p].score = loop[l].score
        /\ candRule[RuleIdOf[p]] = p /\ candTest[RuleIdOf[p]] = p
    BY <1>3, <2>1 DEF Own
  <2>4. candMeta'[RuleIdOf[p]] # None
    <3>1. loop[l].score \in Score \union {0} /\ loop[l].ok \in BOOLEAN
      BY <2>1 DEF LoopState
    <3>2. candMeta'[RuleIdOf[p]] \in Metadata
      BY <2>1, <2>2, <2>3, <3>1, DecisionType DEF Metadata
    <3> QED BY <3>2, NoneAssumption
  <2> QED BY <2>2, <2>3, <2>4 DEF Described
<1> QED BY <1>1, <1>2, <1>3

LEMMA Next_ResidueInv == ResidueInv /\ [Next]_vars => ResidueInv'
<1> SUFFICES ASSUME ResidueInv, [Next]_vars PROVE ResidueInv'
  OBVIOUS
<1>1. ASSUME NEW l \in Loop, BeginCandidate(l) \/ LoopStep(l) \/ LoopFails(l) PROVE ResidueInv'
  <2>1. IInv' /\ GradedInv' /\ OwnInv' /\ ScoreInv' /\ CatalogInv'
    BY <1>1, LoopStepIInv, Loop_OwnInv, Loop_ScoreInv, Loop_CatalogInv DEF ResidueInv
  <2>2. DescribedInv'
    BY <1>1, Loop_DescribedInv DEF DescribedInv
  <2> QED BY <2>1, <2>2 DEF ResidueInv
<1>2. ASSUME NEW a \in Approver,
             Request(a) \/ ApproveStep(a) \/ WriteFails(a) \/ ApproverDies(a)
      PROVE  ResidueInv'
  BY <1>2, Call_ResidueInv
<1> QED BY <1>1, <1>2, Others_ResidueInv DEF Next

\* Whatever loops, approvers and loaders did before, and whatever failed or died: if the
\* database is approved and nothing is published, calling approve_rule again finds a
\* candidate it accepts.  It is so of every candidate some loop wrote from begin to end
\* with no other loop writing there since it began; of candidates that two gate processes
\* wrote into each other, or that a dying one left half-written, the code promises
\* nothing, and neither does this theorem.
THEOREM ResidueCanBeRepaired == Spec => []RetryCanRepair
<1> QED BY Init_ResidueInv, Next_ResidueInv, InvMeansRepair, PTL DEF Spec

=============================================================================
