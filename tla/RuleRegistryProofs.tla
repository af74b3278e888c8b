------------------------- MODULE RuleRegistryProofs -------------------------
(***************************************************************************)
(* Proofs about RuleRegistry, for any sets of types, modules and threads.  *)
(***************************************************************************)
EXTENDS RuleRegistry, SequenceTheorems, TLAPS

-----------------------------------------------------------------------------
(* Bucket lemmas                                                           *)

\* A bucket is a prefix of another when they agree wherever the first has an
\* element.
LEMMA PrefixIsAgreement ==
    ASSUME NEW b \in Seq(Func), NEW c \in Seq(Func)
    PROVE  IsPrefix(b, c) <=> /\ Len(b) <= Len(c)
                              /\ \A i \in 1..Len(b) : b[i] = c[i]
<1>1. SubSeq(b, 1, Len(b)) = b
  BY SubSeqFull
<1>2. ASSUME Len(b) <= Len(c)
      PROVE  b = SubSeq(c, 1, Len(b)) <=> \A i \in 1..Len(b) : b[i] = c[i]
  <2>1. \A i \in 1..Len(b) : c[i] \in Func
    BY <1>2
  <2>2. /\ SubSeq(c, 1, Len(b)) \in Seq(Func)
        /\ Len(SubSeq(c, 1, Len(b))) = Len(b)
        /\ \A i \in 1..Len(b) : SubSeq(c, 1, Len(b))[i] = c[i]
    <3>1. /\ SubSeq(c, 1, Len(b)) \in Seq(Func)
          /\ Len(SubSeq(c, 1, Len(b))) = IF 1 <= Len(b) THEN Len(b) - 1 + 1 ELSE 0
          /\ \A i \in 1..(Len(b) - 1 + 1) : SubSeq(c, 1, Len(b))[i] = c[1 + i - 1]
      BY <2>1, SubSeqProperties
    <3> QED BY <3>1
  <2>3. ASSUME \A i \in 1..Len(b) : b[i] = c[i]
        PROVE  b = SubSeq(c, 1, Len(b))
    <3>1. \A i \in 1..Len(b) : b[i] = SubSeq(c, 1, Len(b))[i]
      BY <2>2, <2>3
    <3> QED BY <2>2, <3>1, SeqEqual
  <2> QED BY <2>2, <2>3
<1> QED BY <1>1, <1>2 DEF IsPrefix

\* Every bucket extends itself.
LEMMA PrefixReflexive ==
    ASSUME NEW b \in Seq(Func)
    PROVE  IsPrefix(b, b)
BY PrefixIsAgreement

\* A registration extends whatever the bucket extended, by the function alone.
LEMMA WithExtends ==
    ASSUME NEW a \in Seq(Func), NEW b \in Seq(Func), NEW f \in Func,
           IsPrefix(a, b)
    PROVE  /\ With(b, f) \in Seq(Func)
           /\ IsPrefix(a, With(b, f))
           /\ \A i \in DOMAIN With(b, f) :
                \/ With(b, f)[i] = f
                \/ i \in DOMAIN b /\ With(b, f)[i] = b[i]
<1>1. CASE Contains(b, f)
  BY <1>1 DEF With
<1>2. CASE ~Contains(b, f)
  <2>1. With(b, f) = Append(b, f)
    BY <1>2 DEF With
  <2>2. Append(b, f) \in Seq(Func) /\ Len(Append(b, f)) = Len(b) + 1
    OBVIOUS
  <2>3. \A i \in 1..Len(b) : Append(b, f)[i] = b[i]
    OBVIOUS
  <2>4. Append(b, f)[Len(b) + 1] = f
    OBVIOUS
  <2>5. IsPrefix(a, Append(b, f))
    <3>1. Len(a) <= Len(b) /\ \A i \in 1..Len(a) : a[i] = b[i]
      BY PrefixIsAgreement
    <3>2. /\ Len(a) <= Len(Append(b, f))
          /\ \A i \in 1..Len(a) : a[i] = Append(b, f)[i]
      BY <2>2, <2>3, <3>1
    <3> QED BY <2>2, <3>2, PrefixIsAgreement
  <2>6. \A i \in DOMAIN Append(b, f) :
           \/ Append(b, f)[i] = f
           \/ i \in DOMAIN b /\ Append(b, f)[i] = b[i]
    <3> TAKE i \in DOMAIN Append(b, f)
    <3>1. i \in 1..Len(b) \/ i = Len(b) + 1
      BY <2>2
    <3> QED BY <3>1, <2>3, <2>4
  <2> QED BY <2>1, <2>2, <2>5, <2>6
<1> QED BY <1>1, <1>2
-----------------------------------------------------------------------------
(* The inductive invariant                                                 *)

WorkState == [pc: {"idle", "exec"}, kind: {"load", "verify", "plugin"},
              mod: Owner \union {None}, fn: Func \union {None},
              before: Registry, src: Source]

\* No candidate's function is in r.
Clean(r) == \A p \in Place : \A i \in DOMAIN r[p] : r[p][i].owner \notin Candidate

\* Exactly the holder of the lock is executing a module.
LockInv == \A w \in Worker : work[w].pc = "exec" <=> lock = w

\* Outside the lock the source is the default and no candidate is registered.
FreeInv == lock = None => source = Builtin /\ Clean(registry)

\* What the holder executes, and what it will put back.
Running(k) ==
    /\ k.mod \in Owner
    /\ k.fn \in Func
    /\ k.fn.owner = k.mod
    /\ k.src = Builtin
    /\ Clean(k.before)
    /\ k.kind = "load" => k.mod \in Approved
    /\ k.kind = "verify" => k.mod \in Candidate
    /\ k.kind = "plugin" => k.mod \in Plugin
    /\ k.kind # "verify" => source = k.mod /\ Clean(registry)
    /\ k.kind = "plugin" => \A p \in Place : IsPrefix(k.before[p], registry[p])

RunningInv == \A w \in Worker : lock = w => Running(work[w])

\* A decorator that waits to be applied has captured the default source.
CallInv == \A c \in Caller : call[c] \in {None, Builtin}

IInv ==
    /\ TypeOK
    /\ LockInv
    /\ FreeInv
    /\ RunningInv
    /\ CallInv
    /\ CandidatesNeverRun
    /\ SourceIsOwner

-----------------------------------------------------------------------------
(* Each kind of step                                                       *)

LEMMA Init_IInv == Init => IInv
<1> SUFFICES ASSUME Init PROVE IInv
  OBVIOUS
<1> USE DEF Init
<1>1. <<>> \in Seq(Func) /\ Len(<<>>) = 0
  OBVIOUS
<1>2. [p \in Place |-> <<>>] \in Registry
  BY <1>1 DEF Registry
<1>3. WorkIdle \in WorkState
  BY <1>2 DEF WorkIdle, WorkState, Source
<1>4. work \in [Worker -> WorkState]
  BY <1>3
<1>5. view \in [Evaluator -> [exact: Seq(Func), cross: Seq(Func)]]
  BY <1>1
<1>6. attr \in [Func -> Source \union {None}] /\ call \in [Caller -> Source \union {None}]
  OBVIOUS
<1>7. TypeOK
  BY <1>2, <1>4, <1>5, <1>6, BoundAssumption DEF TypeOK, WorkState, Source
<1>8. LockInv
  BY NamesAssumption DEF LockInv, WorkIdle
<1>9. FreeInv
  BY <1>1 DEF FreeInv, Clean
<1>10. RunningInv
  BY NamesAssumption DEF RunningInv
<1>11. CallInv
  BY DEF CallInv
<1>12. CandidatesNeverRun
  BY DEF CandidatesNeverRun, Seen, ToSet
<1>13. SourceIsOwner
  BY DEF SourceIsOwner
<1> QED BY <1>7, <1>8, <1>9, <1>10, <1>11, <1>12, <1>13 DEF IInv

\* Taking the lock for a module.
LEMMA Begin_IInv ==
    ASSUME IInv, NEW w \in Worker, NEW kind \in {"load", "verify", "plugin"},
           NEW m \in Owner, NEW src \in Source,
           lock = None, Begin(w, kind, m, src),
           kind = "load" => m \in Approved,
           kind = "verify" => m \in Candidate,
           kind = "plugin" => m \in Plugin,
           kind # "verify" => src = m
    PROVE  IInv'
<1> DEFINE k == [pc |-> "exec", kind |-> kind, mod |-> m,
                 fn |-> [owner |-> m, gen |-> execs + 1],
                 before |-> registry, src |-> source]
<1>1. /\ work' = [work EXCEPT ![w] = k]
      /\ lock' = w /\ source' = src
      /\ execs < MaxExecs /\ execs' = execs + 1
      /\ UNCHANGED <<registry, attr, loaded, cached, call, view>>
  BY DEF Begin
<1>2. execs' \in 0..MaxExecs
  BY <1>1, BoundAssumption DEF IInv, TypeOK
<1>3. [owner |-> m, gen |-> execs + 1] \in Func
  BY <1>1, <1>2 DEF Func
<1>4. registry \in Registry /\ source \in Source /\ work \in [Worker -> WorkState]
  BY DEF IInv, TypeOK, WorkState
<1>5. k \in WorkState
  BY <1>3, <1>4 DEF WorkState
<1> HIDE DEF k
<1>6. work' \in [Worker -> WorkState]
  BY <1>1, <1>4, <1>5
<1>7. work'[w] = k /\ \A v \in Worker : v # w => work'[v] = work[v]
  BY <1>1, <1>4
<1>8. TypeOK'
  BY <1>1, <1>2, <1>6 DEF IInv, TypeOK, WorkState
<1>9. LockInv'
  BY <1>1, <1>7, NamesAssumption DEF k, IInv, LockInv
<1>10. FreeInv'
  BY <1>1, NamesAssumption DEF FreeInv
<1>11. source = Builtin /\ Clean(registry)
  BY DEF IInv, FreeInv
<1>12. \A p \in Place : registry[p] \in Seq(Func)
  BY <1>4 DEF Registry
<1>13. \A p \in Place : IsPrefix(registry[p], registry[p])
  BY <1>12, PrefixReflexive
<1>14. Running(work[w])'
  BY <1>1, <1>3, <1>7, <1>11, <1>13 DEF k, Running, Clean
<1>15. RunningInv'
  BY <1>1, <1>14 DEF RunningInv
<1>16. CallInv' /\ CandidatesNeverRun' /\ SourceIsOwner'
  BY <1>1 DEF IInv, CallInv, CandidatesNeverRun, Seen, SourceIsOwner
<1> QED BY <1>8, <1>9, <1>10, <1>15, <1>16 DEF IInv

\* What one registration changes: one function, appended to one bucket.
LEMMA RegisterEffect ==
    ASSUME TypeOK, NEW f \in Func, NEW p \in Place, NEW src \in Source,
           RegisterAs(f, p, src)
    PROVE  /\ registry' \in Registry
           /\ \A q \in Place : \A a \in Seq(Func) :
                 IsPrefix(a, registry[q]) => IsPrefix(a, registry'[q])
           /\ f.owner \notin Candidate /\ Clean(registry) => Clean(registry')
           /\ attr' \in [Func -> Source \union {None}]
           /\ attr'[f] = IF attr[f] = None THEN src ELSE attr[f]
           /\ \A g \in Func : g # f => attr'[g] = attr[g]
<1>1. registry \in [Place -> Seq(Func)] /\ attr \in [Func -> Source \union {None}]
  BY DEF TypeOK, Registry
<1>2. /\ registry' = [registry EXCEPT ![p] = With(registry[p], f)]
      /\ attr' = [attr EXCEPT ![f] = IF attr[f] = None THEN src ELSE attr[f]]
  BY <1>1 DEF RegisterAs
<1>3. registry[p] \in Seq(Func) /\ IsPrefix(registry[p], registry[p])
  BY <1>1, PrefixReflexive
<1>4. With(registry[p], f) \in Seq(Func)
  BY <1>3, WithExtends
<1>5. /\ registry' \in [Place -> Seq(Func)]
      /\ registry'[p] = With(registry[p], f)
      /\ \A q \in Place : q # p => registry'[q] = registry[q]
  BY <1>1, <1>2, <1>4
<1>6. ASSUME NEW q \in Place, NEW a \in Seq(Func), IsPrefix(a, registry[q])
      PROVE  IsPrefix(a, registry'[q])
  <2>1. CASE q = p
    BY <1>3, <1>5, <1>6, <2>1, WithExtends
  <2>2. CASE q # p
    BY <1>5, <1>6, <2>2
  <2> QED BY <2>1, <2>2
<1>7. ASSUME f.owner \notin Candidate, Clean(registry)
      PROVE  Clean(registry')
  <2> SUFFICES ASSUME NEW q \in Place, NEW i \in DOMAIN registry'[q]
               PROVE  registry'[q][i].owner \notin Candidate
    BY DEF Clean
  <2>1. CASE q = p
    <3>1. i \in DOMAIN With(registry[p], f)
      BY <2>1, <1>5
    <3>2. \/ With(registry[p], f)[i] = f
          \/ i \in DOMAIN registry[p] /\ With(registry[p], f)[i] = registry[p][i]
      BY <3>1, <1>3, WithExtends
    <3> QED BY <2>1, <3>2, <1>5, <1>7 DEF Clean
  <2>2. CASE q # p
    BY <2>2, <1>5, <1>7 DEF Clean
  <2> QED BY <2>1, <2>2
<1>8. /\ attr' \in [Func -> Source \union {None}]
      /\ attr'[f] = IF attr[f] = None THEN src ELSE attr[f]
      /\ \A g \in Func : g # f => attr'[g] = attr[g]
  BY <1>1, <1>2
<1> QED BY <1>5, <1>6, <1>7, <1>8 DEF Registry

\* The registration made by the module that is executing.
LEMMA Register_IInv == ASSUME IInv, NEW w \in Worker, Register(w) PROVE IInv'
<1>1. PICK p \in Place : RegisterAs(work[w].fn, p, source)
  BY DEF Register
<1>2. UNCHANGED <<source, lock, loaded, cached, work, call, view, execs>>
  BY DEF Register
<1>3. lock = w /\ Running(work[w])
  BY DEF Register, IInv, LockInv, RunningInv
<1> DEFINE f == work[w].fn
<1>4. f \in Func /\ f.owner = work[w].mod /\ source \in Source /\ TypeOK
  BY <1>3 DEF Running, IInv, TypeOK
<1>5. /\ registry' \in Registry
      /\ \A q \in Place : \A a \in Seq(Func) :
            IsPrefix(a, registry[q]) => IsPrefix(a, registry'[q])
      /\ f.owner \notin Candidate /\ Clean(registry) => Clean(registry')
      /\ attr' \in [Func -> Source \union {None}]
      /\ attr'[f] = IF attr[f] = None THEN source ELSE attr[f]
      /\ \A g \in Func : g # f => attr'[g] = attr[g]
  BY <1>1, <1>4, RegisterEffect
<1>6. work \in [Worker -> WorkState]
  BY DEF IInv, TypeOK, WorkState
<1>7. work[w].before \in [Place -> Seq(Func)] /\ work[w].kind \in {"load", "verify", "plugin"}
  BY <1>6 DEF WorkState, Registry
<1> HIDE DEF f
<1>8. TypeOK'
  BY <1>2, <1>5 DEF IInv, TypeOK
<1>9. LockInv' /\ CallInv' /\ CandidatesNeverRun'
  BY <1>2 DEF IInv, LockInv, CallInv, CandidatesNeverRun, Seen
<1>10. FreeInv'
  BY <1>2, <1>3, NamesAssumption DEF FreeInv
<1>11. ASSUME work[w].kind # "verify" PROVE f.owner \notin Candidate /\ Clean(registry')
  BY <1>3, <1>4, <1>5, <1>7, <1>11, KindsAssumption DEF Running
<1>12. ASSUME work[w].kind = "plugin"
       PROVE  \A q \in Place : IsPrefix(work[w].before[q], registry'[q])
  BY <1>3, <1>5, <1>7, <1>12 DEF Running
<1>13. Running(work[w])'
  BY <1>2, <1>3, <1>11, <1>12 DEF Running
<1>14. RunningInv'
  BY <1>2, <1>3, <1>13 DEF RunningInv
<1>15. f.owner \notin Candidate => source = f.owner /\ f.owner \notin Caller
  BY <1>3, <1>4, <1>7, KindsAssumption DEF Running
<1>16. SourceIsOwner'
  BY <1>5, <1>15, <1>4 DEF IInv, SourceIsOwner
<1> QED BY <1>8, <1>9, <1>10, <1>14, <1>16 DEF IInv

\* Tampering by the module that is executing.
LEMMA Spoil_IInv == ASSUME IInv, NEW w \in Worker, Spoil(w) PROVE IInv'
<1>1. UNCHANGED <<attr, lock, loaded, cached, work, call, view, execs>>
  BY DEF Spoil
<1>2. lock = w /\ Running(work[w]) /\ work[w].kind # "plugin"
  BY DEF Spoil, IInv, LockInv, RunningInv
<1>3. registry \in [Place -> Seq(Func)] /\ source \in Source
  BY DEF IInv, TypeOK, Registry
<1>4. registry' \in Registry /\ source' \in Source
  <2>1. CASE \E p \in Place : registry' = [registry EXCEPT ![p] = <<>>] /\ source' = source
    BY <1>3, <2>1 DEF Registry
  <2>2. CASE source' = work[w].mod /\ registry' = registry
    BY <1>2, <1>3, <2>2 DEF Registry, Running, Source
  <2> QED BY <2>1, <2>2 DEF Spoil
<1>5. ASSUME Clean(registry) PROVE Clean(registry')
  <2>1. CASE \E p \in Place : registry' = [registry EXCEPT ![p] = <<>>]
    BY <1>3, <1>5, <2>1 DEF Clean
  <2>2. CASE registry' = registry
    BY <1>5, <2>2
  <2> QED BY <2>1, <2>2 DEF Spoil
<1>6. source' = source \/ source' = work[w].mod
  BY DEF Spoil
<1>7. TypeOK'
  BY <1>1, <1>4 DEF IInv, TypeOK
<1>8. LockInv' /\ CallInv' /\ CandidatesNeverRun' /\ SourceIsOwner'
  BY <1>1 DEF IInv, LockInv, CallInv, CandidatesNeverRun, Seen, SourceIsOwner
<1>9. FreeInv'
  BY <1>1, <1>2, NamesAssumption DEF FreeInv
<1>10. Running(work[w])'
  BY <1>1, <1>2, <1>5, <1>6 DEF Running
<1>11. RunningInv'
  BY <1>1, <1>2, <1>10 DEF RunningInv
<1> QED BY <1>7, <1>8, <1>9, <1>11 DEF IInv

\* Releasing the lock with a registry free of candidates.
LEMMA Return_IInv ==
    ASSUME IInv, NEW w \in Worker, lock = w, Return(w),
           registry' \in Registry, Clean(registry'), source' = Builtin,
           loaded' \subseteq Approved, cached' \subseteq Plugin
    PROVE  IInv'
<1>1. /\ lock' = None
      /\ work' = [work EXCEPT ![w] = WorkIdle]
      /\ UNCHANGED <<attr, call, view, execs>>
  BY DEF Return
<1>2. work \in [Worker -> WorkState]
  BY DEF IInv, TypeOK, WorkState
<1>3. WorkIdle \in WorkState
  <2>1. <<>> \in Seq(Func)
    OBVIOUS
  <2> QED BY <2>1 DEF WorkIdle, WorkState, Source, Registry
<1>4. work' \in [Worker -> WorkState]
  BY <1>1, <1>2, <1>3
<1>5. work'[w] = WorkIdle /\ \A v \in Worker : v # w => work'[v] = work[v]
  BY <1>1, <1>2
<1>6. TypeOK'
  BY <1>1, <1>4 DEF IInv, TypeOK, WorkState, Source
<1>7. LockInv'
  BY <1>1, <1>5, NamesAssumption DEF IInv, LockInv, WorkIdle
<1>8. FreeInv'
  BY DEF FreeInv
<1>9. RunningInv'
  BY <1>1, NamesAssumption DEF RunningInv
<1>10. CallInv' /\ CandidatesNeverRun' /\ SourceIsOwner'
  BY <1>1 DEF IInv, CallInv, CandidatesNeverRun, Seen, SourceIsOwner
<1> QED BY <1>6, <1>7, <1>8, <1>9, <1>10 DEF IInv

\* The end of a load, a verification or a plugin.
LEMMA Ends_IInv ==
    ASSUME IInv, NEW w \in Worker, LoadEnds(w) \/ VerifyEnds(w) \/ PluginEnds(w)
    PROVE  IInv'
<1>1. lock = w /\ Running(work[w])
  BY DEF LoadEnds, VerifyEnds, PluginEnds, Ends, IInv, LockInv, RunningInv
<1>2. work \in [Worker -> WorkState] /\ registry \in Registry
      /\ loaded \subseteq Approved /\ cached \subseteq Plugin
  BY DEF IInv, TypeOK, WorkState
<1>3. work[w].before \in Registry
  BY <1>2 DEF WorkState
<1>4. Return(w) /\ source' = Builtin
  BY <1>1 DEF LoadEnds, VerifyEnds, PluginEnds, Running
<1>5. registry' \in Registry /\ Clean(registry')
  BY <1>1, <1>2, <1>3 DEF LoadEnds, VerifyEnds, PluginEnds, Ends, Running
<1>6. loaded' \subseteq Approved /\ cached' \subseteq Plugin
  BY <1>1, <1>2 DEF LoadEnds, VerifyEnds, PluginEnds, Ends, Running
<1> QED BY <1>1, <1>4, <1>5, <1>6, Return_IInv

\* A thread registers a function of its own under the free lock.
LEMMA CallerRegisters_IInv ==
    ASSUME IInv, NEW c \in Caller, NEW p \in Place, lock = None,
           RegisterAs([owner |-> c, gen |-> 0], p, Builtin),
           UNCHANGED <<source, lock, loaded, cached, work, view, execs>>,
           call' \in [Caller -> Source \union {None}], CallInv'
    PROVE  IInv'
<1> DEFINE f == [owner |-> c, gen |-> 0]
<1>1. f \in Func /\ f.owner = c
  BY BoundAssumption DEF Func, Owner
<1>2. Builtin \in Source /\ TypeOK /\ f.owner \notin Candidate
  BY <1>1, KindsAssumption DEF IInv, Source
<1>3. /\ registry' \in Registry
      /\ f.owner \notin Candidate /\ Clean(registry) => Clean(registry')
      /\ attr' \in [Func -> Source \union {None}]
      /\ attr'[f] = IF attr[f] = None THEN Builtin ELSE attr[f]
      /\ \A g \in Func : g # f => attr'[g] = attr[g]
  BY <1>1, <1>2, RegisterEffect
<1> HIDE DEF f
<1>4. TypeOK'
  BY <1>3 DEF IInv, TypeOK
<1>5. LockInv' /\ CandidatesNeverRun'
  BY DEF IInv, LockInv, CandidatesNeverRun, Seen
<1>6. FreeInv'
  BY <1>2, <1>3 DEF IInv, FreeInv
<1>7. RunningInv'
  BY NamesAssumption DEF RunningInv
<1>8. SourceIsOwner'
  BY <1>1, <1>3 DEF IInv, SourceIsOwner
<1> QED BY <1>4, <1>5, <1>6, <1>7, <1>8 DEF IInv

LEMMA CreateDecorator_IInv ==
    ASSUME IInv, NEW c \in Caller, CreateDecorator(c) PROVE IInv'
<1>1. /\ source = Builtin
      /\ call' = [call EXCEPT ![c] = source]
      /\ UNCHANGED <<registry, source, attr, lock, loaded, cached, work, view, execs>>
  BY DEF CreateDecorator, IInv, FreeInv
<1>2. call' \in [Caller -> Source \union {None}] /\ CallInv'
  BY <1>1 DEF IInv, TypeOK, CallInv
<1>3. TypeOK'
  BY <1>1, <1>2 DEF IInv, TypeOK
<1>4. LockInv' /\ FreeInv' /\ CandidatesNeverRun' /\ SourceIsOwner'
  BY <1>1 DEF IInv, LockInv, FreeInv, CandidatesNeverRun, Seen, SourceIsOwner
<1>5. RunningInv'
  BY <1>1 DEF IInv, RunningInv, Running
<1> QED BY <1>2, <1>3, <1>4, <1>5 DEF IInv

LEMMA ApplyDecorator_IInv ==
    ASSUME IInv, NEW c \in Caller, ApplyDecorator(c) PROVE IInv'
<1>1. PICK t \in Type : RegisterAs([owner |-> c, gen |-> 0], t, call[c])
  BY DEF ApplyDecorator
<1>2. t \in Place /\ call[c] = Builtin
  BY DEF ApplyDecorator, IInv, CallInv, Place
<1>3. /\ lock = None
      /\ call' = [call EXCEPT ![c] = None]
      /\ UNCHANGED <<source, lock, loaded, cached, work, view, execs>>
  BY DEF ApplyDecorator
<1>4. call' \in [Caller -> Source \union {None}] /\ CallInv'
  BY <1>3 DEF IInv, TypeOK, CallInv
<1> QED BY <1>1, <1>2, <1>3, <1>4, CallerRegisters_IInv

LEMMA RegisterCrossCutting_IInv ==
    ASSUME IInv, NEW c \in Caller, RegisterCrossCutting(c) PROVE IInv'
<1>1. lock = None /\ source = Builtin /\ CrossCutting \in Place
  BY DEF RegisterCrossCutting, IInv, FreeInv, Place
<1>2. /\ RegisterAs([owner |-> c, gen |-> 0], CrossCutting, Builtin)
      /\ UNCHANGED <<source, lock, loaded, cached, work, call, view, execs>>
  BY <1>1 DEF RegisterCrossCutting
<1>3. call' \in [Caller -> Source \union {None}] /\ CallInv'
  BY <1>2 DEF IInv, TypeOK, CallInv
<1> QED BY <1>1, <1>2, <1>3, CallerRegisters_IInv

LEMMA Look_IInv == ASSUME IInv, NEW e \in Evaluator, Look(e) PROVE IInv'
<1>1. PICK t \in Type :
        view' = [view EXCEPT ![e] = [exact |-> registry[t],
                                     cross |-> registry[CrossCutting]]]
  BY DEF Look
<1>2. UNCHANGED <<registry, source, attr, lock, loaded, cached, work, call, execs>>
  BY DEF Look
<1>3. t \in Place /\ CrossCutting \in Place /\ Clean(registry)
  BY DEF Place, Look, IInv, FreeInv
<1>4. registry[t] \in Seq(Func) /\ registry[CrossCutting] \in Seq(Func)
  BY <1>3 DEF IInv, TypeOK, Registry
<1>5. view \in [Evaluator -> [exact: Seq(Func), cross: Seq(Func)]]
  BY DEF IInv, TypeOK
<1>6. /\ view' \in [Evaluator -> [exact: Seq(Func), cross: Seq(Func)]]
      /\ view'[e] = [exact |-> registry[t], cross |-> registry[CrossCutting]]
      /\ \A d \in Evaluator : d # e => view'[d] = view[d]
  BY <1>1, <1>4, <1>5
<1>7. TypeOK'
  BY <1>2, <1>6 DEF IInv, TypeOK
<1>8. LockInv' /\ FreeInv' /\ CallInv' /\ SourceIsOwner'
  BY <1>2 DEF IInv, LockInv, FreeInv, CallInv, SourceIsOwner
<1>9. RunningInv'
  BY <1>2 DEF IInv, RunningInv, Running
<1>10. CandidatesNeverRun'
  <2> SUFFICES ASSUME NEW d \in Evaluator, NEW f \in Seen(d)'
               PROVE  f.owner \notin Candidate
    BY DEF CandidatesNeverRun
  <2>1. CASE d = e
    BY <2>1, <1>3, <1>6 DEF Seen, ToSet, Clean
  <2>2. CASE d # e
    BY <2>2, <1>6 DEF Seen, IInv, CandidatesNeverRun
  <2> QED BY <2>1, <2>2
<1> QED BY <1>7, <1>8, <1>9, <1>10 DEF IInv

-----------------------------------------------------------------------------
(* The theorems                                                            *)

LEMMA Next_IInv == IInv /\ [Next]_vars => IInv'
<1> SUFFICES ASSUME IInv, [Next]_vars PROVE IInv'
  OBVIOUS
<1>1. ASSUME NEW w \in Worker, NEW m \in Approved, BeginLoad(w, m) PROVE IInv'
  BY <1>1, Begin_IInv DEF BeginLoad, Owner, Source
<1>2. ASSUME NEW w \in Worker, NEW m \in Candidate, BeginVerify(w, m) PROVE IInv'
  <2>1. source \in Source
    BY DEF IInv, TypeOK
  <2> QED BY <1>2, <2>1, Begin_IInv DEF BeginVerify, Owner
<1>3. ASSUME NEW w \in Worker, NEW m \in Plugin, BeginPlugin(w, m) PROVE IInv'
  BY <1>3, Begin_IInv DEF BeginPlugin, Owner, Source
<1>4. ASSUME NEW w \in Worker, Register(w) PROVE IInv'
  BY <1>4, Register_IInv
<1>5. ASSUME NEW w \in Worker, Spoil(w) PROVE IInv'
  BY <1>5, Spoil_IInv
<1>6. ASSUME NEW w \in Worker, LoadEnds(w) \/ VerifyEnds(w) \/ PluginEnds(w) PROVE IInv'
  BY <1>6, Ends_IInv
<1>7. ASSUME NEW c \in Caller,
             CreateDecorator(c) \/ ApplyDecorator(c) \/ RegisterCrossCutting(c)
      PROVE  IInv'
  BY <1>7, CreateDecorator_IInv, ApplyDecorator_IInv, RegisterCrossCutting_IInv
<1>8. ASSUME NEW e \in Evaluator, Look(e) PROVE IInv'
  BY <1>8, Look_IInv
<1>9. CASE UNCHANGED vars
  BY <1>9 DEF vars, IInv, TypeOK, LockInv, FreeInv, RunningInv, Running, CallInv,
              CandidatesNeverRun, Seen, SourceIsOwner
<1> QED BY <1>1, <1>2, <1>3, <1>4, <1>5, <1>6, <1>7, <1>8, <1>9 DEF Next

LEMMA Invariance == Spec => []IInv
BY Init_IInv, Next_IInv, PTL DEF Spec

\* Every variable keeps its type, for any number of threads and modules.
THEOREM TypeCorrect == Spec => []TypeOK
BY Invariance, PTL DEF IInv

\* No evaluation ever copies, and so runs, a function that only a verification
\* registered: _rule_candidates reads under the lock verification holds.
THEOREM CandidatesAreInert == Spec => []CandidatesNeverRun
BY Invariance, PTL DEF IInv

\* __rtp_source__ names the module that registered the function, and is
\* "builtin" for functions that no module registered.
THEOREM ProvenanceIsRight == Spec => []SourceIsOwner
BY Invariance, PTL DEF IInv

\* Outside the lock, a step only appends to the rule lists.
LEMMA Next_Kept ==
    IInv /\ [Next]_vars => \A p \in Place : IsPrefix(Committed[p], Committed'[p])
<1> SUFFICES ASSUME IInv, [Next]_vars, NEW p \in Place
             PROVE  IsPrefix(Committed[p], Committed'[p])
  OBVIOUS
<1>1. registry \in [Place -> Seq(Func)] /\ work \in [Worker -> WorkState]
      /\ lock \in Worker \union {None}
  BY DEF IInv, TypeOK, WorkState, Registry
<1>2. \A w \in Worker : work[w].before \in [Place -> Seq(Func)]
  BY <1>1 DEF WorkState, Registry
<1>3. Committed[p] \in Seq(Func) /\ IsPrefix(Committed[p], Committed[p])
  BY <1>1, <1>2, PrefixReflexive DEF Committed
<1>4. ASSUME NEW w \in Worker, NEW kind, NEW m, NEW src,
             lock = None, Begin(w, kind, m, src)
      PROVE  Committed' = Committed
  BY <1>1, <1>4, NamesAssumption DEF Begin, Committed
<1>5. ASSUME NEW w \in Worker, Register(w) \/ Spoil(w) PROVE Committed' = Committed
  BY <1>5, NamesAssumption DEF Register, Spoil, IInv, LockInv, Committed
<1>6. ASSUME NEW w \in Worker, LoadEnds(w) \/ VerifyEnds(w) \/ PluginEnds(w)
      PROVE  IsPrefix(Committed[p], Committed'[p])
  <2>1. lock = w /\ Running(work[w])
    BY <1>6 DEF LoadEnds, VerifyEnds, PluginEnds, Ends, IInv, LockInv, RunningInv
  <2>2. Committed = work[w].before /\ Committed' = registry'
    BY <2>1, <1>6, NamesAssumption
       DEF LoadEnds, VerifyEnds, PluginEnds, Return, Committed
  <2>3. IsPrefix(work[w].before[p], registry'[p])
    BY <1>3, <1>6, <2>1, <2>2
       DEF LoadEnds, VerifyEnds, PluginEnds, Ends, Intact, Running
  <2> QED BY <2>2, <2>3
<1>7. ASSUME NEW c \in Caller, NEW q \in Place, NEW src \in Source, lock = None,
             lock' = None, RegisterAs([owner |-> c, gen |-> 0], q, src)
      PROVE  IsPrefix(Committed[p], Committed'[p])
  <2>1. [owner |-> c, gen |-> 0] \in Func /\ TypeOK
    BY BoundAssumption DEF Func, Owner, IInv
  <2>2. \A a \in Seq(Func) : IsPrefix(a, registry[p]) => IsPrefix(a, registry'[p])
    BY <1>7, <2>1, RegisterEffect
  <2>3. Committed = registry /\ Committed' = registry'
    BY <1>7 DEF Committed
  <2> QED BY <2>2, <2>3, <1>3
<1>8. ASSUME NEW c \in Caller, CreateDecorator(c) PROVE Committed' = Committed
  BY <1>8 DEF CreateDecorator, Committed
<1>9. ASSUME NEW c \in Caller, ApplyDecorator(c) \/ RegisterCrossCutting(c)
      PROVE  IsPrefix(Committed[p], Committed'[p])
  <2>1. source = Builtin /\ lock = None /\ lock' = None
    BY <1>9 DEF ApplyDecorator, RegisterCrossCutting, IInv, FreeInv
  <2>2. \E q \in Place : RegisterAs([owner |-> c, gen |-> 0], q, Builtin)
    BY <1>9, <2>1 DEF ApplyDecorator, RegisterCrossCutting, IInv, CallInv, Place
  <2> QED BY <1>7, <2>1, <2>2 DEF Source
<1>10. ASSUME NEW e \in Evaluator, Look(e) PROVE Committed' = Committed
  BY <1>10 DEF Look, Committed
<1>11. CASE UNCHANGED vars
  BY <1>3, <1>11 DEF vars, Committed
<1>12. ASSUME NEW w \in Worker, NEW m,
              BeginLoad(w, m) \/ BeginVerify(w, m) \/ BeginPlugin(w, m)
       PROVE  Committed' = Committed
  BY <1>4, <1>12 DEF BeginLoad, BeginVerify, BeginPlugin
<1> QED BY <1>3, <1>5, <1>6, <1>8, <1>9, <1>10, <1>11, <1>12 DEF Next

\* Putting a snapshot back never discards what another thread registered, and
\* no load removes or reorders the rules that were there before it.
THEOREM NothingIsLost == Spec => RegistrationsKept
BY Invariance, Next_Kept, PTL DEF Spec, RegistrationsKept


-----------------------------------------------------------------------------
(* What an execution has added                                             *)

\* Every function of r is from an execution before the n-th.
Older(r, n) == \A p \in Place : \A i \in DOMAIN r[p] : r[p][i].gen < n

\* What the function object of the running module, f, can make of a bucket b:
\* it appends itself, or it empties the list and perhaps registers again.
Outcomes(b, f) == {b, Append(b, f), <<>>, <<f>>}

\* The module that is executing is a new one, with a new function, and only
\* that function came into the registry since it began.
Growing(k) ==
    /\ k.fn.gen <= execs
    /\ Older(k.before, k.fn.gen)
    /\ k.kind = "load" => k.mod \notin loaded
    /\ k.kind # "verify" =>
         \A p \in Place : registry[p] \in Outcomes(k.before[p], k.fn)

\* At most one function of each approved rule is in r, and the rule is in L.
OnceIn(r, L) ==
    \A p, q \in Place : \A i \in DOMAIN r[p] : \A j \in DOMAIN r[q] :
        r[p][i].owner \in Approved =>
            /\ r[p][i].owner \in L
            /\ r[q][j].owner = r[p][i].owner => r[q][j] = r[p][i]

GrowingInv == \A w \in Worker : lock = w => Growing(work[w])
OlderInv == lock = None => Older(registry, execs + 1)
OnceInv == OnceIn(Committed, loaded)

ExecInv == GrowingInv /\ OlderInv /\ OnceInv

\* A bucket that kept its contents has at most the new function at its end.
LEMMA IntactOutcome ==
    ASSUME NEW b \in Seq(Func), NEW f \in Func, NEW r \in Outcomes(b, f),
           \A i \in DOMAIN b : b[i].gen < f.gen, IsPrefix(b, r)
    PROVE  r = b \/ r = Append(b, f)
<1>1. /\ <<>> \in Seq(Func) /\ <<f>> \in Seq(Func)
      /\ Len(<<>>) = 0 /\ Len(<<f>>) = 1 /\ <<f>>[1] = f
      /\ Append(<<>>, f) = <<f>>
  OBVIOUS
<1>2. f.gen \in Nat
  BY BoundAssumption DEF Func
<1>3. \A i \in DOMAIN b : b[i] # f
  BY <1>2
<1>4. Len(b) \in Nat /\ DOMAIN b = 1..Len(b)
  OBVIOUS
<1>5. CASE r = <<>>
  <2>1. r \in Seq(Func) /\ Len(r) = 0
    BY <1>1, <1>5
  <2>2. Len(b) <= Len(r)
    BY <2>1, PrefixIsAgreement
  <2>3. b = <<>>
    BY <1>4, <2>1, <2>2
  <2> QED BY <1>5, <2>3
<1>6. CASE r = <<f>>
  <2>1. Len(b) <= 1 /\ \A i \in 1..Len(b) : b[i] = <<f>>[i]
    BY <1>1, <1>6, PrefixIsAgreement
  <2>2. Len(b) # 1
    BY <2>1, <1>1, <1>3, <1>4
  <2>3. b = <<>>
    BY <2>1, <2>2, <1>4
  <2> QED BY <1>1, <1>6, <2>3
<1>7. r = b \/ r = Append(b, f) \/ r = <<>> \/ r = <<f>>
  BY Zenon DEF Outcomes
<1> QED BY <1>5, <1>6, <1>7

\* A registration of the new function leaves a bucket among its outcomes.
LEMMA OutcomeWith ==
    ASSUME NEW b \in Seq(Func), NEW f \in Func, NEW r \in Outcomes(b, f),
           \A i \in DOMAIN b : b[i].gen < f.gen
    PROVE  With(r, f) \in Outcomes(b, f)
<1>1. f.gen \in Nat
  BY BoundAssumption DEF Func
<1>2. \A i \in DOMAIN b : b[i] # f
  BY <1>1
<1>3. Len(b) \in Nat /\ DOMAIN b = 1..Len(b)
  OBVIOUS
<1>4. CASE r = b
  <2>1. With(r, f) = Append(b, f)
    BY <1>2, <1>3, <1>4 DEF With, Contains
  <2> QED BY <2>1 DEF Outcomes
<1>5. CASE r = Append(b, f)
  <2>1. Len(r) = Len(b) + 1 /\ r[Len(b) + 1] = f
    BY <1>5
  <2>2. Contains(r, f)
    BY <2>1, <1>3 DEF Contains
  <2> QED BY <2>2, <1>5 DEF With, Outcomes
<1>6. CASE r = <<>>
  <2>1. With(r, f) \in {<<>>, <<f>>}
    BY <1>6 DEF With
  <2> QED BY <2>1 DEF Outcomes
<1>7. CASE r = <<f>>
  <2>1. Len(r) = 1 /\ r[1] = f
    BY <1>7
  <2>2. Contains(r, f)
    BY <2>1 DEF Contains
  <2> QED BY <2>2, <1>7 DEF With, Outcomes
<1> QED BY <1>4, <1>5, <1>6, <1>7 DEF Outcomes

\* Where an element of an outcome comes from.
LEMMA OutcomeElement ==
    ASSUME NEW b \in Seq(Func), NEW f \in Func, NEW r \in Outcomes(b, f),
           NEW i \in DOMAIN r
    PROVE  r[i] = f \/ (i \in DOMAIN b /\ r[i] = b[i])
<1>1. CASE r = Append(b, f)
  <2>1. i \in 1..(Len(b) + 1)
    BY <1>1
  <2> QED BY <1>1, <2>1
<1>2. CASE r = <<f>>
  BY <1>2
<1> QED BY <1>1, <1>2 DEF Outcomes

\* What the rest of the proofs need to know of the module that is executing.
LEMMA Holder ==
    ASSUME IInv, NEW w \in Worker, work[w].pc = "exec"
    PROVE  /\ lock = w /\ Running(work[w])
           /\ Committed = work[w].before
           /\ work[w].before \in [Place -> Seq(Func)]
           /\ registry \in [Place -> Seq(Func)]
           /\ work[w].fn \in Func
           /\ work[w].kind \in {"load", "verify", "plugin"}
<1>1. lock = w /\ Running(work[w])
  BY DEF IInv, LockInv, RunningInv
<1>2. work \in [Worker -> WorkState] /\ registry \in [Place -> Seq(Func)]
  BY DEF IInv, TypeOK, WorkState, Registry
<1>3. Committed = work[w].before
  BY <1>1, NamesAssumption DEF Committed
<1> QED BY <1>1, <1>2, <1>3 DEF Running, WorkState, Registry

\* A registry of which every bucket is an outcome has gained nothing but the
\* function that is being registered.
LEMMA GrownOnce ==
    ASSUME NEW b \in [Place -> Seq(Func)], NEW r \in [Place -> Seq(Func)],
           NEW f \in Func, NEW L, OnceIn(b, L), Older(b, f.gen),
           \A p \in Place : r[p] \in Outcomes(b[p], f)
    PROVE  /\ Older(r, f.gen + 1)
           /\ f.owner \notin Approved => OnceIn(r, L)
           /\ f.owner \notin L => OnceIn(r, L \union {f.owner})
<1>1. \A p \in Place : \A i \in DOMAIN r[p] :
          r[p][i] = f \/ (i \in DOMAIN b[p] /\ r[p][i] = b[p][i])
  BY OutcomeElement
<1>2. f.gen \in Nat /\ \A g \in Func : g.gen \in Nat
  BY BoundAssumption DEF Func
<1>3. \A p \in Place : \A i \in DOMAIN b[p] : b[p][i] \in Func
  OBVIOUS
<1>4. Older(r, f.gen + 1)
  BY <1>1, <1>2, <1>3 DEF Older
<1>5. ASSUME f.owner \notin Approved PROVE OnceIn(r, L)
  BY <1>1, <1>5 DEF OnceIn
<1>6. ASSUME f.owner \notin L
      PROVE  OnceIn(r, L \union {f.owner})
  <2>1. \A p \in Place : \A i \in DOMAIN b[p] :
            b[p][i].owner \in Approved => b[p][i].owner # f.owner
    BY <1>6 DEF OnceIn
  <2> SUFFICES ASSUME NEW p \in Place, NEW q \in Place,
                      NEW i \in DOMAIN r[p], NEW j \in DOMAIN r[q],
                      r[p][i].owner \in Approved
               PROVE  /\ r[p][i].owner \in L \union {f.owner}
                      /\ r[q][j].owner = r[p][i].owner => r[q][j] = r[p][i]
    BY DEF OnceIn
  <2>2. CASE r[p][i] = f
    BY <2>1, <2>2, <1>1, <1>6
  <2>3. CASE r[p][i] # f
    <3>1. i \in DOMAIN b[p] /\ r[p][i] = b[p][i]
      BY <2>3, <1>1
    <3>2. r[p][i].owner \in L /\ r[p][i].owner # f.owner
      BY <3>1, <2>1 DEF OnceIn
    <3>3. r[q][j] = f \/ (j \in DOMAIN b[q] /\ r[q][j] = b[q][j])
      BY <1>1
    <3> QED BY <3>1, <3>2, <3>3, <1>6 DEF OnceIn
  <2> QED BY <2>2, <2>3
<1> QED BY <1>4, <1>5, <1>6

-----------------------------------------------------------------------------
(* Each kind of step, for what an execution adds                           *)

LEMMA Begin_ExecInv ==
    ASSUME IInv, ExecInv, NEW w \in Worker, NEW kind, NEW m \in Owner, NEW src,
           lock = None, Begin(w, kind, m, src), kind = "load" => m \notin loaded
    PROVE  ExecInv'
<1> SUFFICES ASSUME NEW k,
                    k = [pc |-> "exec", kind |-> kind, mod |-> m,
                         fn |-> [owner |-> m, gen |-> execs + 1],
                         before |-> registry, src |-> source]
             PROVE  ExecInv'
  OBVIOUS
<1>1. /\ work' = [work EXCEPT ![w] = k]
      /\ lock' = w /\ execs' = execs + 1
      /\ UNCHANGED <<registry, loaded>>
  BY DEF Begin
<1>2. execs \in Nat /\ work \in [Worker -> WorkState]
  BY BoundAssumption DEF IInv, TypeOK, WorkState
<1>3. /\ k.fn.gen = execs + 1 /\ k.before = registry
      /\ k.kind = kind /\ k.mod = m
  OBVIOUS
<1>4. work'[w] = k
  BY <1>1, <1>2
<1>5. \A p \in Place : registry[p] \in Outcomes(registry[p], k.fn)
  BY DEF Outcomes
<1>6. Older(registry, execs + 1)
  BY DEF ExecInv, OlderInv
<1>7. Growing(k)'
  BY <1>1, <1>2, <1>3, <1>5, <1>6 DEF Growing
<1>8. GrowingInv'
  BY <1>1, <1>4, <1>7 DEF GrowingInv
<1>9. OlderInv'
  BY <1>1, NamesAssumption DEF OlderInv
<1>10. Committed' = registry /\ Committed = registry
  BY <1>1, <1>3, <1>4, NamesAssumption DEF Committed
<1>11. OnceInv'
  BY <1>1, <1>10 DEF ExecInv, OnceInv
<1> QED BY <1>8, <1>9, <1>11 DEF ExecInv

LEMMA Register_ExecInv ==
    ASSUME IInv, ExecInv, NEW w \in Worker, Register(w) PROVE ExecInv'
<1>1. PICK p \in Place : RegisterAs(work[w].fn, p, source)
  BY DEF Register
<1>2. work[w].pc = "exec" /\ UNCHANGED <<lock, loaded, work, execs>>
  BY DEF Register
<1>3. /\ lock = w /\ Growing(work[w])
      /\ Committed = work[w].before /\ Committed' = work[w].before
      /\ work[w].before \in [Place -> Seq(Func)]
      /\ registry \in [Place -> Seq(Func)] /\ work[w].fn \in Func
  BY <1>2, Holder, NamesAssumption DEF ExecInv, GrowingInv, Committed
<1>4. /\ registry'[p] = With(registry[p], work[w].fn)
      /\ \A q \in Place : q # p => registry'[q] = registry[q]
  BY <1>1, <1>3 DEF RegisterAs
<1>5. ASSUME work[w].kind # "verify", NEW q \in Place
      PROVE  registry'[q] \in Outcomes(work[w].before[q], work[w].fn)
  <2>1. registry[q] \in Outcomes(work[w].before[q], work[w].fn)
    BY <1>3, <1>5 DEF Growing
  <2>2. \A i \in DOMAIN work[w].before[q] : work[w].before[q][i].gen < work[w].fn.gen
    BY <1>3 DEF Growing, Older
  <2>3. With(registry[q], work[w].fn) \in Outcomes(work[w].before[q], work[w].fn)
    BY <1>3, <2>1, <2>2, OutcomeWith
  <2> QED BY <2>1, <2>3, <1>4
<1>6. Growing(work[w])'
  BY <1>2, <1>3, <1>5 DEF Growing
<1>7. GrowingInv' /\ OlderInv'
  BY <1>2, <1>3, <1>6, NamesAssumption DEF GrowingInv, OlderInv
<1>8. OnceInv'
  BY <1>2, <1>3 DEF ExecInv, OnceInv
<1> QED BY <1>7, <1>8 DEF ExecInv

LEMMA Spoil_ExecInv ==
    ASSUME IInv, ExecInv, NEW w \in Worker, Spoil(w) PROVE ExecInv'
<1>1. work[w].pc = "exec" /\ UNCHANGED <<lock, loaded, work, execs>>
  BY DEF Spoil
<1>2. /\ lock = w /\ Growing(work[w])
      /\ Committed = work[w].before /\ Committed' = work[w].before
      /\ registry \in [Place -> Seq(Func)]
  BY <1>1, Holder, NamesAssumption DEF ExecInv, GrowingInv, Committed
<1>3. \A q \in Place : registry'[q] \in {registry[q], <<>>}
  BY <1>2 DEF Spoil
<1>4. Growing(work[w])'
  BY <1>1, <1>2, <1>3 DEF Growing, Outcomes
<1>5. GrowingInv' /\ OlderInv'
  BY <1>1, <1>2, <1>4, NamesAssumption DEF GrowingInv, OlderInv
<1>6. OnceInv'
  BY <1>1, <1>2 DEF ExecInv, OnceInv
<1> QED BY <1>5, <1>6 DEF ExecInv

LEMMA Ends_ExecInv ==
    ASSUME IInv, ExecInv, NEW w \in Worker, LoadEnds(w) \/ VerifyEnds(w) \/ PluginEnds(w)
    PROVE  ExecInv'
<1> DEFINE f == work[w].fn
           b == work[w].before
<1>1. work[w].pc = "exec" /\ lock' = None /\ execs' = execs
  BY DEF LoadEnds, VerifyEnds, PluginEnds, Ends, Return
<1>2. /\ Running(work[w]) /\ Growing(work[w]) /\ OnceIn(b, loaded) /\ Committed' = registry'
      /\ b \in [Place -> Seq(Func)] /\ registry \in [Place -> Seq(Func)] /\ f \in Func
  BY <1>1, Holder, NamesAssumption DEF ExecInv, GrowingInv, OnceInv, Committed
<1>3. execs \in Nat /\ f.gen \in Nat /\ f.gen <= execs /\ \A g \in Func : g.gen \in Nat
  BY <1>2, BoundAssumption DEF IInv, TypeOK, Func, Growing
<1>4. Older(b, execs + 1)
  <2>1. \A p \in Place : \A i \in DOMAIN b[p] : b[p][i] \in Func /\ b[p][i].gen < f.gen
    BY <1>2 DEF Growing, Older
  <2> QED BY <1>3, <2>1 DEF Older
<1>5. Older(registry', execs + 1) /\ OnceIn(registry', loaded')
  <2>1. CASE registry' = b /\ loaded' = loaded
    BY <1>2, <1>4, <2>1
  <2>2. ASSUME work[w].kind # "verify"
        PROVE  /\ Older(registry, execs + 1)
               /\ f.owner \notin Approved => OnceIn(registry, loaded)
               /\ f.owner \notin loaded => OnceIn(registry, loaded \union {f.owner})
    <3>1. Older(b, f.gen) /\ \A p \in Place : registry[p] \in Outcomes(b[p], f)
      BY <1>2, <2>2 DEF Growing
    <3> HIDE DEF f, b
    <3>2. /\ Older(registry, f.gen + 1)
          /\ f.owner \notin Approved => OnceIn(registry, loaded)
          /\ f.owner \notin loaded => OnceIn(registry, loaded \union {f.owner})
      BY <1>2, <3>1, GrownOnce
    <3>3. \A p \in Place : \A i \in DOMAIN registry[p] : registry[p][i] \in Func
      BY <1>2
    <3>4. Older(registry, execs + 1)
      BY <1>3, <3>2, <3>3 DEF Older
    <3> QED BY <3>2, <3>4
  <2>3. CASE LoadEnds(w) /\ loaded' = loaded \union {work[w].mod} /\ registry' = registry
    <3>1. work[w].kind # "verify" /\ f.owner \notin loaded /\ f.owner = work[w].mod
      BY <1>2, <2>3 DEF LoadEnds, Ends, Growing, Running
    <3> QED BY <2>2, <2>3, <3>1
  <2>4. CASE PluginEnds(w)
    <3>1. registry' = registry /\ loaded' = loaded /\ work[w].kind # "verify"
          /\ f.owner \notin Approved
      BY <1>2, <2>4, KindsAssumption DEF PluginEnds, Ends, Running
    <3> QED BY <2>2, <3>1
  <2> QED BY <2>1, <2>3, <2>4 DEF LoadEnds, VerifyEnds
<1>6. GrowingInv'
  BY <1>1, NamesAssumption DEF GrowingInv
<1>7. OlderInv' /\ OnceInv'
  BY <1>1, <1>2, <1>5 DEF OlderInv, OnceInv
<1> QED BY <1>6, <1>7 DEF ExecInv

\* A thread registers a function of its own under the free lock.
LEMMA CallerRegisters_ExecInv ==
    ASSUME IInv, ExecInv, NEW c \in Caller, NEW p \in Place, NEW src,
           lock = None, RegisterAs([owner |-> c, gen |-> 0], p, src),
           UNCHANGED <<lock, loaded, execs>>
    PROVE  ExecInv'
<1> DEFINE f == [owner |-> c, gen |-> 0]
<1>1. f \in Func /\ f.owner = c /\ f.gen = 0 /\ f.owner \notin Approved
  BY BoundAssumption, KindsAssumption DEF Func, Owner
<1>2. registry \in [Place -> Seq(Func)] /\ execs \in Nat
  BY BoundAssumption DEF IInv, TypeOK, Registry
<1> HIDE DEF f
<1>3. /\ registry'[p] = With(registry[p], f)
      /\ \A q \in Place : q # p => registry'[q] = registry[q]
  BY <1>2 DEF RegisterAs, f
<1>4. \A q \in Place : \A i \in DOMAIN registry'[q] :
          registry'[q][i] = f \/ (i \in DOMAIN registry[q] /\ registry'[q][i] = registry[q][i])
  <2>1. /\ registry[p] \in Seq(Func)
        /\ IsPrefix(registry[p], registry[p])
    BY <1>2, PrefixReflexive
  <2>2. \A i \in DOMAIN With(registry[p], f) :
            \/ With(registry[p], f)[i] = f
            \/ i \in DOMAIN registry[p] /\ With(registry[p], f)[i] = registry[p][i]
    BY <1>1, <2>1, WithExtends
  <2> QED BY <1>3, <2>2
<1>5. Committed = registry /\ Committed' = registry'
  BY DEF Committed
<1>6. OlderInv'
  <2>1. \A q \in Place : \A i \in DOMAIN registry[q] : registry[q][i].gen < execs + 1
    BY DEF ExecInv, OlderInv, Older
  <2>2. execs' = execs
    OBVIOUS
  <2>3. \A q \in Place : \A i \in DOMAIN registry'[q] : registry'[q][i].gen < execs + 1
    <3> TAKE q \in Place
    <3> TAKE i \in DOMAIN registry'[q]
    <3>1. CASE registry'[q][i] = f
      <4>1. registry'[q][i].gen = 0
        BY <1>1, <3>1
      <4> QED BY <1>2, <4>1
    <3>2. CASE i \in DOMAIN registry[q] /\ registry'[q][i] = registry[q][i]
      BY <2>1, <3>2
    <3> QED BY <1>4, <3>1, <3>2
  <2> QED BY <2>2, <2>3 DEF OlderInv, Older
<1>7. OnceInv'
  BY <1>1, <1>4, <1>5 DEF ExecInv, OnceInv, OnceIn
<1>8. GrowingInv'
  BY NamesAssumption DEF GrowingInv
<1> QED BY <1>6, <1>7, <1>8 DEF ExecInv

\* A step that touches neither the registry nor a module.
LEMMA Other_ExecInv ==
    ASSUME ExecInv, UNCHANGED <<registry, lock, loaded, work, execs>> PROVE ExecInv'
BY DEF ExecInv, GrowingInv, Growing, OlderInv, Older, OnceInv, OnceIn, Committed

LEMMA Init_ExecInv == Init => ExecInv
<1> SUFFICES ASSUME Init PROVE ExecInv
  OBVIOUS
<1>1. lock = None /\ \A p \in Place : DOMAIN registry[p] = {}
  BY DEF Init
<1> QED BY <1>1, NamesAssumption
        DEF ExecInv, GrowingInv, OlderInv, Older, OnceInv, OnceIn, Committed

LEMMA Next_ExecInv == IInv /\ ExecInv /\ [Next]_vars => ExecInv'
<1> SUFFICES ASSUME IInv, ExecInv, [Next]_vars PROVE ExecInv'
  OBVIOUS
<1>1. ASSUME NEW w \in Worker, NEW m \in Approved, BeginLoad(w, m) PROVE ExecInv'
  BY <1>1, Begin_ExecInv DEF BeginLoad, Owner
<1>2. ASSUME NEW w \in Worker, NEW m \in Candidate, BeginVerify(w, m) PROVE ExecInv'
  BY <1>2, Begin_ExecInv DEF BeginVerify, Owner
<1>3. ASSUME NEW w \in Worker, NEW m \in Plugin, BeginPlugin(w, m) PROVE ExecInv'
  BY <1>3, Begin_ExecInv DEF BeginPlugin, Owner
<1>4. ASSUME NEW w \in Worker,
             Register(w) \/ Spoil(w) \/ LoadEnds(w) \/ VerifyEnds(w) \/ PluginEnds(w)
      PROVE  ExecInv'
  BY <1>4, Register_ExecInv, Spoil_ExecInv, Ends_ExecInv
<1>5. ASSUME NEW c \in Caller, ApplyDecorator(c) \/ RegisterCrossCutting(c) PROVE ExecInv'
  BY <1>5, CallerRegisters_ExecInv DEF ApplyDecorator, RegisterCrossCutting, Place
<1>6. ASSUME NEW c \in Caller, CreateDecorator(c) PROVE ExecInv'
  BY <1>6, Other_ExecInv DEF CreateDecorator
<1>7. ASSUME NEW e \in Evaluator, Look(e) PROVE ExecInv'
  BY <1>7, Other_ExecInv DEF Look
<1>8. CASE UNCHANGED vars
  BY <1>8, Other_ExecInv DEF vars
<1> QED BY <1>1, <1>2, <1>3, <1>4, <1>5, <1>6, <1>7, <1>8 DEF Next

LEMMA ExecInvariance == Spec => []ExecInv
BY Invariance, Init_ExecInv, Next_ExecInv, PTL DEF Spec

\* An approved rule contributes the functions of one execution at most, and
\* only of one that _load_auto_rules recorded in _LOADED_APPROVED_RULES.
THEOREM ApprovedRunOnce == Spec => []ApprovedLoadedOnce
<1>1. OnceInv => ApprovedLoadedOnce
  BY DEF OnceInv, OnceIn, ApprovedLoadedOnce, ToSet
<1> QED BY <1>1, ExecInvariance, PTL DEF ExecInv

-----------------------------------------------------------------------------
(* Refinement                                                              *)

\* Registrations of one module, or of one thread, are one addition.
LEMMA AtomicAddition ==
    ASSUME NEW f \in Func, f.owner \notin Candidate, NEW places \in SUBSET Place,
           Committed' = [p \in Place |-> IF p \in places THEN With(Committed[p], f)
                                                         ELSE Committed[p]],
           view' = view
    PROVE  Atomic!Next
<1>1. f \in {g \in Func : g.owner \notin Candidate}
  OBVIOUS
<1>2. Atomic!Add(f, places)
  BY DEF Atomic!Add, Atomic!Place, Atomic!With, With, Contains, Place
<1> QED BY <1>1, <1>2 DEF Atomic!Next, Atomic!Place, Place

\* A module that ends with the earlier rules in place has added its function
\* to some places.
LEMMA Ends_Refines ==
    ASSUME IInv, ExecInv, NEW w \in Worker, LoadEnds(w) \/ VerifyEnds(w) \/ PluginEnds(w)
    PROVE  [Atomic!Next]_<<Committed, view>>
<1> DEFINE f == work[w].fn
           b == work[w].before
<1>1. work[w].pc = "exec" /\ lock' = None /\ view' = view
  BY DEF LoadEnds, VerifyEnds, PluginEnds, Ends, Return
<1>2. /\ Running(work[w]) /\ Growing(work[w]) /\ Committed = b /\ Committed' = registry'
      /\ b \in [Place -> Seq(Func)] /\ registry \in [Place -> Seq(Func)] /\ f \in Func
  BY <1>1, Holder, NamesAssumption DEF ExecInv, GrowingInv, Committed
<1>3. CASE registry' = b
  BY <1>1, <1>2, <1>3
<1>4. CASE registry' = registry /\ work[w].kind # "verify" /\ Intact(w)
  <2>1. /\ f.owner \notin Candidate /\ Older(b, f.gen)
        /\ \A p \in Place : registry[p] \in Outcomes(b[p], f) /\ IsPrefix(b[p], registry[p])
    BY <1>1, <1>2, <1>4, Holder, KindsAssumption DEF Growing, Running, Intact
  <2> HIDE DEF f, b
  <2>2. \A p \in Place : registry[p] = b[p] \/ registry[p] = Append(b[p], f)
    BY <1>2, <2>1, IntactOutcome DEF Older
  <2>3. \A p \in Place : ~Contains(b[p], f)
    <3>1. f.gen \in Nat
      BY <1>2, BoundAssumption DEF Func
    <3> QED BY <1>2, <2>1, <3>1 DEF Older, Contains
  <2> DEFINE places == {p \in Place : registry[p] # b[p]}
  <2>4. registry = [p \in Place |-> IF p \in places THEN With(b[p], f) ELSE b[p]]
    BY <1>2, <2>2, <2>3 DEF With
  <2> HIDE DEF places
  <2>5. places \in SUBSET Place
    BY DEF places
  <2> QED BY <1>1, <1>2, <1>4, <2>1, <2>4, <2>5, AtomicAddition
<1>5. LoadEnds(w) => registry' = b \/ (registry' = registry /\ Intact(w))
  BY DEF LoadEnds
<1>6. PluginEnds(w) => registry' = registry /\ Intact(w)
  BY <1>2 DEF PluginEnds, Ends, Running, Intact
<1> QED BY <1>3, <1>4, <1>5, <1>6 DEF LoadEnds, VerifyEnds, PluginEnds, Ends

LEMMA CallerRegisters_Refines ==
    ASSUME IInv, NEW c \in Caller, NEW p \in Place, NEW src,
           lock = None, lock' = None, view' = view,
           RegisterAs([owner |-> c, gen |-> 0], p, src)
    PROVE  Atomic!Next
<1> DEFINE f == [owner |-> c, gen |-> 0]
<1>1. f \in Func /\ f.owner \notin Candidate
  BY BoundAssumption, KindsAssumption DEF Func, Owner
<1>2. registry \in [Place -> Seq(Func)]
  BY DEF IInv, TypeOK, Registry
<1> HIDE DEF f
<1>3. registry' = [q \in Place |-> IF q \in {p} THEN With(registry[q], f) ELSE registry[q]]
  BY <1>2 DEF RegisterAs, f
<1>4. Committed = registry /\ Committed' = registry'
  BY DEF Committed
<1>5. {p} \in SUBSET Place
  OBVIOUS
<1>6. Committed' = [q \in Place |-> IF q \in {p} THEN With(Committed[q], f) ELSE Committed[q]]
  BY <1>3, <1>4
<1> QED BY <1>1, <1>5, <1>6, AtomicAddition

LEMMA Next_Refines ==
    IInv /\ ExecInv /\ [Next]_vars => [Atomic!Next]_<<Committed, view>>
<1> SUFFICES ASSUME IInv, ExecInv, [Next]_vars
             PROVE  [Atomic!Next]_<<Committed, view>>
  OBVIOUS
<1>1. work \in [Worker -> WorkState] /\ lock \in Worker \union {None}
  BY DEF IInv, TypeOK, WorkState
<1>2. ASSUME NEW w \in Worker, NEW m,
             BeginLoad(w, m) \/ BeginVerify(w, m) \/ BeginPlugin(w, m)
      PROVE  UNCHANGED <<Committed, view>>
  BY <1>1, <1>2, NamesAssumption DEF BeginLoad, BeginVerify, BeginPlugin, Begin, Committed
<1>3. ASSUME NEW w \in Worker, Register(w) \/ Spoil(w)
      PROVE  UNCHANGED <<Committed, view>>
  BY <1>3, NamesAssumption DEF Register, Spoil, IInv, LockInv, Committed
<1>4. ASSUME NEW w \in Worker, LoadEnds(w) \/ VerifyEnds(w) \/ PluginEnds(w)
      PROVE  [Atomic!Next]_<<Committed, view>>
  BY <1>4, Ends_Refines
<1>5. ASSUME NEW c \in Caller, CreateDecorator(c) PROVE UNCHANGED <<Committed, view>>
  BY <1>5 DEF CreateDecorator, Committed
<1>6. ASSUME NEW c \in Caller, ApplyDecorator(c) \/ RegisterCrossCutting(c)
      PROVE  Atomic!Next
  BY <1>6, CallerRegisters_Refines DEF ApplyDecorator, RegisterCrossCutting, Place
<1>7. ASSUME NEW e \in Evaluator, Look(e) PROVE Atomic!Next
  <2>1. Committed = registry /\ Committed' = Committed
    BY <1>7 DEF Look, Committed
  <2>2. \E t \in Type : Atomic!Look(e, t)
    BY <1>7, <2>1 DEF Look, Atomic!Look
  <2> QED BY <2>2 DEF Atomic!Next
<1>8. CASE UNCHANGED vars
  BY <1>8 DEF vars, Committed
<1> QED BY <1>2, <1>3, <1>4, <1>5, <1>6, <1>7, <1>8 DEF Next

\* Loads, roll-backs, verifications and plugins, taken apart into their steps,
\* look to every other thread like single additions to a registry that only
\* grows.
THEOREM RegistryImplementsAtomic == Spec => ImplementsAtomicRegistry
<1>1. Init => Atomic!Init
  BY DEF Init, Atomic!Init, Atomic!Place, Place, Committed
<1>2. IInv /\ ExecInv /\ [Next]_vars => [Atomic!Next]_(Atomic!vars)
  BY Next_Refines DEF Atomic!vars
<1> QED BY <1>1, <1>2, Invariance, ExecInvariance, PTL
        DEF Spec, Atomic!Spec, ImplementsAtomicRegistry
=============================================================================
