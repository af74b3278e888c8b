---------------------------- MODULE EvidenceProofs ---------------------------
(***************************************************************************)
(* Proofs about Evidence, for any number of runs, plans, plugins and       *)
(* identities and any number of edits.                                     *)
(***************************************************************************)
EXTENDS Evidence, TLAPS

Unsigned(env) == env.sig = Null /\ env.cert = Missing

\* What verification compares, but for whether the bundle was ever issued.
Matches(env) ==
    /\ env.sig \in Bundle
    /\ env.cert = env.sig
    /\ env.sig.bytes = Canonical(env)

\* Sigstore has only been given what runs found.
SignedInv == \A b \in signed : Truthful(b.bytes)

\* An envelope shows bundles that were issued, whoever edited it.
Shows(env, issued) == env.sig \in issued \union {Null} /\ env.cert \in issued \union {Null, Missing}

OutputsInv == \A env \in outputs : Shows(env, signed) /\ (Unsigned(env) \/ Matches(env))

FileInv == file.text = "whole" => Shows(file.env, signed)

\* How far a run has come with its envelope.
JobInv(j, issued) ==
    /\ j.pc \in {"open", "published"} => j.opened
    /\ j.pc \in {"begun", "read", "built", "signed"} => ~j.opened
    /\ j.pc \in {"begun", "read", "built", "signed"} \/ j.opened => j.opts \in Options
    /\ j.pc \in {"read", "built", "signed"} \/ j.opened => j.plan \in Plan
    /\ j.pc \in {"built", "signed"} \/ j.opened =>
         /\ j.env \in EvidenceEnvelope
         /\ Truthful(j.env)
         /\ j.env.plan = j.plan
    /\ j.pc = "built" => Unsigned(j.env)
    /\ j.pc = "signed" => j.opts.sign
    /\ j.pc = "signed" \/ j.opened =>
         IF j.opts.sign THEN j.env.sig \in issued /\ Matches(j.env) ELSE Unsigned(j.env)

\* What the file holds as long as nobody but the run has touched it.
AloneInv(j, held) ==
    j.alone =>
        /\ j.pc \in {"begun", "read", "built", "signed", "failed"} /\ ~j.opened =>
             held = j.found
        /\ j.pc = "failed" /\ j.opened => held \in {Torn, Whole(j.env)}
        /\ j.pc = "open" => held = Torn
        /\ j.pc = "published" => held = Whole(j.env)

JobsInv == \A r \in Run : JobInv(job[r], signed) /\ AloneInv(job[r], file)

\* Verdicts are not undone by what is signed or written later.
VerdictInv ==
    /\ verdict.result = "ok" =>
         /\ verdict.env.sig \in signed
         /\ Matches(verdict.env)
         /\ verdict.env.sig.by = verdict.id
    /\ verdict.result = "fail" =>
         ~(Matches(verdict.env) /\ verdict.env.sig.by = verdict.id)

IInv ==
    /\ TypeOK
    /\ SignedInv
    /\ OutputsInv
    /\ FileInv
    /\ JobsInv
    /\ VerdictInv

-----------------------------------------------------------------------------
(* What an analysis claims, and what signing adds to it.                   *)

LEMMA ChangesType ==
    ASSUME NEW p \in Plan, NEW plugins \in SUBSET Plugin
    PROVE  Changes(p, plugins) \subseteq Change
<1>1. ASSUME NEW x PROVE Source(x, plugins) \in Plugin \union {Builtin}
  BY DEF Source
<1> QED BY <1>1 DEF Changes, Change

LEMMA PluginSourcesType ==
    ASSUME NEW changes \in SUBSET Change
    PROVE  PluginSources(changes) \subseteq Plugin
BY DEF PluginSources, Change

\* The envelope of a run is of the plan it read, and says what was found.
LEMMA EnvelopeIsTruthful ==
    ASSUME NEW j \in Job, j.opts \in Options, j.plan \in Plan, Acceptable(j)
    PROVE  /\ Envelope(j) \in EvidenceEnvelope
           /\ Truthful(Envelope(j))
           /\ Unsigned(Envelope(j))
           /\ Envelope(j).plan = j.plan
<1> DEFINE C == Changes(j.plan, j.opts.plugins)
<1>1. j.opts.plugins \in SUBSET Plugin /\ j.at \in Nat /\ j.opts.agent \in Token
  BY EvidenceAssumption DEF Job, Acceptable
<1>2. C \subseteq Change /\ PluginSources(C) \subseteq Plugin
  BY <1>1, ChangesType, PluginSourcesType
<1>3. Envelope(j) = [plan |-> j.plan, attested |-> j.plan, changes |-> C,
        provenance |-> PluginSources(C), agent |-> j.opts.agent,
        at |-> j.at, sig |-> Null, cert |-> Missing]
  BY DEF Envelope, DigestOf, Provenance
<1> QED BY <1>1, <1>2, <1>3 DEF EvidenceEnvelope, EnvelopeWith, Truthful, Unsigned

\* The canonical form keeps the claims.
LEMMA CanonicalKeepsClaims ==
    ASSUME NEW env \in EvidenceEnvelope
    PROVE  /\ Canonical(env) \in EnvelopeWith({Null}, {Null})
           /\ Truthful(Canonical(env)) <=> Truthful(env)
BY DEF Canonical, EvidenceEnvelope, EnvelopeWith, Truthful

LEMMA CanonicalForm ==
    ASSUME NEW env \in EvidenceEnvelope
    PROVE  Canonical(env) =
             [plan |-> env.plan, attested |-> env.attested, changes |-> env.changes,
              provenance |-> env.provenance, agent |-> env.agent, at |-> env.at,
              sig |-> Null, cert |-> Null]
<1> SUFFICES ASSUME NEW form, form = Canonical(env)
             PROVE  form =
               [plan |-> env.plan, attested |-> env.attested, changes |-> env.changes,
                provenance |-> env.provenance, agent |-> env.agent, at |-> env.at,
                sig |-> Null, cert |-> Null]
  OBVIOUS
<1> QED BY DEF Canonical, EvidenceEnvelope, EnvelopeWith

LEMMA BundleType ==
    ASSUME NEW env \in EvidenceEnvelope, NEW id \in Identity
    PROVE  [by |-> id, bytes |-> Canonical(env)] \in Bundle
BY CanonicalKeepsClaims DEF Bundle

\* An envelope with a bundle, and why it matches one of its own bytes.
WithBundle(env, b) == [env EXCEPT !.sig = b, !.cert = b]

LEMMA SignedMatches ==
    ASSUME NEW env \in EvidenceEnvelope, NEW b \in Bundle, b.bytes = Canonical(env)
    PROVE  /\ WithBundle(env, b) \in EvidenceEnvelope
           /\ WithBundle(env, b).sig = b
           /\ Matches(WithBundle(env, b))
           /\ WithBundle(env, b).plan = env.plan
           /\ Truthful(env) => Truthful(WithBundle(env, b))
<1> SUFFICES ASSUME NEW shown, shown = WithBundle(env, b)
             PROVE  /\ shown \in EvidenceEnvelope
                    /\ shown.sig = b
                    /\ Matches(shown)
                    /\ shown.plan = env.plan
                    /\ Truthful(env) => Truthful(shown)
  OBVIOUS
<1>1. shown = [plan |-> env.plan, attested |-> env.attested, changes |-> env.changes,
               provenance |-> env.provenance, agent |-> env.agent, at |-> env.at,
               sig |-> b, cert |-> b]
  BY DEF WithBundle, EvidenceEnvelope, EnvelopeWith
<1>2. shown \in EvidenceEnvelope
  BY <1>1 DEF EvidenceEnvelope, EnvelopeWith
<1>3. Canonical(shown) = Canonical(env)
  BY <1>1, <1>2, CanonicalForm
<1>4. Matches(shown)
  BY <1>1, <1>3 DEF Matches
<1>5. Truthful(env) => Truthful(shown)
  BY <1>1 DEF Truthful
<1> QED BY <1>1, <1>2, <1>4, <1>5

-----------------------------------------------------------------------------
(* The invariant.                                                          *)

LEMMA WholeIsFile ==
    ASSUME NEW env \in EvidenceEnvelope
    PROVE  /\ Whole(env) \in EvidenceFile
           /\ Whole(env).text = "whole" /\ Whole(env).env = env
           /\ [Whole(env) EXCEPT !.layout = "edited"] \in EvidenceFile
           /\ [Whole(env) EXCEPT !.layout = "edited"].text = "whole"
           /\ [Whole(env) EXCEPT !.layout = "edited"].env = env
BY DEF Whole, EvidenceFile

LEMMA IdleIsJob == Idle \in Job
BY DEF Idle, Job, Resting, Absent, EvidenceFile

LEMMA Init_IInv == Init => IInv
<1> SUFFICES ASSUME Init PROVE IInv
  OBVIOUS
<1>1. TypeOK
  BY IdleIsJob DEF Init, TypeOK, EvidenceFile
<1>2. SignedInv /\ OutputsInv /\ FileInv /\ VerdictInv
  BY DEF Init, SignedInv, OutputsInv, FileInv, VerdictInv, Absent
<1>3. JobsInv
  BY DEF Init, JobsInv, JobInv, AloneInv, Idle
<1> QED BY <1>1, <1>2, <1>3 DEF IInv

\* What is known of a run's envelope stays true as Sigstore issues more.
LEMMA JobInvGrows ==
    ASSUME NEW j, NEW issued, NEW more, issued \subseteq more, JobInv(j, issued)
    PROVE  JobInv(j, more)
BY DEF JobInv

\* A step of one run that touches neither the file nor what others rely on.
LEMMA QuietStep_IInv ==
    ASSUME IInv, NEW r \in Run, NEW j \in Job, job' = [job EXCEPT ![r] = j],
           JobInv(j, signed), AloneInv(j, file), begun' \in Nat,
           UNCHANGED <<plan, file, signed, verdict, outputs, edits>>
    PROVE  IInv'
<1>1. TypeOK'
  BY DEF IInv, TypeOK
<1>2. JobsInv'
  <2> SUFFICES ASSUME NEW s \in Run
               PROVE  JobInv(job'[s], signed) /\ AloneInv(job'[s], file)
    BY DEF JobsInv
  <2>1. job'[s] = IF s = r THEN j ELSE job[s]
    BY DEF IInv, TypeOK
  <2> QED BY <2>1 DEF IInv, JobsInv
<1>3. (SignedInv /\ OutputsInv /\ FileInv /\ VerdictInv)'
  BY DEF IInv, SignedInv, OutputsInv, FileInv, VerdictInv
<1> QED BY <1>1, <1>2, <1>3 DEF IInv

\* A step of one run that changes the file, and may report an envelope.
LEMMA TouchStep_IInv ==
    ASSUME IInv, NEW r \in Run, NEW j \in Job, Touch(r, j),
           JobInv(j, signed), AloneInv(j, file'),
           file' \in EvidenceFile, FileInv',
           outputs' \subseteq EvidenceEnvelope, OutputsInv',
           UNCHANGED <<plan, begun, signed, verdict, edits>>
    PROVE  IInv'
<1>1. /\ job \in [Run -> Job]
      /\ \A s \in Run : job'[s] = IF s = r THEN j ELSE [job[s] EXCEPT !.alone = FALSE]
  BY DEF IInv, TypeOK, Touch
<1>2. \A s \in Run : [job[s] EXCEPT !.alone = FALSE] \in Job
  BY <1>1 DEF Job
<1>3. TypeOK'
  BY <1>1, <1>2 DEF IInv, TypeOK, Touch
<1>4. JobsInv'
  <2> SUFFICES ASSUME NEW s \in Run
               PROVE  JobInv(job'[s], signed) /\ AloneInv(job'[s], file')
    BY DEF JobsInv
  <2>1. CASE s = r
    BY <1>1, <2>1
  <2>2. CASE s # r
    <3> DEFINE k == job[s]
    <3>1. job'[s] = [k EXCEPT !.alone = FALSE] /\ k \in Job /\ JobInv(k, signed)
      BY <1>1, <2>2 DEF IInv, JobsInv
    <3> HIDE DEF k
    <3> QED BY <3>1 DEF JobInv, AloneInv, Job
  <2> QED BY <2>1, <2>2
<1>5. (SignedInv /\ VerdictInv)'
  BY DEF IInv, SignedInv, VerdictInv
<1> QED BY <1>3, <1>4, <1>5 DEF IInv

LEMMA Begin_IInv == ASSUME IInv, NEW r \in Run, Begin(r) PROVE IInv'
<1>1. PICK o \in Options :
        job' = [job EXCEPT ![r] = [Idle EXCEPT !.pc = "begun", !.opts = o,
                                     !.at = begun', !.found = file]]
  BY DEF Begin, Set
<1> DEFINE j == [Idle EXCEPT !.pc = "begun", !.opts = o, !.at = begun', !.found = file]
<1>2. begun' \in Nat /\ file \in EvidenceFile
  BY DEF IInv, TypeOK, Begin
<1>3. j \in Job
  BY <1>2, IdleIsJob DEF Job, Idle
<1>4. JobInv(j, signed) /\ AloneInv(j, file)
  BY DEF JobInv, AloneInv, Idle
<1> QED BY <1>1, <1>2, <1>3, <1>4, QuietStep_IInv DEF Begin

\* What a run is doing, as the invariant has it.
LEMMA JobFacts ==
    ASSUME IInv, NEW r \in Run
    PROVE  job[r] \in Job /\ JobInv(job[r], signed) /\ AloneInv(job[r], file)
BY DEF IInv, TypeOK, JobsInv

\* A run gives up with the file as it is.
LEMMA GiveUp_IInv ==
    ASSUME IInv, NEW r \in Run, NEW pc \in {"failed", "died"}, To(r, pc),
           job[r].pc \in {"begun", "read", "built", "signed", "open"},
           pc = "failed" => job[r].pc # "open",
           UNCHANGED <<plan, file, begun, signed, verdict, outputs, edits>>
    PROVE  IInv'
<1> DEFINE k == job[r]
           j == [k EXCEPT !.pc = pc]
<1>1. k \in Job /\ JobInv(k, signed) /\ AloneInv(k, file) /\ begun' \in Nat
  BY JobFacts DEF IInv, TypeOK
<1>2. job' = [job EXCEPT ![r] = j]
  BY DEF To, Set
<1> HIDE DEF k
<1>3. j \in Job
  BY <1>1 DEF Job, Resting
<1>4. JobInv(j, signed) /\ AloneInv(j, file)
  BY <1>1 DEF JobInv, AloneInv, Job, k
<1> QED BY <1>1, <1>2, <1>3, <1>4, QuietStep_IInv

LEMMA Die_IInv == ASSUME IInv, NEW r \in Run, Die(r) PROVE IInv'
<1>1. job[r].pc \in {"begun", "read", "built", "signed", "open"}
  BY JobFacts DEF Die, Job, Resting
<1> QED BY <1>1, GiveUp_IInv DEF Die

LEMMA ReadPlan_IInv == ASSUME IInv, NEW r \in Run, ReadPlan(r) PROVE IInv'
<1> DEFINE k == job[r]
           j == [k EXCEPT !.pc = "read", !.plan = plan]
<1>1. k \in Job /\ JobInv(k, signed) /\ AloneInv(k, file) /\ k.pc = "begun"
  BY JobFacts DEF ReadPlan
<1>2. plan \in Plan /\ begun' \in Nat /\ job' = [job EXCEPT ![r] = j]
  BY DEF ReadPlan, Set, IInv, TypeOK
<1> HIDE DEF k
<1>3. j \in Job
  BY <1>1, <1>2 DEF Job
<1>4. JobInv(j, signed) /\ AloneInv(j, file)
  BY <1>1, <1>2 DEF JobInv, AloneInv, Job
<1> QED BY <1>1, <1>2, <1>3, <1>4, QuietStep_IInv DEF ReadPlan

LEMMA BuildEvidence_IInv == ASSUME IInv, NEW r \in Run, BuildEvidence(r) PROVE IInv'
<1>1. CASE ~Acceptable(job[r])
  BY <1>1, GiveUp_IInv DEF BuildEvidence
<1>2. CASE Acceptable(job[r])
  <2> DEFINE k == job[r]
             e == Envelope(k)
             j == [k EXCEPT !.pc = "built", !.env = e]
  <2>1. k \in Job /\ JobInv(k, signed) /\ AloneInv(k, file) /\ k.pc = "read"
    BY JobFacts DEF BuildEvidence
  <2>2. begun' \in Nat /\ job' = [job EXCEPT ![r] = j]
    BY <1>2 DEF BuildEvidence, Set, IInv, TypeOK
  <2>3. k.opts \in Options /\ k.plan \in Plan
    BY <2>1 DEF JobInv
  <2>4. e \in EvidenceEnvelope /\ Truthful(e) /\ Unsigned(e) /\ e.plan = k.plan
    BY <1>2, <2>1, <2>3, EnvelopeIsTruthful
  <2> HIDE DEF k, e
  <2>5. j \in Job
    BY <2>1, <2>4 DEF Job
  <2>6. JobInv(j, signed) /\ AloneInv(j, file)
    BY <2>1, <2>3, <2>4 DEF JobInv, AloneInv, Job
  <2> QED BY <2>1, <2>2, <2>5, <2>6, QuietStep_IInv DEF BuildEvidence
<1> QED BY <1>1, <1>2

\* Signing: what Sigstore is given is what the run found, and the envelope
\* shows the bundle it got.
LEMMA SignEnvelope_IInv == ASSUME IInv, NEW r \in Run, SignEnvelope(r) PROVE IInv'
<1> DEFINE k == job[r]
           b == [by |-> k.opts.by, bytes |-> Canonical(k.env)]
           e == WithBundle(k.env, b)
           j == [k EXCEPT !.pc = "signed", !.env = e]
<1>1. CASE To(r, "failed") /\ UNCHANGED signed
  BY <1>1, GiveUp_IInv DEF SignEnvelope
<1>2. CASE /\ signed' = signed \union {b}
           /\ Set(r, [k EXCEPT !.pc = "signed", !.env.sig = b, !.env.cert = b])
  <2>1. k \in Job /\ JobInv(k, signed) /\ AloneInv(k, file) /\ k.pc = "built" /\ k.opts.sign
    BY JobFacts DEF SignEnvelope
  <2>2. /\ k.opts \in Options /\ k.plan \in Plan /\ k.env \in EvidenceEnvelope
        /\ Truthful(k.env) /\ k.env.plan = k.plan
    BY <2>1 DEF JobInv
  <2>3. k.opts.by \in Identity
    BY <2>2, EvidenceAssumption
  <2>4. b \in Bundle /\ b.bytes = Canonical(k.env)
    BY <2>2, <2>3, BundleType
  <2> HIDE DEF b
  <2>5. /\ e \in EvidenceEnvelope /\ e.sig = b /\ Matches(e) /\ e.plan = k.env.plan /\ Truthful(e)
    BY <2>2, <2>4, SignedMatches
  <2>6. Truthful(b.bytes)
    BY <2>2, <2>4, CanonicalKeepsClaims
  <2>7. job' = [job EXCEPT ![r] = j]
    <3>1. [k EXCEPT !.pc = "signed", !.env.sig = b, !.env.cert = b] = j
      BY <2>1 DEF Job, WithBundle
    <3> QED BY <3>1, <1>2 DEF Set
  <2> HIDE DEF k, e
  <2>8. j \in Job /\ job \in [Run -> Job]
    BY <2>1, <2>5 DEF Job, IInv, TypeOK
  <2>9. JobInv(j, signed') /\ AloneInv(j, file)
    <3>1. /\ j.pc = "signed" /\ j.opts = k.opts /\ j.plan = k.plan /\ j.env = e
          /\ j.alone = k.alone /\ j.found = k.found
      BY <2>1 DEF Job
    <3>2. b \in signed'
      BY <1>2
    <3> QED BY <2>1, <2>2, <2>5, <3>1, <3>2 DEF JobInv, AloneInv
  <2> HIDE DEF j
  <2>10. UNCHANGED <<plan, file, begun, verdict, outputs, edits>>
    BY DEF SignEnvelope
  <2>11. TypeOK'
    BY <1>2, <2>4, <2>7, <2>8, <2>10 DEF IInv, TypeOK
  <2>12. SignedInv'
    BY <1>2, <2>6 DEF IInv, SignedInv
  <2>13. OutputsInv' /\ FileInv' /\ VerdictInv'
    BY <1>2, <2>10 DEF IInv, OutputsInv, FileInv, VerdictInv, Shows
  <2>14. JobsInv'
    <3> SUFFICES ASSUME NEW s \in Run
                 PROVE  JobInv(job'[s], signed') /\ AloneInv(job'[s], file)
      BY <2>10 DEF JobsInv
    <3>1. CASE s = r
      BY <2>7, <2>8, <2>9, <3>1
    <3>2. CASE s # r
      <4>1. job'[s] = job[s]
        BY <2>7, <2>8, <3>2
      <4> QED BY <4>1, <1>2, JobFacts, JobInvGrows
    <3> QED BY <3>1, <3>2
  <2> QED BY <2>11, <2>12, <2>13, <2>14 DEF IInv
<1> QED BY <1>1, <1>2 DEF SignEnvelope

LEMMA OpenFile_IInv == ASSUME IInv, NEW r \in Run, OpenFile(r) PROVE IInv'
<1> DEFINE k == job[r]
           j == [k EXCEPT !.pc = "open", !.opened = TRUE]
<1>1. k \in Job /\ JobInv(k, signed) /\ AloneInv(k, file) /\ k.pc \in {"built", "signed"}
  BY JobFacts DEF OpenFile, ReadyToWrite
<1>2. CASE To(r, "failed") /\ UNCHANGED file
  BY <1>1, <1>2, GiveUp_IInv DEF OpenFile
<1>3. CASE file' = Torn /\ Touch(r, j)
  <2>1. k.pc = "signed" \/ ~k.opts.sign
    BY DEF OpenFile, ReadyToWrite
  <2> HIDE DEF k
  <2>2. j \in Job
    BY <1>1 DEF Job
  <2>3. JobInv(j, signed)
    BY <1>1, <2>1 DEF JobInv, Job
  <2>4. AloneInv(j, file')
    BY <1>1, <1>3 DEF AloneInv, Job
  <2>5. file' \in EvidenceFile /\ FileInv'
    BY <1>3 DEF EvidenceFile, FileInv, Torn
  <2>6. outputs' \subseteq EvidenceEnvelope /\ OutputsInv'
    BY DEF OpenFile, IInv, TypeOK, OutputsInv
  <2> QED BY <1>3, <2>2, <2>3, <2>4, <2>5, <2>6, TouchStep_IInv DEF OpenFile
<1> QED BY <1>2, <1>3 DEF OpenFile

\* What a run writes shows a bundle that was issued, or none.
LEMMA WrittenShows ==
    ASSUME NEW j \in Job, JobInv(j, signed), j.pc \in {"open", "published"}
    PROVE  /\ j.env \in EvidenceEnvelope
           /\ Shows(j.env, signed)
           /\ Unsigned(j.env) \/ Matches(j.env)
BY DEF JobInv, Shows, Unsigned, Matches

LEMMA WriteFile_IInv == ASSUME IInv, NEW r \in Run, WriteFile(r) PROVE IInv'
<1> DEFINE k == job[r]
           j == [k EXCEPT !.pc = "published"]
<1>1. k \in Job /\ JobInv(k, signed) /\ AloneInv(k, file) /\ k.pc = "open"
  BY JobFacts DEF WriteFile
<1>2. k.env \in EvidenceEnvelope /\ Shows(k.env, signed) /\ (Unsigned(k.env) \/ Matches(k.env))
  BY <1>1, WrittenShows
<1>3. /\ file' = Whole(k.env) \/ (file' = Torn /\ file # Torn)
      /\ Touch(r, j)
      /\ outputs' = outputs \union {k.env}
      /\ UNCHANGED <<plan, begun, signed, verdict, edits>>
  BY DEF WriteFile
<1>4. Whole(k.env) \in EvidenceFile /\ Whole(k.env).env = k.env
  BY <1>2, WholeIsFile
<1>5. file' \in EvidenceFile /\ FileInv'
  BY <1>2, <1>3, <1>4 DEF FileInv, EvidenceFile, Torn
<1>6. outputs' \subseteq EvidenceEnvelope /\ OutputsInv'
  BY <1>2, <1>3 DEF IInv, TypeOK, OutputsInv
<1> HIDE DEF k
<1>7. j \in Job
  BY <1>1 DEF Job, Resting
<1>8. JobInv(j, signed)
  BY <1>1 DEF JobInv, Job
<1>9. AloneInv(j, file')
  BY <1>1, <1>3 DEF AloneInv, Job
<1> QED BY <1>3, <1>5, <1>6, <1>7, <1>8, <1>9, TouchStep_IInv

LEMMA WriteFails_IInv == ASSUME IInv, NEW r \in Run, WriteFails(r) PROVE IInv'
<1> DEFINE k == job[r]
           j == [k EXCEPT !.pc = "failed"]
<1>1. k \in Job /\ JobInv(k, signed) /\ AloneInv(k, file) /\ k.pc = "open"
  BY JobFacts DEF WriteFails
<1>2. k.env \in EvidenceEnvelope /\ Shows(k.env, signed) /\ (Unsigned(k.env) \/ Matches(k.env))
  BY <1>1, WrittenShows
<1>3. /\ file' \in {file, Torn, Whole(k.env)}
      /\ IF file' = file THEN Set(r, j) ELSE Touch(r, j)
      /\ outputs' = outputs \union IF file' = Whole(k.env) THEN {k.env} ELSE {}
      /\ UNCHANGED <<plan, begun, signed, verdict, edits>>
  BY DEF WriteFails
<1>4. Whole(k.env) \in EvidenceFile /\ Whole(k.env).env = k.env
  BY <1>2, WholeIsFile
<1>5. file' \in EvidenceFile /\ FileInv'
  BY <1>2, <1>3, <1>4 DEF IInv, TypeOK, FileInv, EvidenceFile, Torn
<1>6. outputs' \subseteq EvidenceEnvelope /\ OutputsInv'
  BY <1>2, <1>3 DEF IInv, TypeOK, OutputsInv
<1> HIDE DEF k
<1>7. j \in Job
  BY <1>1 DEF Job, Resting
<1>8. JobInv(j, signed)
  BY <1>1 DEF JobInv, Job
<1>9. AloneInv(j, file')
  BY <1>1, <1>3 DEF AloneInv, JobInv, Job
<1>10. CASE file' = file
  <2>1. job' = [job EXCEPT ![r] = j]
    BY <1>3, <1>10 DEF Set
  <2>2. TypeOK'
    BY <2>1, <1>3, <1>6, <1>7, <1>10 DEF IInv, TypeOK
  <2>3. JobsInv'
    <3> SUFFICES ASSUME NEW s \in Run
                 PROVE  JobInv(job'[s], signed) /\ AloneInv(job'[s], file)
      BY <1>3, <1>10 DEF JobsInv
    <3>1. job'[s] = IF s = r THEN j ELSE job[s]
      BY <2>1 DEF IInv, TypeOK
    <3> QED BY <3>1, <1>8, <1>9, <1>10, JobFacts
  <2>4. (SignedInv /\ VerdictInv)'
    BY <1>3 DEF IInv, SignedInv, VerdictInv
  <2> QED BY <2>2, <2>3, <2>4, <1>5, <1>6 DEF IInv
<1>11. CASE file' # file
  BY <1>3, <1>5, <1>6, <1>7, <1>8, <1>9, <1>11, TouchStep_IInv
<1> QED BY <1>10, <1>11

-----------------------------------------------------------------------------
(* The pipeline, the editor and the verifier.                              *)

LEMMA RewritePlan_IInv == ASSUME IInv, RewritePlan PROVE IInv'
BY DEF IInv, TypeOK, SignedInv, OutputsInv, FileInv, JobsInv, VerdictInv, RewritePlan

\* An edited envelope is an envelope, and shows what some envelope showed.
LEMMA KeepShows ==
    ASSUME NEW env \in EvidenceEnvelope, Shows(env, signed), Keep(env)
    PROVE  file' \in EvidenceFile /\ file'.text = "whole" /\ Shows(file'.env, signed)
BY WholeIsFile DEF Keep

LEMMA EditShows ==
    ASSUME IInv, Edit
    PROVE  file' \in EvidenceFile /\ file'.text = "whole" /\ Shows(file'.env, signed)
<1> SUFFICES ASSUME NEW env, env = file.env
             PROVE  file' \in EvidenceFile /\ file'.text = "whole" /\ Shows(file'.env, signed)
  OBVIOUS
<1> DEFINE Good(new) == new \in EvidenceEnvelope /\ Shows(new, signed)
<1>1. Good(env)
  <2>1. file.text = "whole" /\ file \in EvidenceFile
    BY DEF Edit, IInv, TypeOK
  <2>2. file.env \in EvidenceEnvelope
    BY <2>1 DEF EvidenceFile, Absent, Torn
  <2> QED BY <2>1, <2>2 DEF IInv, FileInv
<1>2. ASSUME NEW p \in Plan, NEW new,
             new = [env EXCEPT !.plan = p] \/ new = [env EXCEPT !.attested = p]
      PROVE  Good(new)
  BY <1>1, <1>2 DEF EvidenceEnvelope, EnvelopeWith, Shows
<1>3. ASSUME NEW p \in Plan, NEW q \in SUBSET Plugin, NEW new,
             new = [env EXCEPT !.changes = Changes(p, q)]
      PROVE  Good(new)
  <2>1. Changes(p, q) \in SUBSET Change
    BY ChangesType
  <2> QED BY <1>1, <1>3, <2>1 DEF EvidenceEnvelope, EnvelopeWith, Shows
<1>4. ASSUME NEW q \in SUBSET Plugin, NEW new, new = [env EXCEPT !.provenance = q]
      PROVE  Good(new)
  BY <1>1, <1>4 DEF EvidenceEnvelope, EnvelopeWith, Shows
<1>5. ASSUME NEW old \in outputs, NEW new,
             \/ new = [env EXCEPT !.sig = old.sig]
             \/ new = [env EXCEPT !.sig = old.sig, !.cert = old.cert]
      PROVE  Good(new)
  <2>1. /\ old.sig \in Bundle \union {Null} /\ old.cert \in Bundle \union {Null, Missing}
        /\ Shows(old, signed)
    BY DEF IInv, TypeOK, OutputsInv, EvidenceEnvelope, EnvelopeWith
  <2> QED BY <1>1, <1>5, <2>1 DEF EvidenceEnvelope, EnvelopeWith, Shows
<1> HIDE DEF Good
<1>6. \E new : Good(new) /\ Keep(new)
  BY <1>1, <1>2, <1>3, <1>4, <1>5, Zenon DEF Edit
<1>7. PICK new : Good(new) /\ Keep(new)
  BY <1>6
<1> QED BY <1>7, KeepShows DEF Good

LEMMA Edit_IInv == ASSUME IInv, Edit PROVE IInv'
<1>5. file' \in EvidenceFile /\ file'.text = "whole" /\ Shows(file'.env, signed)
  BY EditShows
<1>6. /\ job' = [r \in Run |-> [job[r] EXCEPT !.alone = FALSE]]
      /\ edits' = edits + 1
      /\ UNCHANGED <<plan, begun, signed, verdict, outputs>>
  BY DEF Edit
<1>7. \A r \in Run : [job[r] EXCEPT !.alone = FALSE] \in Job
  <2>1. ASSUME NEW j \in Job PROVE [j EXCEPT !.alone = FALSE] \in Job
    BY <2>1 DEF Job
  <2>2. \A r \in Run : job[r] \in Job
    BY DEF IInv, TypeOK
  <2> QED BY <2>1, <2>2
<1>8. TypeOK'
  BY <1>5, <1>6, <1>7 DEF IInv, TypeOK
<1>9. (SignedInv /\ OutputsInv /\ VerdictInv)'
  BY <1>6 DEF IInv, SignedInv, OutputsInv, VerdictInv
<1>10. FileInv'
  BY <1>5, <1>6 DEF FileInv
<1>11. JobsInv'
  <2> SUFFICES ASSUME NEW r \in Run
               PROVE  JobInv(job'[r], signed) /\ AloneInv(job'[r], file')
    BY <1>6 DEF JobsInv
  <2> DEFINE k == job[r]
  <2>1. job'[r] = [k EXCEPT !.alone = FALSE] /\ k \in Job /\ JobInv(k, signed)
    BY <1>6, JobFacts
  <2> HIDE DEF k
  <2> QED BY <2>1 DEF JobInv, AloneInv, Job
<1> QED BY <1>8, <1>9, <1>10, <1>11 DEF IInv

\* A bundle that the file shows was issued: all that can fail is the rest.
LEMMA VerifiedMatches ==
    ASSUME IInv, NEW env \in EvidenceEnvelope, Shows(env, signed), NEW id \in Identity
    PROVE  Verified(env, id) <=> env.sig \in signed /\ Matches(env) /\ env.sig.by = id
BY EvidenceAssumption
   DEF Verified, IsSigned, SameSignature, Artifact, ByPolicy, Matches, Shows,
       IInv, TypeOK, EvidenceEnvelope, EnvelopeWith

LEMMA Verify_IInv == ASSUME IInv, Verify PROVE IInv'
<1>1. PICK id \in Identity \union {Null} :
        verdict' = IF id = Null \/ file.text # "whole"
                   THEN [result |-> "error"]
                   ELSE [result |-> IF Verified(file.env, id) THEN "ok" ELSE "fail",
                         env |-> file.env, id |-> id]
  BY DEF Verify
<1>2. UNCHANGED <<plan, file, job, begun, signed, outputs, edits>>
  BY DEF Verify
<1>3. (SignedInv /\ OutputsInv /\ FileInv /\ JobsInv)'
  BY <1>2 DEF IInv, SignedInv, OutputsInv, FileInv, JobsInv
<1>4. CASE id = Null \/ file.text # "whole"
  BY <1>1, <1>2, <1>3, <1>4 DEF IInv, TypeOK, VerdictInv
<1>5. CASE id # Null /\ file.text = "whole"
  <2>1. id \in Identity /\ file.env \in EvidenceEnvelope /\ Shows(file.env, signed)
    BY <1>5 DEF IInv, TypeOK, FileInv, EvidenceFile, Absent, Torn
  <2>2. Verified(file.env, id) <=>
          file.env.sig \in signed /\ Matches(file.env) /\ file.env.sig.by = id
    BY <2>1, VerifiedMatches
  <2>3. /\ verdict' \in [result: {"ok", "fail"}, env: EvidenceEnvelope, id: Identity]
        /\ verdict'.env = file.env /\ verdict'.id = id
        /\ verdict'.result = "ok" <=> Verified(file.env, id)
    BY <1>1, <1>5, <2>1
  <2>4. TypeOK'
    BY <1>2, <2>3 DEF IInv, TypeOK
  <2>5. Matches(file.env) /\ file.env.sig.by = id => Verified(file.env, id)
    BY <2>1, <2>2, EvidenceAssumption DEF Matches, Shows
  <2>6. VerdictInv'
    BY <1>2, <2>2, <2>3, <2>5 DEF VerdictInv
  <2> QED BY <1>3, <2>4, <2>6 DEF IInv
<1> QED BY <1>4, <1>5

LEMMA Next_IInv == IInv /\ [Next]_vars => IInv'
<1> SUFFICES ASSUME IInv, [Next]_vars PROVE IInv'
  OBVIOUS
<1>1. CASE RewritePlan
  BY <1>1, RewritePlan_IInv
<1>2. CASE Edit
  BY <1>2, Edit_IInv
<1>3. CASE Verify
  BY <1>3, Verify_IInv
<1>4. ASSUME NEW r \in Run,
             \/ Begin(r) \/ ReadPlan(r) \/ BuildEvidence(r) \/ SignEnvelope(r)
             \/ OpenFile(r) \/ WriteFile(r) \/ WriteFails(r) \/ Die(r)
      PROVE  IInv'
  BY <1>4, Begin_IInv, ReadPlan_IInv, BuildEvidence_IInv, SignEnvelope_IInv,
     OpenFile_IInv, WriteFile_IInv, WriteFails_IInv, Die_IInv
<1>5. CASE UNCHANGED vars
  BY <1>5 DEF vars, IInv, TypeOK, SignedInv, OutputsInv, FileInv, JobsInv, VerdictInv
<1> QED BY <1>1, <1>2, <1>3, <1>4, <1>5 DEF Next

LEMMA Invariance == Spec => []IInv
BY Init_IInv, Next_IInv, PTL DEF Spec

-----------------------------------------------------------------------------
(* The theorems.                                                           *)

\* Every variable keeps its type, whatever is analyzed, signed and edited.
THEOREM TypeCorrect == Spec => []TypeOK
<1>1. IInv => TypeOK
  BY DEF IInv
<1> QED BY <1>1, Invariance, PTL

\* A file that `readtheplan verify' accepts for an identity carries a bundle
\* Sigstore issued to that identity for exactly what the file says, and what
\* it says is what an analysis of the plan it names found.
THEOREM VerificationIsAuthentic == Spec => []VerifiedIsAuthentic
<1>1. IInv => VerifiedIsAuthentic
  <2> SUFFICES ASSUME IInv, verdict.result = "ok"
               PROVE  LET bundle == [by |-> verdict.id, bytes |-> Canonical(verdict.env)]
                      IN  /\ bundle \in signed
                          /\ verdict.env.sig = bundle
                          /\ verdict.env.cert = bundle
                          /\ Truthful(Canonical(verdict.env))
    BY DEF VerifiedIsAuthentic, Canonical
  <2>1. /\ verdict.env.sig \in signed /\ Matches(verdict.env)
        /\ verdict.env.sig.by = verdict.id /\ signed \subseteq Bundle
        /\ Truthful(verdict.env.sig.bytes)
    BY DEF IInv, VerdictInv, TypeOK, SignedInv
  <2>2. verdict.env.sig = [by |-> verdict.env.sig.by, bytes |-> verdict.env.sig.bytes]
    BY <2>1 DEF Bundle
  <2> QED BY <2>1, <2>2 DEF Matches
<1> QED BY <1>1, Invariance, PTL

\* What a signing run wrote is never refused to its signer.
THEOREM HonestEvidenceVerifies == Spec => []HonestVerifies
<1>1. IInv => HonestVerifies
  BY DEF IInv, VerdictInv, OutputsInv, Unsigned, HonestVerifies
<1> QED BY <1>1, Invariance, PTL

\* The evidence file is accounted for by the run that touched it last: its
\* own envelope, signed if that was asked, what it found, or, when the write
\* itself failed, its own envelope or no JSON value.
THEOREM EveryRunAccounts == Spec => []RunsAccountForFile
<1>1. IInv => RunsAccountForFile
  BY DEF IInv, JobsInv, JobInv, AloneInv, RunsAccountForFile
<1> QED BY <1>1, Invariance, PTL
=============================================================================
