------------------------------ MODULE Evidence ------------------------------
(***************************************************************************)
(* Evidence envelopes: `readtheplan analyze --evidence [--sign]' writes    *)
(* what it read and found (evidence.py, attestation.py), signed with       *)
(* Sigstore when asked (signing.py), and `readtheplan verify' says whether *)
(* a file is what a given identity signed.                                 *)
(*                                                                         *)
(* Runs work on one plan file, which a pipeline rewrites under them, and   *)
(* write one evidence file, which opening truncates; any run may fail,     *)
(* with the file open too, or die on the way.  Between a run and a verification the file may be       *)
(* reformatted, edited, or given the signature of an earlier envelope.     *)
(*                                                                         *)
(* A digest stands for the bytes it is of.  Sigstore is outside: signing   *)
(* may fail, and verify_artifact accepts a bundle for exactly the bytes    *)
(* and the identity it was made for.                                       *)
(***************************************************************************)
EXTENDS Naturals, FiniteSets

CONSTANTS
    Run,        \* processes that analyze
    Plan,       \* contents of the plan file
    Resources,  \* the changes each plan holds, by plan
    Plugin,
    Claims,     \* the changes a plugin's rule decides, by plugin
    Token,      \* names that are compact tokens
    Options,    \* command lines of analyze
    Identity,   \* certificate identities, each with its issuer
    Builtin,    \* the source of a result no plugin decided
    Null, Missing,  \* JSON's null, and a key that is not there
    MaxRuns, MaxEdits  \* bounds

\* An envelope, by what may stand for its signature and its certificate; and
\* Sigstore's bundle, for the bytes of an envelope without either.
Change == [resource: UNION {Resources[p] : p \in Plan}, source: Plugin \union {Builtin}]
EnvelopeWith(sigs, certs) ==
    [plan: Plan, attested: Plan, changes: SUBSET Change, provenance: SUBSET Plugin,
     agent: Token, at: Nat, sig: sigs, cert: certs]
Bundle == [by: Identity, bytes: EnvelopeWith({Null}, {Null})]
EvidenceEnvelope == EnvelopeWith(Bundle \union {Null}, Bundle \union {Null, Missing})

ASSUME EvidenceAssumption ==
    /\ \A o \in Options : o.by \in Identity /\ o.plugins \subseteq Plugin /\ o.sign \in BOOLEAN
    /\ Builtin \notin Plugin
    /\ Null # Missing
    /\ Null \notin Identity
    /\ {Null, Missing} \intersect Bundle = {}

VARIABLES
    plan,     \* the plan file
    file,     \* the evidence file
    job,      \* what each run is doing
    begun,    \* runs begun: the clock of generated_at and read_at
    signed,   \* external: the bundles Sigstore has issued
    verdict,  \* the last verification and what it was given
    outputs,  \* history: the envelopes written
    edits     \* history: how often the file was changed by hand

vars == <<plan, file, job, begun, signed, verdict, outputs, edits>>

-----------------------------------------------------------------------------
\* The winning result of each change, and which plugin it came from.
Source(x, plugins) ==
    IF \E q \in plugins : x \in Claims[q]
    THEN CHOOSE q \in plugins : x \in Claims[q]
    ELSE Builtin
Changes(p, plugins) ==
    {[resource |-> x, source |-> Source(x, plugins)] : x \in Resources[p]}
PluginSources(changes) == {c.source : c \in changes} \ {Builtin}

\* Fault: what plugins decided is recorded only in the changes.
Provenance_Empty(changes) == {}

Provenance(changes) == PluginSources(changes)

\* Fault: the digest is of the file as it is after the analysis.
DigestOf_Reread(j) == plan

DigestOf(j) == j.plan

\* build_evidence: an envelope not yet signed has no certificate.
Envelope(j) ==
    LET changes == Changes(j.plan, j.opts.plugins)
    IN [plan |-> DigestOf(j), attested |-> DigestOf(j), changes |-> changes,
        provenance |-> Provenance(changes), agent |-> j.opts.agent,
        at |-> j.at, sig |-> Null, cert |-> Missing]

\* What the attestation is refused for.
Acceptable(j) ==
    /\ j.opts.agent \in Token
    /\ PluginSources(Changes(j.plan, j.opts.plugins)) \subseteq Token

\* Fault: the certificate is left as it is found.
Canonical_KeepsCert(env) == [env EXCEPT !.sig = Null]

\* Fault: only what the plan's reader attests to is signed.
Canonical_Attestation(env) ==
    [env EXCEPT !.sig = Null, !.cert = Null, !.changes = {}]

\* The bytes that are signed: the envelope without its signature, in a form
\* that does not depend on the layout of the file.
Canonical(env) == [env EXCEPT !.sig = Null, !.cert = Null]

-----------------------------------------------------------------------------
\* The evidence file: absent, not one JSON value, or an envelope.
Whole(env) == [text |-> "whole", layout |-> "written", env |-> env]
Absent == [text |-> "absent"]
Torn == [text |-> "torn"]

\* A run: its command line, when it began, the plan it read, the envelope it
\* made of it; and, as history, the evidence file it found, whether it has
\* opened that file, and whether nobody else has touched it since.
Idle == [pc |-> "idle", opts |-> Null, at |-> 0, plan |-> Null, env |-> Null,
         found |-> Absent, opened |-> FALSE, alone |-> TRUE]
Resting == {"idle", "published", "failed", "died"}

Init ==
    /\ plan \in Plan
    /\ file = Absent
    /\ job = [r \in Run |-> Idle]
    /\ begun = 0
    /\ signed = {}
    /\ verdict = [result |-> "none"]
    /\ outputs = {}
    /\ edits = 0

\* The pipeline plans again.
RewritePlan ==
    /\ plan' \in Plan \ {plan}
    /\ UNCHANGED <<file, job, begun, signed, verdict, outputs, edits>>

Set(r, j) == job' = [job EXCEPT ![r] = j]
To(r, pc) == Set(r, [job[r] EXCEPT !.pc = pc])

Begin(r) ==
    /\ job[r].pc \in Resting
    /\ begun < MaxRuns
    /\ begun' = begun + 1
    /\ \E o \in Options :
         Set(r, [Idle EXCEPT !.pc = "begun", !.opts = o, !.at = begun',
                             !.found = file])
    /\ UNCHANGED <<plan, file, signed, verdict, outputs, edits>>

\* _analyze reads the plan once: what is analyzed is what is digested.
ReadPlan(r) ==
    /\ job[r].pc = "begun"
    /\ Set(r, [job[r] EXCEPT !.pc = "read", !.plan = plan])
    /\ UNCHANGED <<plan, file, begun, signed, verdict, outputs, edits>>

BuildEvidence(r) ==
    /\ job[r].pc = "read"
    /\ IF Acceptable(job[r])
       THEN Set(r, [job[r] EXCEPT !.pc = "built", !.env = Envelope(job[r])])
       ELSE To(r, "failed")
    /\ UNCHANGED <<plan, file, begun, signed, verdict, outputs, edits>>

\* sign_envelope: whatever goes wrong is a SigningError.
SignEnvelope(r) ==
    /\ job[r].pc = "built"
    /\ job[r].opts.sign
    /\ \/ LET bundle == [by |-> job[r].opts.by, bytes |-> Canonical(job[r].env)]
          IN /\ signed' = signed \union {bundle}
             /\ Set(r, [job[r] EXCEPT !.pc = "signed", !.env.sig = bundle,
                                      !.env.cert = bundle])
       \/ /\ To(r, "failed")
          /\ UNCHANGED signed
    /\ UNCHANGED <<plan, file, begun, verdict, outputs, edits>>

\* Fault: the file is opened before the envelope is signed.
ReadyToWrite_Early(j) == j.pc \in {"built", "signed"}

ReadyToWrite(j) == j.pc = "signed" \/ (j.pc = "built" /\ ~j.opts.sign)

\* What the others will find when they look at the file again.
Touch(r, j) ==
    job' = [s \in Run |-> IF s = r THEN j ELSE [job[s] EXCEPT !.alone = FALSE]]

\* write_text truncates the file; it fails before it does.
OpenFile(r) ==
    /\ ReadyToWrite(job[r])
    /\ \/ /\ file' = Torn
          /\ Touch(r, [job[r] EXCEPT !.pc = "open", !.opened = TRUE])
       \/ /\ To(r, "failed")
          /\ UNCHANGED file
    /\ UNCHANGED <<plan, begun, signed, verdict, outputs, edits>>

\* The text goes over what another run may have written since the file was
\* opened, of which a tail may be left.
WriteFile(r) ==
    /\ job[r].pc = "open"
    /\ file' \in {Whole(job[r].env)} \union IF file = Torn THEN {} ELSE {Torn}
    /\ Touch(r, [job[r] EXCEPT !.pc = "published"])
    /\ outputs' = outputs \union {job[r].env}
    /\ UNCHANGED <<plan, begun, signed, verdict, edits>>

\* A full disk, an error on close: the file keeps what the truncation, or
\* another run since, has left in it, or half of the text, or all of the
\* value but the newline after it; the run reports the error.
WriteFails(r) ==
    /\ job[r].pc = "open"
    /\ file' \in {file, Torn, Whole(job[r].env)}
    /\ LET j == [job[r] EXCEPT !.pc = "failed"]
       IN IF file' = file THEN Set(r, j) ELSE Touch(r, j)
    /\ outputs' = outputs \union IF file' = Whole(job[r].env) THEN {job[r].env} ELSE {}
    /\ UNCHANGED <<plan, begun, signed, verdict, edits>>

Die(r) ==
    /\ job[r].pc \notin Resting
    /\ To(r, "died")
    /\ UNCHANGED <<plan, file, begun, signed, verdict, outputs, edits>>

-----------------------------------------------------------------------------
\* What happens to a file that is kept: a tool formats it again, somebody
\* corrects a field, or carries a signature over from an earlier file.
Keep(env) == file' = [Whole(env) EXCEPT !.layout = "edited"]

Edit ==
    /\ edits < MaxEdits
    /\ edits' = edits + 1
    /\ file.text = "whole"
    /\ \/ Keep(file.env)
       \/ \E p \in Plan :
            Keep([file.env EXCEPT !.plan = p]) \/ Keep([file.env EXCEPT !.attested = p])
       \/ \E p \in Plan, q \in SUBSET Plugin : Keep([file.env EXCEPT !.changes = Changes(p, q)])
       \/ \E q \in SUBSET Plugin : Keep([file.env EXCEPT !.provenance = q])
       \/ \E old \in outputs :
            \/ Keep([file.env EXCEPT !.sig = old.sig])
            \/ Keep([file.env EXCEPT !.sig = old.sig, !.cert = old.cert])
    /\ job' = [r \in Run |-> [job[r] EXCEPT !.alone = FALSE]]
    /\ UNCHANGED <<plan, begun, signed, verdict, outputs>>

-----------------------------------------------------------------------------
IsSigned(env) == env.sig # Null /\ env.cert \notin {Null, Missing}

\* Fault: the signature shown is not compared with the bundle's.
SameSignature_Always(env) == TRUE

SameSignature(env) == env.sig = env.cert

\* Fault: the certificate's identity is not held against the one asked for.
ByPolicy_Any(env, id) == TRUE

ByPolicy(env, id) == env.cert.by = id

\* verify_artifact: the bundle was issued, and for these bytes.
Artifact(env) == env.cert \in signed /\ env.cert.bytes = Canonical(env)

Verified(env, id) ==
    /\ IsSigned(env)
    /\ SameSignature(env)
    /\ id # Null
    /\ Artifact(env)
    /\ ByPolicy(env, id)

\* `readtheplan verify': without an identity it refuses, and what is not an
\* envelope is an error.
Verify ==
    /\ \E id \in Identity \union {Null} :
         verdict' = IF id = Null \/ file.text # "whole"
                    THEN [result |-> "error"]
                    ELSE [result |-> IF Verified(file.env, id) THEN "ok"
                                                              ELSE "fail",
                          env |-> file.env, id |-> id]
    /\ UNCHANGED <<plan, file, job, begun, signed, outputs, edits>>

Next ==
    \/ RewritePlan \/ Edit \/ Verify
    \/ \E r \in Run :
         \/ Begin(r) \/ ReadPlan(r) \/ BuildEvidence(r) \/ SignEnvelope(r)
         \/ OpenFile(r) \/ WriteFile(r) \/ WriteFails(r) \/ Die(r)

Spec == Init /\ [][Next]_vars

-----------------------------------------------------------------------------
(* Properties                                                              *)

EvidenceFile ==
    {Absent, Torn} \union [text: {"whole"}, layout: {"written", "edited"}, env: EvidenceEnvelope]
Job == [pc: Resting \union {"begun", "read", "built", "signed", "open"},
        opts: Options \union {Null}, at: Nat, plan: Plan \union {Null},
        env: EvidenceEnvelope \union {Null}, found: EvidenceFile,
        opened: BOOLEAN, alone: BOOLEAN]

\* The shape of every variable.
TypeOK ==
    /\ plan \in Plan
    /\ file \in EvidenceFile
    /\ job \in [Run -> Job]
    /\ begun \in Nat
    /\ signed \subseteq Bundle
    /\ \/ verdict \in [result: {"none", "error"}]
       \/ verdict \in [result: {"ok", "fail"}, env: EvidenceEnvelope, id: Identity]
    /\ outputs \subseteq EvidenceEnvelope
    /\ edits \in Nat

\* What an envelope claims is what an analysis of its plan finds: the digest
\* in the attestation is that of the plan its changes come from, and every
\* plugin that decided a change is named.
Truthful(env) ==
    /\ env.attested = env.plan
    /\ \E plugins \in SUBSET Plugin : env.changes = Changes(env.plan, plugins)
    /\ env.provenance = PluginSources(env.changes)

\* signing.verify_envelope: a file that verifies for an identity is one this
\* identity signed, with the signature it shows, whatever was edited, carried
\* over or rewritten since, and what it says is what an analysis of the plan
\* it names found.
VerifiedIsAuthentic ==
    verdict.result = "ok" =>
        LET original == [verdict.env EXCEPT !.sig = Null, !.cert = Null]
            bundle == [by |-> verdict.id, bytes |-> original]
        IN /\ bundle \in signed
           /\ verdict.env.sig = bundle
           /\ verdict.env.cert = bundle
           /\ Truthful(original)

\* The other way around: what a signing run has written verifies for its
\* signer, and goes on to when the file is only formatted again, for the
\* signature is over a canonical form and not over the file.
HonestVerifies ==
    verdict.result = "fail" =>
        \/ verdict.env \notin outputs
        \/ verdict.env.sig = Null
        \/ verdict.env.sig.by # verdict.id

\* cli._analyze writes last, so a run that fails before, in signing too,
\* leaves the evidence it found; one that fails with the file open has lost
\* it, and leaves no JSON value or its own envelope; one that succeeds leaves
\* its own envelope.  An envelope it leaves is of the plan it read, and signed
\* if that was asked.  Excepted is a file that another run or an editor has
\* touched since.
RunsAccountForFile ==
    \A r \in Run : job[r].alone =>
        /\ job[r].pc = "published" => file = Whole(job[r].env)
        /\ job[r].pc = "failed" =>
             IF job[r].opened THEN file \in {Torn, Whole(job[r].env)}
                              ELSE file = job[r].found
        /\ job[r].opened /\ file = Whole(job[r].env) =>
             /\ job[r].opts.sign => job[r].env.sig \in signed
             /\ job[r].env.plan = job[r].plan
=============================================================================
