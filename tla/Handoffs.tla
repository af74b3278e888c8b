------------------------------ MODULE Handoffs ------------------------------
(***************************************************************************)
(* The handoff outbox of the evolution engine (evolution.py): gate runs    *)
(* leave one file per rule, dispatchers copy the files to a shared         *)
(* directory and delete them.                                              *)
(*                                                                         *)
(* Any number of processes do both at the same time, without a lock.  A    *)
(* handoff is a file's content: which rule, and a fresh id.  Writing one   *)
(* is a single step, because the file is replaced atomically; a dispatcher *)
(* takes one step per file operation and may fail or die between any two.  *)
(***************************************************************************)
EXTENDS Naturals, FiniteSets

CONSTANTS
    Candidate,   \* candidate rules; each has one file name in the outbox
    Junk,        \* outbox files whose handoff id is unusable
    Dispatcher,  \* processes running `evolution dispatch`
    None,
    MaxWrites,   \* bound: handoffs written
    MaxFaults    \* bound: failed file operations and deaths

File == Candidate \union Junk
Handoff == [rule: Candidate, id: 1..MaxWrites]

ASSUME BoundsAssumption == MaxWrites \in Nat /\ MaxFaults \in Nat
ASSUME NamesAssumption == Candidate \intersect Junk = {} /\ None \notin File \union Handoff

VARIABLES
    outbox,    \* ~/.readtheplan/handoffs: what each rule's file holds
    json, md,  \* the handoffs present in the shared directory, by format
    disp,      \* each dispatcher's call in progress
    written,   \* handoffs written so far
    reported,  \* for each handoff, how often a call listed it as dispatched
    faults

handoffVars == <<outbox, json, md, disp, written, reported, faults>>

Idle == [pc |-> "idle", todo |-> {}, file |-> None, read |-> None]

HandoffsInit ==
    /\ outbox = [r \in Candidate |-> None]
    /\ json = {} /\ md = {}
    /\ disp = [d \in Dispatcher |-> Idle]
    /\ written = {}
    /\ reported = [h \in Handoff |-> 0]
    /\ faults = 0

\* A gate run that scores the rule 70 or more replaces the rule's file.
WriteHandoff(r) ==
    /\ Cardinality(written) < MaxWrites
    /\ \E h \in Handoff :
         /\ h.rule = r
         /\ h.id = Cardinality(written) + 1
         /\ outbox' = [outbox EXCEPT ![r] = h]
         /\ written' = written \union {h}
    /\ UNCHANGED <<json, md, disp, reported, faults>>

\* glob: the files of this call are those present when it starts.
Start(d) ==
    /\ disp[d].pc = "idle"
    /\ disp' = [disp EXCEPT ![d].pc = "scan",
                            ![d].todo = {r \in Candidate : outbox[r] # None} \union Junk]
    /\ UNCHANGED <<outbox, json, md, written, reported, faults>>

NextFile(d) == disp' = [disp EXCEPT ![d].pc = "scan", ![d].file = None, ![d].read = None]

\* read_text and the id check; a file that is gone is an error, and like a
\* file with a bad id it is passed over.
Read(d) ==
    /\ disp[d].pc = "scan"
    /\ \E f \in disp[d].todo :
         IF f \in Candidate /\ outbox[f] # None
         THEN disp' = [disp EXCEPT ![d].pc = "json", ![d].todo = @ \ {f},
                                   ![d].file = f, ![d].read = outbox[f]]
         ELSE disp' = [disp EXCEPT ![d].todo = @ \ {f}]
    /\ UNCHANGED <<outbox, json, md, written, reported, faults>>

WriteJson(d) ==
    /\ disp[d].pc = "json"
    /\ json' = json \union {disp[d].read}
    /\ disp' = [disp EXCEPT ![d].pc = "md"]
    /\ UNCHANGED <<outbox, md, written, reported, faults>>

\* Fault: a handoff is listed as soon as both files are written.
WriteMd_Lists(d) ==
    /\ disp[d].pc = "md"
    /\ md' = md \union {disp[d].read}
    /\ reported' = [reported EXCEPT ![disp[d].read] = @ + 1]
    /\ disp' = [disp EXCEPT ![d].pc = "unlink"]
    /\ UNCHANGED <<outbox, json, written, faults>>

WriteMd(d) ==
    /\ disp[d].pc = "md"
    /\ md' = md \union {disp[d].read}
    /\ disp' = [disp EXCEPT ![d].pc = "unlink"]
    /\ UNCHANGED <<outbox, json, written, reported, faults>>

\* Fault: listed as dispatched before, and whether or not, the file goes.
Unlink_AlwaysReports(d) ==
    /\ disp[d].pc = "unlink"
    /\ reported' = [reported EXCEPT ![disp[d].read] = @ + 1]
    /\ outbox' = [outbox EXCEPT ![disp[d].file] = None]
    /\ NextFile(d)
    /\ UNCHANGED <<json, md, written, faults>>

\* The file is deleted by name, whatever it holds by now; a handoff is listed
\* only when there was a file to delete.
Unlink(d) ==
    /\ disp[d].pc = "unlink"
    /\ IF outbox[disp[d].file] # None
       THEN reported' = [reported EXCEPT ![disp[d].read] = @ + 1]
       ELSE UNCHANGED reported
    /\ outbox' = [outbox EXCEPT ![disp[d].file] = None]
    /\ NextFile(d)
    /\ UNCHANGED <<json, md, written, faults>>

\* Fault: an error in one file is taken for a success of the step.
OperationFails_Ignored(d) ==
    /\ faults < MaxFaults
    /\ faults' = faults + 1
    /\ \/ disp[d].pc = "json" /\ disp' = [disp EXCEPT ![d].pc = "md"]
       \/ disp[d].pc = "md" /\ disp' = [disp EXCEPT ![d].pc = "unlink"]
    /\ UNCHANGED <<outbox, json, md, written, reported>>

\* Fault: an error while writing still reaches the code that deletes and lists.
OperationFails_Finally(d) ==
    /\ faults < MaxFaults
    /\ faults' = faults + 1
    /\ disp[d].pc \in {"json", "md"}
    /\ disp' = [disp EXCEPT ![d].pc = "unlink"]
    /\ UNCHANGED <<outbox, json, md, written, reported>>

\* A write or the deletion raises: the file is passed over.
OperationFails(d) ==
    /\ faults < MaxFaults
    /\ faults' = faults + 1
    /\ disp[d].pc \in {"json", "md", "unlink"}
    /\ NextFile(d)
    /\ UNCHANGED <<outbox, json, md, written, reported>>

FinishDispatch(d) ==
    /\ disp[d].pc = "scan"
    /\ disp[d].todo = {}
    /\ disp' = [disp EXCEPT ![d] = Idle]
    /\ UNCHANGED <<outbox, json, md, written, reported, faults>>

\* The process is killed; the next call starts afresh.
DispatcherDies(d) ==
    /\ faults < MaxFaults
    /\ faults' = faults + 1
    /\ disp[d].pc # "idle"
    /\ disp' = [disp EXCEPT ![d] = Idle]
    /\ UNCHANGED <<outbox, json, md, written, reported>>

HandoffsNext ==
    \/ \E r \in Candidate : WriteHandoff(r)
    \/ \E d \in Dispatcher :
         \/ Start(d) \/ Read(d) \/ WriteJson(d) \/ WriteMd(d) \/ Unlink(d)
         \/ OperationFails(d) \/ FinishDispatch(d) \/ DispatcherDies(d)

HandoffsSpec == HandoffsInit /\ [][HandoffsNext]_handoffVars

-----------------------------------------------------------------------------
(* Properties                                                              *)

\* The shape of every variable.
HandoffsTypeOK ==
    /\ outbox \in [Candidate -> Handoff \union {None}]
    /\ json \subseteq written
    /\ md \subseteq written
    /\ written \subseteq Handoff
    /\ disp \in [Dispatcher ->
         [pc: {"idle", "scan", "json", "md", "unlink"}, todo: SUBSET File,
          file: Candidate \union {None}, read: Handoff \union {None}]]
    /\ reported \in [Handoff -> Nat]
    /\ faults \in 0..MaxFaults

Delivered == json \intersect md

\* What a call lists as dispatched is in the shared directory in both
\* formats, and the note never comes without the machine-readable file.
ListedIsDelivered ==
    /\ md \subseteq json
    /\ \A h \in Handoff : reported[h] > 0 => h \in Delivered

\* Failures and deaths leave work to retry, never half done: a rule that was
\* ever handed off still has a file to dispatch or has had one delivered.
RuleIsHandedOff ==
    \A h \in written : outbox[h.rule] # None \/ \E g \in Delivered : g.rule = h.rule

\* Nothing that is still pending has been listed as dispatched.
PendingIsNotListed ==
    \A r \in Candidate : outbox[r] # None => reported[outbox[r]] = 0

\* Concurrent dispatchers do not list the same work twice: a handoff is
\* listed again only if a newer one of its rule was written (and deleted).
ListedAgainOnlyIfSuperseded ==
    \A h \in Handoff :
        reported[h] <= Cardinality({g \in written : g.rule = h.rule /\ g.id >= h.id})
=============================================================================
