---------------------------- MODULE RuleRegistry ----------------------------
(***************************************************************************)
(* The process-wide rule registry (src/src/readtheplan/rules/_shared.py)   *)
(* and the candidate verification that borrows it (evolution.py).          *)
(*                                                                         *)
(* Threads of one process share the registry, the current provenance       *)
(* source and one reentrant lock.  Workers execute modules that register   *)
(* rules: approved rules (rolled back when they fail), candidates under    *)
(* verification (always rolled back) and plugins (never rolled back).      *)
(* Callers use the registration decorators directly; evaluators copy the   *)
(* rule lists and run them.  A module that is executed creates one new     *)
(* function object, which it may register under several places; reentrant  *)
(* acquisitions by the holder are not steps.                               *)
(***************************************************************************)
EXTENDS Naturals, Sequences, SequencesExt

CONSTANTS
    Type,       \* resource types
    CrossCutting,   \* the list of rules that run for every type
    Approved,   \* approved rules, as (file, digest) keys
    Candidate,  \* candidate modules
    Plugin,     \* entry points
    Hook,       \* the entry points that are callables defining their rules
    Caller,     \* threads that register a function of their own
    Evaluator,  \* threads that classify resources
    Worker,     \* threads that load or verify modules
    Builtin,    \* the default source
    None,
    MaxExecs    \* bound: module executions

Owner == Approved \union Candidate \union Plugin \union Caller
Place == Type \union {CrossCutting}
Func == [owner: Owner, gen: 0..MaxExecs]
Source == Owner \union {Builtin}

ASSUME HookAssumption == Hook \subseteq Plugin
ASSUME KindsAssumption ==
    /\ Candidate \intersect (Approved \union Plugin \union Caller) = {}
    /\ Approved \intersect (Plugin \union Caller) = {}
    /\ Plugin \intersect Caller = {}
ASSUME NamesAssumption ==
    /\ CrossCutting \notin Type
    /\ Builtin \notin Owner
    /\ None \notin Worker \union Source \union Func
ASSUME BoundAssumption == MaxExecs \in Nat

VARIABLES
    registry,   \* _RULE_REGISTRY and _CROSS_CUTTING
    source,     \* _current_source
    attr,       \* __rtp_source__ of each function, None before registration
    lock,       \* holder of _REGISTRY_LOCK
    loaded,     \* _LOADED_APPROVED_RULES
    cached,     \* plugins whose module stays in sys.modules
    work,       \* what each worker is executing
    call,       \* decorators created by each caller: the source they captured
    view,       \* what each evaluator last copied
    execs       \* module executions so far

vars == <<registry, source, attr, lock, loaded, cached, work, call, view, execs>>

WorkIdle ==
    [pc |-> "idle", kind |-> "load", mod |-> None, fn |-> None,
     before |-> [p \in Place |-> <<>>], src |-> Builtin]

Init ==
    /\ registry = [p \in Place |-> <<>>]
    /\ source = Builtin
    /\ attr = [f \in Func |-> None]
    /\ lock = None
    /\ loaded = {}
    /\ cached = {}
    /\ work = [w \in Worker |-> WorkIdle]
    /\ call = [c \in Caller |-> None]
    /\ view = [e \in Evaluator |-> [exact |-> <<>>, cross |-> <<>>]]
    /\ execs = 0

\* A function is registered once per place, and keeps its first source.
With(bucket, f) == IF Contains(bucket, f) THEN bucket ELSE Append(bucket, f)
RegisterAs(f, p, src) ==
    /\ registry' = [registry EXCEPT ![p] = With(@, f)]
    /\ attr' = [attr EXCEPT ![f] = IF @ = None THEN src ELSE @]

-----------------------------------------------------------------------------
(* Executing a module                                                      *)

Begin(w, kind, m, src) ==
    /\ work[w].pc = "idle"
    /\ execs < MaxExecs
    /\ execs' = execs + 1
    /\ lock' = w
    /\ source' = src
    /\ work' = [work EXCEPT ![w] =
                  [pc |-> "exec", kind |-> kind, mod |-> m,
                   fn |-> [owner |-> m, gen |-> execs + 1],
                   before |-> registry, src |-> source]]
    /\ UNCHANGED <<registry, attr, loaded, cached, call, view>>

\* Fault: whether the rule is loaded is not asked again under the lock.
BeginLoad_Unchecked(w, m) == lock = None /\ Begin(w, "load", m, m)

\* _load_auto_rules, one record whose bytes match: unless it is loaded
\* already, its source becomes the current one and its bytes are executed.
BeginLoad(w, m) ==
    /\ lock = None
    /\ m \notin loaded
    /\ Begin(w, "load", m, m)

\* Fault: verification does not wait for the registry lock.
BeginVerify_NoLock(w, m) == Begin(w, "verify", m, source)

\* _verify_candidate_rule: the source is left as it is.
BeginVerify(w, m) ==
    /\ lock = None
    /\ Begin(w, "verify", m, source)

\* load_entry_point_rules, one entry point: a cached module is not executed
\* again, but a hook is called again and defines its rules again.
BeginPlugin(w, m) ==
    /\ lock = None
    /\ m \in cached => m \in Hook
    /\ Begin(w, "plugin", m, m)

\* The module's decorators run in the thread that holds the lock.
Register(w) ==
    /\ work[w].pc = "exec"
    /\ \E p \in Place : RegisterAs(work[w].fn, p, source)
    /\ UNCHANGED <<source, lock, loaded, cached, work, call, view, execs>>

\* Approved rules and candidates may misbehave: they empty a list, or make
\* the current source their own.
Spoil(w) ==
    /\ work[w].pc = "exec"
    /\ work[w].kind # "plugin"
    /\ \/ /\ \E p \in Place : registry' = [registry EXCEPT ![p] = <<>>]
          /\ UNCHANGED source
       \/ /\ source' = work[w].mod
          /\ UNCHANGED registry
    /\ UNCHANGED <<attr, lock, loaded, cached, work, call, view, execs>>

Return(w) ==
    /\ lock' = None
    /\ work' = [work EXCEPT ![w] = WorkIdle]
    /\ UNCHANGED <<attr, call, view, execs>>

Ends(w, kind) == work[w].pc = "exec" /\ work[w].kind = kind

\* "approved rule modified existing registrations"
Intact(w) == \A p \in Place : IsPrefix(work[w].before[p], registry[p])

\* _execute_verified_rule_bytes: success keeps what was registered; a module
\* that raised, or touched what was there before, is undone completely.
LoadEnds(w) ==
    /\ Ends(w, "load")
    /\ \/ Intact(w) /\ loaded' = loaded \union {work[w].mod} /\ UNCHANGED registry
       \/ registry' = work[w].before /\ UNCHANGED loaded
    /\ source' = work[w].src
    /\ Return(w)
    /\ UNCHANGED cached

\* Fault: only a failed verification is undone.
VerifyEnds_KeepsSuccess(w) ==
    /\ Ends(w, "verify")
    /\ \/ Intact(w) /\ UNCHANGED registry
       \/ registry' = work[w].before
    /\ source' = work[w].src
    /\ Return(w)
    /\ UNCHANGED <<loaded, cached>>

\* Verification restores the registry in all cases.
VerifyEnds(w) ==
    /\ Ends(w, "verify")
    /\ registry' = work[w].before
    /\ source' = work[w].src
    /\ Return(w)
    /\ UNCHANGED <<loaded, cached>>

\* A plugin that raises keeps what it registered; Python drops its module.
PluginEnds(w) ==
    /\ Ends(w, "plugin")
    /\ source' = work[w].src
    /\ cached' \in {cached, cached \union {work[w].mod}}
    /\ Return(w)
    /\ UNCHANGED <<registry, loaded>>

-----------------------------------------------------------------------------
(* Threads that use the registry directly                                  *)

\* Fault: the decorator reads the current source without the lock.
CreateDecorator_NoLock(c) ==
    /\ call[c] = None
    /\ call' = [call EXCEPT ![c] = source]
    /\ UNCHANGED <<registry, source, attr, lock, loaded, cached, work, view, execs>>

\* register_rule(type): the source is captured when the decorator is made ...
CreateDecorator(c) ==
    /\ lock = None
    /\ call[c] = None
    /\ call' = [call EXCEPT ![c] = source]
    /\ UNCHANGED <<registry, source, attr, lock, loaded, cached, work, view, execs>>

\* ... and used when it is applied, under the lock taken again.
ApplyDecorator(c) ==
    /\ lock = None
    /\ call[c] # None
    /\ \E t \in Type : RegisterAs([owner |-> c, gen |-> 0], t, call[c])
    /\ call' = [call EXCEPT ![c] = None]
    /\ UNCHANGED <<source, lock, loaded, cached, work, view, execs>>

\* register_cross_cutting: one critical section.
RegisterCrossCutting(c) ==
    /\ lock = None
    /\ RegisterAs([owner |-> c, gen |-> 0], CrossCutting, source)
    /\ UNCHANGED <<source, lock, loaded, cached, work, call, view, execs>>

\* Fault: the lists are copied without the lock.
Look_NoLock(e) ==
    /\ \E t \in Type :
         view' = [view EXCEPT ![e] = [exact |-> registry[t],
                                      cross |-> registry[CrossCutting]]]
    /\ UNCHANGED <<registry, source, attr, lock, loaded, cached, work, call, execs>>

\* _rule_candidates copies both lists under the lock and runs them after it.
Look(e) ==
    /\ lock = None
    /\ \E t \in Type :
         view' = [view EXCEPT ![e] = [exact |-> registry[t],
                                      cross |-> registry[CrossCutting]]]
    /\ UNCHANGED <<registry, source, attr, lock, loaded, cached, work, call, execs>>

Next ==
    \/ \E w \in Worker :
         \/ \E m \in Approved : BeginLoad(w, m)
         \/ \E m \in Candidate : BeginVerify(w, m)
         \/ \E m \in Plugin : BeginPlugin(w, m)
         \/ Register(w) \/ Spoil(w)
         \/ LoadEnds(w) \/ VerifyEnds(w) \/ PluginEnds(w)
    \/ \E c \in Caller :
         CreateDecorator(c) \/ ApplyDecorator(c) \/ RegisterCrossCutting(c)
    \/ \E e \in Evaluator : Look(e)

Spec == Init /\ [][Next]_vars

-----------------------------------------------------------------------------
(* Properties                                                              *)

Registry == [Place -> Seq(Func)]

\* The shape of every variable.
TypeOK ==
    /\ registry \in Registry
    /\ source \in Source
    /\ attr \in [Func -> Source \union {None}]
    /\ lock \in Worker \union {None}
    /\ loaded \subseteq Approved
    /\ cached \subseteq Plugin
    /\ work \in [Worker ->
         [pc: {"idle", "exec"}, kind: {"load", "verify", "plugin"},
          mod: Owner \union {None}, fn: Func \union {None},
          before: Registry, src: Source]]
    /\ call \in [Caller -> Source \union {None}]
    /\ view \in [Evaluator -> [exact: Seq(Func), cross: Seq(Func)]]
    /\ execs \in 0..MaxExecs

Seen(e) == ToSet(view[e].exact) \union ToSet(view[e].cross)

\* Verification executes a rule "without activating it": whatever else the
\* process is doing, no evaluation ever runs a candidate's function.
CandidatesNeverRun ==
    \A e \in Evaluator : \A f \in Seen(e) : f.owner \notin Candidate

\* The registry as the other threads see it: while a module is executing,
\* they see what was there before.
Committed ==
    IF lock = None THEN registry ELSE work[lock].before

\* Restoring a snapshot never discards a registration another thread made, and
\* nothing reorders or removes rules that predate a load.
RegistrationsKept ==
    [][\A p \in Place : IsPrefix(Committed[p], Committed'[p])]_vars

\* Provenance in evidence can be trusted: a function is attributed to the
\* rule or plugin that registered it, and to builtin when no module did, even
\* when it is registered while another thread is loading a module.
SourceIsOwner ==
    \A f \in Func :
        attr[f] # None /\ f.owner \notin Candidate =>
            attr[f] = IF f.owner \in Caller THEN Builtin ELSE f.owner

\* An approved rule is active in full or not at all: at most one execution of
\* it contributes functions, and only if the load was recorded as a success.
ApprovedLoadedOnce ==
    \A p, q \in Place : \A f \in ToSet(Committed[p]) : \A g \in ToSet(Committed[q]) :
        f.owner \in Approved =>
            /\ f.owner \in loaded
            /\ g.owner = f.owner => g = f

\* Loads, failures, roll-backs and verifications, taken apart into their
\* steps, behave as single atomic additions.
Atomic == INSTANCE AtomicRegistry
            WITH Rule <- {f \in Func : f.owner \notin Candidate},
                 registry <- Committed, view <- view
ImplementsAtomicRegistry == Atomic!Spec
=============================================================================
