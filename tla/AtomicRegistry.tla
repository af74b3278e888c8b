--------------------------- MODULE AtomicRegistry ---------------------------
(***************************************************************************)
(* What the rule registry promises to the threads that use it: rules are   *)
(* only ever added, a module's registrations appear all at once, and an    *)
(* evaluation sees the registry as it is between two such additions.       *)
(***************************************************************************)
EXTENDS Naturals, Sequences

CONSTANTS Type, CrossCutting, Rule, Evaluator

VARIABLES registry, view

vars == <<registry, view>>

Place == Type \union {CrossCutting}

With(bucket, f) ==
    IF \E i \in 1..Len(bucket) : bucket[i] = f THEN bucket ELSE Append(bucket, f)

Init ==
    /\ registry = [p \in Place |-> <<>>]
    /\ view = [e \in Evaluator |-> [exact |-> <<>>, cross |-> <<>>]]

\* One rule function is registered under some places, at once.
Add(f, places) ==
    /\ registry' = [p \in Place |-> IF p \in places THEN With(registry[p], f)
                                                    ELSE registry[p]]
    /\ UNCHANGED view

Look(e, t) ==
    /\ view' = [view EXCEPT ![e] = [exact |-> registry[t],
                                    cross |-> registry[CrossCutting]]]
    /\ UNCHANGED registry

Next ==
    \/ \E f \in Rule, places \in SUBSET Place : Add(f, places)
    \/ \E e \in Evaluator, t \in Type : Look(e, t)

Spec == Init /\ [][Next]_vars
=============================================================================
