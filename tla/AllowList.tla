----------------------------- MODULE AllowList ------------------------------
(***************************************************************************)
(* What rule approval promises, without files, locks or databases: a       *)
(* write-once table from rule ids to the bytes allowed to run, and         *)
(* processes that activate only what the table allows.                     *)
(***************************************************************************)
CONSTANTS RuleId, Bytes, Process, None

VARIABLES allowed, active

vars == <<allowed, active>>

Init ==
    /\ allowed = [r \in RuleId |-> None]
    /\ active = [d \in Process |-> {}]

\* An explicit approval: one id is bound, once and for all.
Approve(r) ==
    /\ allowed[r] = None
    /\ \E b \in Bytes : allowed' = [allowed EXCEPT ![r] = b]
    /\ UNCHANGED active

\* A process executes the bytes allowed for r.
Activate(d, r) ==
    /\ allowed[r] # None
    /\ active' = [active EXCEPT ![d] = @ \union {<<r, allowed[r]>>}]
    /\ UNCHANGED allowed

Restart(d) ==
    /\ active' = [active EXCEPT ![d] = {}]
    /\ UNCHANGED allowed

Next ==
    \/ \E r \in RuleId : Approve(r)
    \/ \E d \in Process, r \in RuleId : Activate(d, r)
    \/ \E d \in Process : Restart(d)

Spec == Init /\ [][Next]_vars
=============================================================================
