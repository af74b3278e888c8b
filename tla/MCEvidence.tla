----------------------------- MODULE MCEvidence -----------------------------
(***************************************************************************)
(* Instance of Evidence for TLC: two plans with a change of their own and  *)
(* one in common, a plugin that decides the common one and a plugin whose  *)
(* name an attestation refuses.                                            *)
(***************************************************************************)
EXTENDS Evidence, TLC

CONSTANTS p1, p2, x, y, z, good, bad, agent, blank, alice, bob, r1, r2

MCResources == (p1 :> {x, y}) @@ (p2 :> {x, z})
MCClaims == (good :> {x}) @@ (bad :> {y})
\* Signed and unsigned, by either identity, with and without the plugins.
MCOptions ==
    {[sign |-> s, by |-> i, agent |-> a, plugins |-> q] :
        <<s, i, a, q>> \in
            {<<FALSE, alice, agent, {good}>>, <<TRUE, alice, agent, {good}>>,
             <<TRUE, bob, agent, {}>>, <<TRUE, bob, agent, {bad}>>,
             <<TRUE, bob, blank, {}>>}}

Symmetry == Permutations({r1, r2})
=============================================================================
