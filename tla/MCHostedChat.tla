---------------------------- MODULE MCHostedChat ----------------------------
(***************************************************************************)
(* Instances of HostedChat for TLC.                                        *)
(***************************************************************************)
EXTENDS HostedChat, TLC

CONSTANTS q1, q2, q3

TwoRequests == {q1, q2}
ThreeRequests == {q1, q2, q3}
=============================================================================
