--------------------------- MODULE MCChatLimiter ---------------------------
(***************************************************************************)
(* Instances of ChatLimiter for TLC.                                       *)
(***************************************************************************)
EXTENDS ChatLimiter, TLC

CONSTANTS q1, q2, q3, q4, q5

FiveRequests == {q1, q2, q3, q4, q5}
=============================================================================
