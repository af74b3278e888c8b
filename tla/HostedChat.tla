----------------------------- MODULE HostedChat -----------------------------
(***************************************************************************)
(* The hosted chat function (site/functions/api/chat.js), on top of its    *)
(* rate limiter, for the requests of one client.                           *)
(*                                                                         *)
(* A request is read and validated, asks the limiter, and calls the funded *)
(* provider under one deadline that covers the headers and the body.  The  *)
(* client may disconnect, either timer may fire and either answer may come *)
(* late or never.  What runs between two awaits of the function is a step. *)
(***************************************************************************)
EXTENDS ChatLimiter

VARIABLES page  \* each request's handler

chatVars == <<vars, page>>
limiterVars == vars

Fresh ==
    [pc |-> "body",           \* the await the handler is at
     status |-> 0,            \* the response, 0 before there is one
     gone |-> FALSE,          \* request.signal
     deadline |-> FALSE,      \* the timer and the listener are in place
     provider |-> "none",     \* what the provider does for this request
     aborted |-> FALSE]       \* the provider call's signal

ChatInit == Init /\ page = [r \in Request |-> Fresh]

Respond(r, status) ==
    page' = [page EXCEPT ![r] =
               [@ EXCEPT !.pc = "done", !.status = status, !.deadline = FALSE]]

\* Origin, method, size, content type, body and messages that are refused, a
\* missing key (500): nothing has been asked of anyone.
Reject(r) ==
    /\ page[r].pc = "body"
    /\ \E status \in {400, 403, 405, 413, 415, 500} : Respond(r, status)
    /\ UNCHANGED limiterVars

AskLimiter(r) ==
    /\ page[r].pc = "body"
    /\ Send(r)
    /\ page' = [page EXCEPT ![r] = [@ EXCEPT !.pc = "limiter"]]

\* Fault: an unavailable limiter lets the request through.
LimiterFails_Open(r) ==
    /\ page[r].pc = "limiter"
    /\ page' = [page EXCEPT ![r] =
                  [@ EXCEPT !.pc = "call", !.provider = "working", !.deadline = TRUE]]
    /\ UNCHANGED limiterVars

\* The binding throws, its answer is not valid, or the timer wins the race;
\* the check itself may still arrive and count.
LimiterFails(r) ==
    /\ page[r].pc = "limiter"
    /\ Respond(r, 503)
    /\ UNCHANGED limiterVars

LimiterRefuses(r) ==
    /\ page[r].pc = "limiter"
    /\ chk[r].pc = "answered"
    /\ ~chk[r].allowed
    /\ Respond(r, 429)
    /\ UNCHANGED limiterVars

\* An admitted request calls the provider in the same step.
CallProvider(r) ==
    /\ page[r].pc = "limiter"
    /\ chk[r].pc = "answered"
    /\ chk[r].allowed
    /\ ~page[r].gone
    /\ page' = [page EXCEPT ![r] =
                  [@ EXCEPT !.pc = "call", !.provider = "working", !.deadline = TRUE]]
    /\ UNCHANGED limiterVars

\* Fault: a disconnect before the deadline existed goes unnoticed.
AdmittedTooLate_Ignored(r) ==
    /\ page[r].pc = "limiter"
    /\ chk[r].pc = "answered"
    /\ chk[r].allowed
    /\ page[r].gone
    /\ page' = [page EXCEPT ![r] =
                  [@ EXCEPT !.pc = "call", !.provider = "working", !.deadline = TRUE]]
    /\ UNCHANGED limiterVars

SendNothing(r, status) ==
    page' = [page EXCEPT ![r] =
               [@ EXCEPT !.pc = "done", !.status = status, !.aborted = TRUE]]

\* The client left while the limiter was asked: fetch gets an aborted signal
\* and sends nothing.  Both promises of the race are rejected already, and the
\* error of the first, the runtime's own, may be a generic one.
AdmittedTooLate(r) ==
    /\ page[r].pc = "limiter"
    /\ chk[r].pc = "answered"
    /\ chk[r].allowed
    /\ page[r].gone
    /\ \E status \in {499, 500} : SendNothing(r, status)
    /\ UNCHANGED limiterVars

EndCall(r, status) ==
    page' = [page EXCEPT ![r] =
               [@ EXCEPT !.pc = "done", !.status = status,
                         !.deadline = FALSE, !.provider = "ended"]]

\* The provider's headers: an error response is final, and so is a failure.
ProviderResponds(r) ==
    /\ page[r].pc = "call"
    /\ \/ page' = [page EXCEPT ![r] = [@ EXCEPT !.pc = "read"]]
       \/ \E status \in {500, 502} : EndCall(r, status)
    /\ UNCHANGED limiterVars

\* The provider's body: an answer, a failure, or text that is not JSON, whose
\* SyntaxError is answered like the client's own.
ProviderAnswers(r) ==
    /\ page[r].pc = "read"
    /\ \E status \in {200, 400, 500} : EndCall(r, status)
    /\ UNCHANGED limiterVars

\* Fault: the boundary is rejected, but the provider call is not aborted.
Abort_BoundaryOnly(r, status, gone) ==
    page' = [page EXCEPT ![r] =
               [@ EXCEPT !.gone = gone, !.deadline = FALSE,
                         !.pc = "done", !.status = status]]

\* createProviderDeadline's abort: the typed error ends the handler, whichever
\* promise it waits for, and the provider call is aborted.
Abort(r, status, gone) ==
    page' = [page EXCEPT ![r] =
               [@ EXCEPT !.gone = gone, !.aborted = TRUE, !.deadline = FALSE,
                         !.pc = "done", !.status = status]]

\* Fault: the deadline covers the headers only.
DeadlineExpires_HeadersOnly(r) ==
    /\ page[r].deadline
    /\ page[r].pc = "call"
    /\ Abort(r, 504, page[r].gone)
    /\ UNCHANGED limiterVars

DeadlineExpires(r) ==
    /\ page[r].deadline
    /\ Abort(r, 504, page[r].gone)
    /\ UNCHANGED limiterVars

\* The client leaves: only a listening deadline takes notice at once.
Disconnect(r) ==
    /\ ~page[r].gone
    /\ page[r].pc # "done"
    /\ IF page[r].deadline
       THEN Abort(r, 499, TRUE)
       ELSE page' = [page EXCEPT ![r] = [@ EXCEPT !.gone = TRUE]]
    /\ UNCHANGED limiterVars

LimiterStep ==
    /\ \/ \E r \in Request : Check(r) \/ CheckDies(r)
       \/ Alarm \/ SetAlarmAgain \/ AlarmDies \/ Tick
    /\ UNCHANGED page

ChatNext ==
    \/ LimiterStep
    \/ \E r \in Request :
         \/ Reject(r) \/ AskLimiter(r)
         \/ LimiterFails(r) \/ LimiterRefuses(r)
         \/ CallProvider(r) \/ AdmittedTooLate(r)
         \/ ProviderResponds(r) \/ ProviderAnswers(r)
         \/ DeadlineExpires(r) \/ Disconnect(r)

ChatSpec == ChatInit /\ [][ChatNext]_chatVars

\* Only the two timers are sure to act; limiter and provider may be silent.
Timers ==
    \A r \in Request : WF_chatVars(LimiterFails(r)) /\ WF_chatVars(DeadlineExpires(r))

FairChatSpec == ChatSpec /\ Timers

-----------------------------------------------------------------------------
(* Properties                                                              *)

Status == {0, 200, 400, 403, 405, 413, 415, 429, 499, 500, 502, 503, 504}

Handler ==
    [pc: {"body", "limiter", "call", "read", "done"}, status: Status,
     gone: BOOLEAN, deadline: BOOLEAN,
     provider: {"none", "working", "ended"}, aborted: BOOLEAN]

\* The shape of every variable.
ChatTypeOK ==
    /\ TypeOK
    /\ page \in [Request -> Handler]

\* "fails closed before funded work": a provider call was admitted by the
\* limiter, and a request that ended in 429 or 503 has made none.
FundedIsAdmitted ==
    \A r \in Request : page[r].provider # "none" =>
        /\ chk[r].pc = "answered"
        /\ chk[r].allowed
        /\ page[r].status \notin {429, 503}

\* When the function has answered, no provider call goes on unaborted.
NoOrphanedCall ==
    \A r \in Request :
        page[r].pc = "done" /\ page[r].provider = "working" => page[r].aborted

\* A client that is known to be gone before the call costs nothing.
GoneIsNotFunded ==
    [][\A r \in Request :
         page[r].gone /\ page[r].provider = "none" => page'[r].provider = "none"]_chatVars

\* Though limiter and provider never answer, a request that has been read is
\* answered: each wait is raced against a timer.
EveryAskIsAnswered ==
    \A r \in Request : page[r].pc = "limiter" ~> page[r].pc = "done"
=============================================================================
