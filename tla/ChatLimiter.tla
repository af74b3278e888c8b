---------------------------- MODULE ChatLimiter ----------------------------
(***************************************************************************)
(* The hosted chat's rate limiter for one client key: the Durable Object   *)
(* of site/workers/chat-rate-limiter/src/index.js.                         *)
(*                                                                         *)
(* It stores one fixed window and an alarm that deletes it.  Reading the   *)
(* clock and the storage transaction that follows are one step, as are the *)
(* two of the alarm; setting the alarm is a later step, before which other *)
(* checks may run and the object may be evicted.  Time is counted in ticks.*)
(***************************************************************************)
EXTENDS Integers, FiniteSets

CONSTANTS
    Request,     \* checks that may arrive
    RateLimit,   \* RATE_LIMIT
    Window,      \* RATE_WINDOW_MS, in ticks
    Second,      \* ticks in a second
    None,
    MaxTime,     \* bound: the clock
    MaxCrashes   \* bound: evictions between a transaction and its alarm

Time == 0..MaxTime

ASSUME LimitAssumption == RateLimit \in Nat \ {0}
ASSUME WindowAssumption == Window \in Nat \ {0} /\ Second \in Nat \ {0}
ASSUME BoundsAssumption == MaxTime \in Nat /\ MaxCrashes \in Nat
ASSUME NoneAssumption == None \notin Int \union [count: Nat, resetAt: Int]

VARIABLES
    now,       \* Date.now()
    win,       \* the stored window, or None
    alarmAt,   \* the alarm that is set, or None
    rearm,     \* the alarm handler's pending setAlarm, or None
    chk,       \* each check: its progress and its decision
    crashes

vars == <<now, win, alarmAt, rearm, chk, crashes>>

Unsent == [pc |-> "unsent", at |-> 0, allowed |-> FALSE, retry |-> 0, resetAt |-> 0]

Init ==
    /\ now = 0
    /\ win = None
    /\ alarmAt = None
    /\ rearm = None
    /\ chk = [r \in Request |-> Unsent]
    /\ crashes = 0

\* Fault: rounded down.
Ceil_Down(n) == n \div Second

\* Seconds, from ticks.
Ceil(n) == (n + Second - 1) \div Second

AtLeastOne(n) == IF n >= 1 THEN n ELSE 1

Expired == win = None \/ (win # None /\ now >= win.resetAt)

Decide(r, pc, allowed, retry, resetAt) ==
    chk' = [chk EXCEPT ![r] = [pc |-> pc, at |-> now, allowed |-> allowed,
                               retry |-> retry, resetAt |-> resetAt]]

\* fetch: no window, or one that is over, makes room for a new one ...
OpenWindow(r) ==
    /\ chk[r].pc = "sent"
    /\ Expired
    /\ now + Window <= MaxTime
    /\ win' = [count |-> 1, resetAt |-> now + Window]
    /\ Decide(r, "opened", TRUE, 0, now + Window)
    /\ UNCHANGED <<now, alarmAt, rearm, crashes>>

\* ... a full one refuses, with the seconds to wait rounded up ...
Refuse(r) ==
    /\ chk[r].pc = "sent"
    /\ ~Expired
    /\ win.count >= RateLimit
    /\ Decide(r, "answered", FALSE, AtLeastOne(Ceil(win.resetAt - now)), win.resetAt)
    /\ UNCHANGED <<now, win, alarmAt, rearm, crashes>>

\* Fault: one request too many.
Admit_OneMore(r) ==
    /\ chk[r].pc = "sent"
    /\ ~Expired
    /\ win.count <= RateLimit
    /\ win' = [win EXCEPT !.count = @ + 1]
    /\ Decide(r, "answered", TRUE, 0, win.resetAt)
    /\ UNCHANGED <<now, alarmAt, rearm, crashes>>

\* ... and any other counts the request.
Admit(r) ==
    /\ chk[r].pc = "sent"
    /\ ~Expired
    /\ win.count < RateLimit
    /\ win' = [win EXCEPT !.count = @ + 1]
    /\ Decide(r, "answered", TRUE, 0, win.resetAt)
    /\ UNCHANGED <<now, alarmAt, rearm, crashes>>

\* The check that opened a window sets the alarm before it answers.
SetAlarm(r) ==
    /\ chk[r].pc = "opened"
    /\ alarmAt' = chk[r].resetAt
    /\ chk' = [chk EXCEPT ![r].pc = "answered"]
    /\ UNCHANGED <<now, win, rearm, crashes>>

\* Fault: the alarm deletes the window without looking at its end.
Alarm_Deletes ==
    /\ alarmAt # None
    /\ rearm = None
    /\ now >= alarmAt
    /\ alarmAt' = None
    /\ win' = None
    /\ UNCHANGED <<now, rearm, chk, crashes>>

\* Fault: an alarm that comes early is not set again.
Alarm_Once ==
    /\ alarmAt # None
    /\ rearm = None
    /\ now >= alarmAt
    /\ alarmAt' = None
    /\ win' = IF Expired THEN None ELSE win
    /\ UNCHANGED <<now, rearm, chk, crashes>>

\* alarm(): the alarm is spent; a window that is over is deleted, one that is
\* not has the alarm set again.
Alarm ==
    /\ alarmAt # None
    /\ rearm = None
    /\ now >= alarmAt
    /\ alarmAt' = None
    /\ IF Expired
       THEN win' = None /\ UNCHANGED rearm
       ELSE rearm' = win.resetAt /\ UNCHANGED win
    /\ UNCHANGED <<now, chk, crashes>>

SetAlarmAgain ==
    /\ rearm # None
    /\ alarmAt' = rearm
    /\ rearm' = None
    /\ UNCHANGED <<now, win, chk, crashes>>

\* The object is evicted after a transaction: the check fails.
CheckDies(r) ==
    /\ crashes < MaxCrashes
    /\ chk[r].pc = "opened"
    /\ crashes' = crashes + 1
    /\ chk' = [chk EXCEPT ![r].pc = "failed"]
    /\ UNCHANGED <<now, win, alarmAt, rearm>>

\* The alarm handler dies before setAlarm; the platform runs it again.
AlarmDies ==
    /\ crashes < MaxCrashes
    /\ rearm # None
    /\ crashes' = crashes + 1
    /\ rearm' = None
    /\ alarmAt' = now
    /\ UNCHANGED <<now, win, chk>>

\* A check is sent while a window it opens would still end within the clock.
Send(r) ==
    /\ chk[r].pc = "unsent"
    /\ now + Window <= MaxTime
    /\ chk' = [chk EXCEPT ![r].pc = "sent"]
    /\ UNCHANGED <<now, win, alarmAt, rearm, crashes>>

\* Time passes; the bound on the clock waits for checks that were sent.
Tick ==
    /\ now < MaxTime
    /\ (\E r \in Request : chk[r].pc = "sent") => now + Window < MaxTime
    /\ now' = now + 1
    /\ UNCHANGED <<win, alarmAt, rearm, chk, crashes>>

Check(r) == OpenWindow(r) \/ Refuse(r) \/ Admit(r) \/ SetAlarm(r)

Next ==
    \/ \E r \in Request : Send(r) \/ Check(r) \/ CheckDies(r)
    \/ Alarm \/ SetAlarmAgain \/ AlarmDies \/ Tick

Spec == Init /\ [][Next]_vars

\* The platform runs what was sent and alarms that are due; time goes on.
Fairness ==
    /\ WF_vars(Tick)
    /\ WF_vars(Alarm)
    /\ WF_vars(SetAlarmAgain)
    /\ \A r \in Request : WF_vars(Check(r))

FairSpec == Spec /\ Fairness

-----------------------------------------------------------------------------
(* Properties                                                              *)

CheckState ==
    [pc: {"unsent", "sent", "opened", "answered", "failed"}, at: Time,
     allowed: BOOLEAN, retry: Nat, resetAt: Int]

\* The shape of every variable.
TypeOK ==
    /\ now \in Time
    /\ win \in {None} \union [count: 1..RateLimit, resetAt: Time]
    /\ alarmAt \in {None} \union Time
    /\ rearm \in {None} \union Time
    /\ chk \in [Request -> CheckState]
    /\ crashes \in 0..MaxCrashes

Decided(r) == chk[r].pc \in {"opened", "answered", "failed"}
Admitted(from, to) ==
    {r \in Request : Decided(r) /\ chk[r].allowed /\ chk[r].at >= from /\ chk[r].at < to}

\* No RateLimit+1 admissions fall in one window, and fewer than two windows' worth in
\* any stretch of time as long as one, wherever it begins, although windows are deleted
\* by an alarm that runs beside the checks.
QuotaHolds ==
    /\ win # None => /\ Cardinality(Admitted(win.resetAt - Window, win.resetAt)) = win.count
                     /\ win.count <= RateLimit
    /\ \A t \in Time : Cardinality(Admitted(t, t + Window)) < 2 * RateLimit

\* A client that waits as long as Retry-After says is not refused by the
\* window that refused it, and is told to wait less than a second too long.
RetryAfterSuffices ==
    \A r \in Request :
        Decided(r) /\ ~chk[r].allowed =>
            LET until == chk[r].at + chk[r].retry * Second IN
            /\ now >= until /\ win # None => win.resetAt # chk[r].resetAt \/ Expired
            /\ until < chk[r].resetAt + Second

\* The check that opened the stored window was evicted before it set the alarm, and
\* no alarm of an earlier window is left to find it.
Orphaned ==
    /\ alarmAt = None /\ rearm = None /\ win # None
    /\ \E r \in Request : chk[r].pc = "failed" /\ chk[r].resetAt = win.resetAt

\* A client's window does not stay in storage: once the client stops sending, the window
\* is deleted, whatever was evicted before.  Only a window may stay whose own check was
\* evicted in the gap between the transaction and setAlarm (54-57), with no later check.
WindowIsDeleted == <>[](win = None \/ Orphaned)
=============================================================================
