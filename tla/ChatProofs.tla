------------------------------ MODULE ChatProofs -----------------------------
(***************************************************************************)
(* Proofs about ChatLimiter and HostedChat, for any number of requests,    *)
(* any limit, window and clock, and any number of evictions.               *)
(***************************************************************************)
EXTENDS HostedChat, FiniteSetTheorems, TLAPS

(***************************************************************************)
(* The limiter.  An admission belongs to the window that ends when its     *)
(* answer says; windows do not overlap and none has more than RateLimit    *)
(* admissions.  A stretch of time as long as a window meets two windows at *)
(* most, and then not the admission that opened the first of them.         *)
(***************************************************************************)
AdmittedAtAll == {r \in Request : Decided(r) /\ chk[r].allowed}
InWindow(end) == {r \in AdmittedAtAll : chk[r].resetAt = end}

EndsInTime == \A r \in Request : chk[r].resetAt \in Time

\* Only requests that were decided are admitted, and they are finitely many.
FiniteInv == IsFiniteSet(AdmittedAtAll)

\* An admission lies in its window, and a window still open is the stored one.
WindowInv ==
    \A r \in AdmittedAtAll :
        /\ chk[r].resetAt - Window <= chk[r].at
        /\ chk[r].at < chk[r].resetAt
        /\ chk[r].at <= now
        /\ chk[r].resetAt > now => win # None /\ win.resetAt = chk[r].resetAt

\* Windows do not overlap.
DisjointInv ==
    \A r, s \in AdmittedAtAll :
        \/ chk[r].resetAt = chk[s].resetAt
        \/ chk[r].resetAt + Window <= chk[s].resetAt
        \/ chk[s].resetAt + Window <= chk[r].resetAt

\* Of the admissions of a window one opened it.
Opens(o, end) == o \in AdmittedAtAll /\ chk[o].resetAt = end /\ chk[o].at = end - Window
OpenerInv == \A r \in AdmittedAtAll : \E o \in AdmittedAtAll : Opens(o, chk[r].resetAt)

\* No window has more admissions than the limit; the stored one counts them.
CountInv ==
    /\ \A end \in Time : Cardinality(InWindow(end)) <= RateLimit
    /\ win # None => Cardinality(InWindow(win.resetAt)) = win.count

\* A refusal names the end of the window, rounded up to a second.
RefusedInv ==
    \A r \in Request :
        Decided(r) /\ ~chk[r].allowed =>
            /\ chk[r].resetAt <= chk[r].at + chk[r].retry * Second
            /\ chk[r].at + chk[r].retry * Second < chk[r].resetAt + Second

LimiterInv ==
    /\ TypeOK
    /\ EndsInTime
    /\ FiniteInv
    /\ WindowInv
    /\ DisjointInv
    /\ OpenerInv
    /\ CountInv
    /\ RefusedInv

LEMMA TimeIsNat == Time \subseteq Nat
BY BoundsAssumption DEF Time

LEMMA UnsentIsCheck == Unsent \in CheckState
BY BoundsAssumption DEF Unsent, CheckState, Time

LEMMA Init_LimiterInv == Init => LimiterInv
<1> SUFFICES ASSUME Init PROVE LimiterInv
  OBVIOUS
<1>1. TypeOK /\ EndsInTime
  BY UnsentIsCheck, BoundsAssumption DEF Init, TypeOK, EndsInTime, Time, Unsent
<1>2. AdmittedAtAll = {} /\ \A end : InWindow(end) = {}
  BY DEF Init, AdmittedAtAll, InWindow, Decided, Unsent
<1>3. FiniteInv /\ WindowInv /\ DisjointInv /\ OpenerInv
  BY <1>2, FS_EmptySet DEF FiniteInv, WindowInv, DisjointInv, OpenerInv
<1>4. CountInv
  BY <1>2, FS_EmptySet, LimitAssumption DEF CountInv, Init
<1>5. RefusedInv
  BY DEF Init, RefusedInv, Decided, Unsent
<1> QED BY <1>1, <1>3, <1>4, <1>5 DEF LimiterInv

\* A step that decides nothing, and stores no window but may delete one.
LEMMA Undecided_LimiterInv ==
    ASSUME LimiterInv, TypeOK', now' >= now,
           \/ win' = win
           \/ win' = None /\ Expired,
           \A r \in Request :
              /\ Decided(r)' <=> Decided(r)
              /\ chk'[r].allowed = chk[r].allowed
              /\ chk'[r].at = chk[r].at
              /\ chk'[r].retry = chk[r].retry
              /\ chk'[r].resetAt = chk[r].resetAt
    PROVE  LimiterInv'
<1>1. AdmittedAtAll' = AdmittedAtAll
  BY DEF AdmittedAtAll
<1>2. ASSUME NEW end PROVE InWindow(end)' = InWindow(end)
  BY <1>1 DEF InWindow, AdmittedAtAll
<1>3. EndsInTime' /\ FiniteInv' /\ RefusedInv'
  BY <1>1 DEF LimiterInv, EndsInTime, FiniteInv, RefusedInv
<1>4. now \in Nat /\ now' \in Nat /\ \A r \in Request : chk[r].resetAt \in Nat /\ chk[r].at \in Nat
  BY TimeIsNat DEF LimiterInv, TypeOK, EndsInTime, CheckState
<1>5. WindowInv'
  <2> SUFFICES ASSUME NEW r \in AdmittedAtAll
               PROVE  (/\ chk[r].resetAt - Window <= chk[r].at
                       /\ chk[r].at < chk[r].resetAt
                       /\ chk[r].at <= now
                       /\ chk[r].resetAt > now => win # None /\ win.resetAt = chk[r].resetAt)'
    BY <1>1 DEF WindowInv
  <2>1. r \in Request
    BY DEF AdmittedAtAll
  <2>2. /\ chk[r].resetAt - Window <= chk[r].at
        /\ chk[r].at < chk[r].resetAt
        /\ chk[r].at <= now
        /\ chk[r].resetAt > now => win # None /\ win.resetAt = chk[r].resetAt
    BY DEF LimiterInv, WindowInv
  <2>3. chk[r].resetAt > now => win' = win
    BY <2>1, <2>2, <1>4 DEF Expired
  <2> QED BY <2>1, <2>2, <2>3, <1>4
<1>6. DisjointInv'
  BY <1>1 DEF LimiterInv, DisjointInv, AdmittedAtAll
<1>7. OpenerInv'
  <2>1. \A r \in AdmittedAtAll : chk'[r].resetAt = chk[r].resetAt /\ chk'[r].at = chk[r].at
    BY DEF AdmittedAtAll
  <2> QED BY <1>1, <2>1 DEF LimiterInv, OpenerInv, Opens
<1>8. CountInv'
  BY <1>2 DEF LimiterInv, CountInv
<1> QED BY <1>3, <1>5, <1>6, <1>7, <1>8 DEF LimiterInv

\* A check that admits its request, into a window stored from now on.
LEMMA Admission_LimiterInv ==
    ASSUME LimiterInv, TypeOK', NEW r \in Request, NEW end \in Time, NEW n \in 1..RateLimit,
           NEW pc \in {"opened", "answered"},
           chk[r].pc = "sent", now < end, end <= now + Window,
           Decide(r, pc, TRUE, 0, end), UNCHANGED now,
           win' = [count |-> n, resetAt |-> end],
           Cardinality(InWindow(end)) = n - 1,
           end = now + Window \/ \E s \in AdmittedAtAll : chk[s].resetAt = end,
           \A s \in AdmittedAtAll :
              \/ chk[s].resetAt = end
              \/ chk[s].resetAt <= now /\ chk[s].resetAt + Window <= end
    PROVE  LimiterInv'
<1>1. /\ chk \in [Request -> CheckState]
      /\ now \in Nat /\ end \in Nat /\ Window \in Nat /\ RateLimit \in Nat
      /\ \A s \in Request : chk[s].resetAt \in Nat /\ chk[s].at \in Nat
  BY TimeIsNat, WindowAssumption, LimitAssumption DEF LimiterInv, TypeOK, EndsInTime, CheckState
<1>2. \A s \in Request : chk'[s] =
        IF s = r THEN [pc |-> pc, at |-> now, allowed |-> TRUE, retry |-> 0, resetAt |-> end]
        ELSE chk[s]
  BY <1>1 DEF Decide
<1>3. r \notin AdmittedAtAll
  BY DEF AdmittedAtAll, Decided
<1>4. AdmittedAtAll' = AdmittedAtAll \union {r}
  BY <1>2 DEF AdmittedAtAll, Decided
<1>5. InWindow(end)' = InWindow(end) \union {r} /\ r \notin InWindow(end)
  BY <1>2, <1>3, <1>4 DEF InWindow, AdmittedAtAll
<1>6. ASSUME NEW e, e # end PROVE InWindow(e)' = InWindow(e)
  BY <1>2, <1>3, <1>4, <1>6 DEF InWindow, AdmittedAtAll
<1>7. IsFiniteSet(InWindow(end))
  BY FS_Subset DEF LimiterInv, FiniteInv, InWindow
<1>8. Cardinality(InWindow(end)') = n
  <2>1. Cardinality(InWindow(end) \union {r}) = Cardinality(InWindow(end)) + 1
    BY <1>5, <1>7, FS_AddElement
  <2> QED BY <1>1, <1>5, <2>1
<1>9. CountInv'
  <2>1. \A e \in Time : Cardinality(InWindow(e)') <= RateLimit
    BY <1>1, <1>6, <1>8 DEF LimiterInv, CountInv
  <2> QED BY <2>1, <1>8 DEF CountInv
<1>10. EndsInTime' /\ FiniteInv'
  BY <1>2, <1>4, FS_AddElement DEF LimiterInv, EndsInTime, FiniteInv
<1>11. WindowInv'
  <2> SUFFICES ASSUME NEW s \in AdmittedAtAll'
               PROVE  (/\ chk[s].resetAt - Window <= chk[s].at
                       /\ chk[s].at < chk[s].resetAt
                       /\ chk[s].at <= now
                       /\ chk[s].resetAt > now => win # None /\ win.resetAt = chk[s].resetAt)'
    BY DEF WindowInv
  <2>1. win' # None
    BY NoneAssumption, <1>1
  <2>2. CASE s = r
    BY <1>1, <1>2, <2>1, <2>2
  <2>3. CASE s # r
    <3>1. s \in AdmittedAtAll /\ s \in Request /\ chk'[s] = chk[s]
      BY <1>2, <1>4, <2>3 DEF AdmittedAtAll
    <3>2. chk[s].resetAt > now => chk[s].resetAt = end
      BY <3>1, <1>1
    <3> QED BY <3>1, <3>2, <1>1, <2>1 DEF LimiterInv, WindowInv
  <2> QED BY <2>2, <2>3
<1>12. DisjointInv'
  <2> SUFFICES ASSUME NEW s \in AdmittedAtAll', NEW t \in AdmittedAtAll'
               PROVE  (\/ chk[s].resetAt = chk[t].resetAt
                       \/ chk[s].resetAt + Window <= chk[t].resetAt
                       \/ chk[t].resetAt + Window <= chk[s].resetAt)'
    BY DEF DisjointInv
  <2>1. \A q \in AdmittedAtAll' : q # r => q \in AdmittedAtAll /\ chk'[q] = chk[q]
    BY <1>2, <1>4 DEF AdmittedAtAll
  <2>2. chk'[r].resetAt = end
    BY <1>2
  <2>3. CASE s = r \/ t = r
    BY <2>1, <2>2, <2>3
  <2>4. CASE s # r /\ t # r
    BY <2>1, <2>4 DEF LimiterInv, DisjointInv
  <2> QED BY <2>3, <2>4
<1>13. OpenerInv'
  <2>1. \A q \in AdmittedAtAll : q \in AdmittedAtAll' /\ chk'[q] = chk[q]
    BY <1>2, <1>3, <1>4 DEF AdmittedAtAll
  <2>2. \A s \in AdmittedAtAll : \E o \in AdmittedAtAll : Opens(o, chk[s].resetAt)
    BY DEF LimiterInv, OpenerInv
  <2>3. \A e : \A o \in AdmittedAtAll : Opens(o, e) => Opens(o, e)'
    BY <2>1 DEF Opens
  <2>4. \E o \in AdmittedAtAll' : Opens(o, end)'
    <3>1. CASE end = now + Window
      <4>1. chk'[r].resetAt = end /\ chk'[r].at = end - Window
        BY <1>1, <1>2, <3>1
      <4> QED BY <1>4, <4>1 DEF Opens
    <3>2. CASE \E s \in AdmittedAtAll : chk[s].resetAt = end
      BY <2>1, <2>2, <2>3, <3>2
    <3> QED BY <3>1, <3>2
  <2>5. ASSUME NEW s \in AdmittedAtAll' PROVE \E o \in AdmittedAtAll' : Opens(o, chk[s].resetAt)'
    <3>1. CASE s = r
      BY <1>2, <2>4, <3>1
    <3>2. CASE s # r
      <4>1. s \in AdmittedAtAll /\ chk'[s] = chk[s]
        BY <1>4, <2>1, <3>2
      <4> QED BY <2>1, <2>2, <2>3, <4>1
    <3> QED BY <3>1, <3>2
  <2> QED BY <2>5 DEF OpenerInv
<1>14. RefusedInv'
  BY <1>2 DEF LimiterInv, RefusedInv, Decided
<1> QED BY <1>9, <1>10, <1>11, <1>12, <1>13, <1>14 DEF LimiterInv

\* A check that changes the rest of chk[r] keeps what was decided.
LEMMA OpenWindow_LimiterInv == ASSUME LimiterInv, NEW r \in Request, OpenWindow(r) PROVE LimiterInv'
<1>1. /\ now \in Nat /\ Window \in Nat /\ Window > 0 /\ now \in Time
      /\ now + Window \in Time /\ RateLimit \in Nat /\ RateLimit > 0
  BY TimeIsNat, WindowAssumption, LimitAssumption, BoundsAssumption
     DEF LimiterInv, TypeOK, OpenWindow, Time
<1>2. TypeOK'
  <2>1. chk' \in [Request -> CheckState]
    BY <1>1 DEF OpenWindow, Decide, LimiterInv, TypeOK, CheckState
  <2> QED BY <1>1, <2>1 DEF OpenWindow, LimiterInv, TypeOK
<1>3. \A s \in AdmittedAtAll : chk[s].resetAt \in Nat /\ chk[s].resetAt <= now
  <2> SUFFICES ASSUME NEW s \in AdmittedAtAll
               PROVE  chk[s].resetAt \in Nat /\ chk[s].resetAt <= now
    OBVIOUS
  <2>1. chk[s].resetAt \in Nat
    BY TimeIsNat DEF LimiterInv, EndsInTime, AdmittedAtAll
  <2>2. chk[s].resetAt > now => win # None /\ win.resetAt > now
    BY DEF LimiterInv, WindowInv
  <2>3. win # None => now >= win.resetAt /\ win.resetAt \in Nat
    BY TimeIsNat DEF OpenWindow, Expired, LimiterInv, TypeOK
  <2> QED BY <1>1, <2>1, <2>2, <2>3
<1> DEFINE end == now + Window
<1>4. InWindow(end) = {}
  BY <1>1, <1>3 DEF InWindow
<1>5. Cardinality(InWindow(end)) = 1 - 1
  BY <1>4, FS_EmptySet
<1>6. /\ chk[r].pc = "sent" /\ Decide(r, "opened", TRUE, 0, end) /\ UNCHANGED now
      /\ win' = [count |-> 1, resetAt |-> end]
  BY DEF OpenWindow
<1>7. /\ end \in Time /\ now < end /\ end <= now + Window /\ 1 \in 1..RateLimit
      /\ end = now + Window
      /\ \A s \in AdmittedAtAll : chk[s].resetAt <= now /\ chk[s].resetAt + Window <= end
  BY <1>1, <1>3
<1> HIDE DEF end
<1> QED BY <1>1, <1>2, <1>5, <1>6, <1>7, Admission_LimiterInv

LEMMA Admit_LimiterInv == ASSUME LimiterInv, NEW r \in Request, Admit(r) PROVE LimiterInv'
<1> DEFINE end == win.resetAt
           n == win.count + 1
<1>1. /\ now \in Nat /\ Window \in Nat /\ RateLimit \in Nat /\ now \in Time
      /\ win # None /\ win \in [count: 1..RateLimit, resetAt: Time]
      /\ now < end /\ win.count < RateLimit
  BY TimeIsNat, WindowAssumption, LimitAssumption
     DEF LimiterInv, TypeOK, Admit, Expired
<1>2. /\ end \in Time /\ end \in Nat
      /\ win.count \in Nat /\ win.count > 0 /\ n \in 1..RateLimit /\ n - 1 = win.count
  <2>1. win.count \in 1..RateLimit /\ win.count < RateLimit /\ RateLimit \in Nat
    BY <1>1
  <2>2. n \in 1..RateLimit /\ n - 1 = win.count /\ win.count \in Nat /\ win.count > 0
    BY <2>1
  <2>3. end \in Time
    BY <1>1
  <2> QED BY <2>2, <2>3, TimeIsNat
<1>3. win' = [count |-> n, resetAt |-> end]
  BY <1>1 DEF Admit
<1>4. TypeOK'
  <2>1. chk' \in [Request -> CheckState]
    BY <1>1, <1>2 DEF Admit, Decide, LimiterInv, TypeOK, CheckState, Time
  <2> QED BY <1>1, <1>2, <1>3, <2>1 DEF Admit, LimiterInv, TypeOK
<1>5. Cardinality(InWindow(end)) = n - 1
  BY <1>1, <1>2 DEF LimiterInv, CountInv
<1>6. PICK q \in AdmittedAtAll : chk[q].resetAt = end
  <2>1. InWindow(end) # {}
    <3>1. Cardinality(InWindow(end)) # 0
      BY <1>2, <1>5
    <3> QED BY <3>1, FS_EmptySet
  <2> QED BY <2>1 DEF InWindow
<1>7. /\ end <= now + Window
      /\ \A s \in AdmittedAtAll :
           \/ chk[s].resetAt = end
           \/ chk[s].resetAt <= now /\ chk[s].resetAt + Window <= end
  <2>1. \A s \in AdmittedAtAll : chk[s].resetAt \in Nat /\ chk[s].at \in Nat
    BY TimeIsNat DEF LimiterInv, EndsInTime, AdmittedAtAll, TypeOK, CheckState
  <2>2. end <= now + Window
    BY <1>1, <1>2, <1>6, <2>1 DEF LimiterInv, WindowInv
  <2>3. ASSUME NEW s \in AdmittedAtAll, chk[s].resetAt # end
        PROVE  chk[s].resetAt <= now /\ chk[s].resetAt + Window <= end
    <3>1. chk[s].resetAt <= now
      BY <1>1, <2>1, <2>3 DEF LimiterInv, WindowInv
    <3>2. chk[s].resetAt + Window <= end \/ end + Window <= chk[s].resetAt
      BY <1>6, <2>3 DEF LimiterInv, DisjointInv
    <3> QED BY <1>1, <1>2, <2>1, <3>1, <3>2
  <2> QED BY <2>2, <2>3
<1>8. chk[r].pc = "sent" /\ Decide(r, "answered", TRUE, 0, end) /\ UNCHANGED now
  BY DEF Admit
<1> HIDE DEF end, n
<1> QED BY <1>1, <1>2, <1>3, <1>4, <1>5, <1>6, <1>7, <1>8, Admission_LimiterInv DEF end

\* Rounding up to whole seconds.
LEMMA CeilRoundsUp ==
    ASSUME NEW n \in Nat \ {0}
    PROVE  /\ Ceil(n) \in Nat /\ Ceil(n) >= 1
           /\ n <= Ceil(n) * Second
           /\ Ceil(n) * Second < n + Second
<1> DEFINE m == n + Second - 1
           q == m \div Second
<1>1. Second \in Nat /\ Second > 0 /\ m \in Nat /\ m >= Second
  BY WindowAssumption
<1>2. q \in Nat /\ q * Second <= m /\ m < q * Second + Second
  <2> HIDE DEF m
  <2>1. q \in Int /\ m % Second \in 0..(Second - 1) /\ m = Second * q + (m % Second)
    BY <1>1
  <2> QED BY <1>1, <2>1
<1>3. q >= 1
  BY <1>1, <1>2
<1> QED BY <1>1, <1>2, <1>3 DEF Ceil

LEMMA Refuse_LimiterInv == ASSUME LimiterInv, NEW r \in Request, Refuse(r) PROVE LimiterInv'
<1> DEFINE end == win.resetAt
           wait == Ceil(end - now)
<1>1. /\ now \in Nat /\ now \in Time /\ Second \in Nat
      /\ end \in Time /\ end \in Nat /\ now < end
  <2>1. now \in Time /\ Second \in Nat
    BY WindowAssumption DEF LimiterInv, TypeOK
  <2>2. win # None /\ win \in [count: 1..RateLimit, resetAt: Time]
    BY DEF LimiterInv, TypeOK, Refuse, Expired
  <2>3. end \in Time
    BY <2>2
  <2>4. end \in Nat /\ now \in Nat
    BY <2>1, <2>3, TimeIsNat
  <2>5. ~(now >= end)
    BY <2>2 DEF Refuse, Expired
  <2> QED BY <2>1, <2>3, <2>4, <2>5
<1>2. end - now \in Nat \ {0}
  BY <1>1
<1>3. /\ wait \in Nat /\ wait >= 1
      /\ end - now <= wait * Second
      /\ wait * Second < (end - now) + Second
  <2> HIDE DEF end
  <2> QED BY <1>2, CeilRoundsUp
<1> HIDE DEF wait, end
<1>4. AtLeastOne(wait) = wait
  BY <1>3 DEF AtLeastOne
<1>5. Decide(r, "answered", FALSE, wait, end) /\ UNCHANGED <<now, win, alarmAt, rearm, crashes>>
  BY <1>4 DEF Refuse, end, wait
<1>6. chk[r].pc = "sent" /\ chk \in [Request -> CheckState]
  BY DEF Refuse, LimiterInv, TypeOK
<1>7. \A s \in Request : chk'[s] =
        IF s = r THEN [pc |-> "answered", at |-> now, allowed |-> FALSE,
                       retry |-> wait, resetAt |-> end]
        ELSE chk[s]
  BY <1>5, <1>6 DEF Decide
<1>8. TypeOK'
  <2>1. chk' \in [Request -> CheckState]
    BY <1>1, <1>3, <1>5, <1>6 DEF Decide, CheckState
  <2> QED BY <1>5, <2>1 DEF LimiterInv, TypeOK
<1>9. AdmittedAtAll' = AdmittedAtAll /\ \A s \in AdmittedAtAll : s \in Request /\ chk'[s] = chk[s]
  BY <1>6, <1>7 DEF AdmittedAtAll, Decided
<1>10. ASSUME NEW e PROVE InWindow(e)' = InWindow(e)
  BY <1>9 DEF InWindow
<1>11. EndsInTime' /\ FiniteInv' /\ WindowInv' /\ DisjointInv' /\ OpenerInv' /\ CountInv'
  <2>1. OpenerInv'
    BY <1>9 DEF LimiterInv, OpenerInv, Opens
  <2> QED BY <1>1, <1>5, <1>7, <1>9, <1>10, <2>1
          DEF LimiterInv, EndsInTime, FiniteInv, WindowInv, DisjointInv, CountInv
<1>12. RefusedInv'
  <2> SUFFICES ASSUME NEW s \in Request, Decided(s)', ~chk'[s].allowed
               PROVE  /\ chk'[s].resetAt <= chk'[s].at + chk'[s].retry * Second
                      /\ chk'[s].at + chk'[s].retry * Second < chk'[s].resetAt + Second
    BY DEF RefusedInv
  <2>1. CASE s = r
    <3>1. wait * Second \in Nat
      BY <1>1, <1>3
    <3> QED BY <1>1, <1>3, <1>7, <2>1, <3>1
  <2>2. CASE s # r
    BY <1>7, <2>2 DEF LimiterInv, RefusedInv, Decided
  <2> QED BY <2>1, <2>2
<1> QED BY <1>8, <1>11, <1>12 DEF LimiterInv

\* The steps that decide nothing.
LEMMA Quiet_LimiterInv ==
    ASSUME LimiterInv,
           \/ \E r \in Request : Send(r) \/ SetAlarm(r) \/ CheckDies(r)
           \/ Alarm \/ SetAlarmAgain \/ AlarmDies \/ Tick
    PROVE  LimiterInv'
<1>1. now \in Nat /\ now \in Time /\ chk \in [Request -> CheckState]
  BY TimeIsNat DEF LimiterInv, TypeOK
<1>2. ASSUME NEW r \in Request, Send(r) \/ SetAlarm(r) \/ CheckDies(r) PROVE LimiterInv'
  <2>1. now' = now /\ win' = win /\ rearm' = rearm
    BY <1>2 DEF Send, SetAlarm, CheckDies
  <2>2. PICK pc \in {"sent", "answered", "failed"} :
          /\ chk' = [chk EXCEPT ![r].pc = pc]
          /\ chk[r].pc = "unsent" <=> pc = "sent"
          /\ chk[r].pc \in {"unsent", "opened"}
    BY <1>2 DEF Send, SetAlarm, CheckDies
  <2>3. chk' \in [Request -> CheckState]
    BY <1>1, <2>2 DEF CheckState
  <2>4. TypeOK'
    BY <1>2, <2>1, <2>3, BoundsAssumption
       DEF Send, SetAlarm, CheckDies, LimiterInv, TypeOK, EndsInTime
  <2>5. \A s \in Request :
          /\ Decided(s)' <=> Decided(s)
          /\ chk'[s].allowed = chk[s].allowed
          /\ chk'[s].at = chk[s].at
          /\ chk'[s].retry = chk[s].retry
          /\ chk'[s].resetAt = chk[s].resetAt
    BY <1>1, <2>2 DEF Decided, CheckState
  <2> QED BY <1>1, <2>1, <2>4, <2>5, Undecided_LimiterInv
<1>3. CASE Alarm \/ SetAlarmAgain \/ AlarmDies \/ Tick
  <2>1. chk' = chk /\ now' >= now
    BY <1>1, <1>3 DEF Alarm, SetAlarmAgain, AlarmDies, Tick
  <2>2. win' = win \/ (win' = None /\ Expired)
    BY <1>3 DEF Alarm, SetAlarmAgain, AlarmDies, Tick
  <2>3. TypeOK'
    <3>1. CASE Alarm
      BY <3>1 DEF Alarm, LimiterInv, TypeOK, Expired
    <3>2. CASE SetAlarmAgain
      BY <3>2 DEF SetAlarmAgain, LimiterInv, TypeOK
    <3>3. CASE AlarmDies
      BY <3>3, BoundsAssumption DEF AlarmDies, LimiterInv, TypeOK
    <3>4. CASE Tick
      BY <3>4, <1>1, BoundsAssumption DEF Tick, LimiterInv, TypeOK, Time
    <3> QED BY <1>3, <3>1, <3>2, <3>3, <3>4
  <2> QED BY <2>1, <2>2, <2>3, Undecided_LimiterInv DEF Decided
<1> QED BY <1>2, <1>3

LEMMA Next_LimiterInv == LimiterInv /\ [Next]_vars => LimiterInv'
<1> SUFFICES ASSUME LimiterInv, [Next]_vars PROVE LimiterInv'
  OBVIOUS
<1>1. ASSUME NEW r \in Request, Send(r) \/ Check(r) \/ CheckDies(r) PROVE LimiterInv'
  BY <1>1, OpenWindow_LimiterInv, Refuse_LimiterInv, Admit_LimiterInv, Quiet_LimiterInv
     DEF Check
<1>2. CASE Alarm \/ SetAlarmAgain \/ AlarmDies \/ Tick
  BY <1>2, Quiet_LimiterInv
<1>3. CASE UNCHANGED vars
  <2>1. TypeOK' /\ now' >= now
    BY <1>3, TimeIsNat DEF vars, LimiterInv, TypeOK
  <2> QED BY <1>3, <2>1, Undecided_LimiterInv DEF vars, Decided
<1> QED BY <1>1, <1>2, <1>3 DEF Next

LEMMA LimiterInvariance == Spec => []LimiterInv
BY Init_LimiterInv, Next_LimiterInv, PTL DEF Spec

\* The admissions of a stretch of time, and those of the stored window.
LEMMA AdmittedIsFinite ==
    ASSUME LimiterInv, NEW from, NEW to
    PROVE  /\ Admitted(from, to) \subseteq AdmittedAtAll
           /\ IsFiniteSet(Admitted(from, to))
<1>1. Admitted(from, to) \subseteq AdmittedAtAll
  BY DEF Admitted, AdmittedAtAll
<1> QED BY <1>1, FS_Subset DEF LimiterInv, FiniteInv

LEMMA InvMeansStoredCount ==
    ASSUME LimiterInv, win # None
    PROVE  /\ Cardinality(Admitted(win.resetAt - Window, win.resetAt)) = win.count
           /\ win.count <= RateLimit
<1> DEFINE end == win.resetAt
<1>1. end \in Time /\ end \in Nat /\ Window \in Nat /\ win.count \in 1..RateLimit
  BY TimeIsNat, WindowAssumption DEF LimiterInv, TypeOK
<1>2. Cardinality(InWindow(end)) = win.count
  BY DEF LimiterInv, CountInv
<1>3. PICK q \in AdmittedAtAll : chk[q].resetAt = end
  <2>1. InWindow(end) # {}
    <3>1. Cardinality(InWindow(end)) # 0
      BY <1>1, <1>2
    <3> QED BY <3>1, FS_EmptySet
  <2> QED BY <2>1 DEF InWindow
<1>4. \A s \in AdmittedAtAll :
        /\ s \in Request /\ chk[s].resetAt \in Nat /\ chk[s].at \in Nat
        /\ chk[s].resetAt - Window <= chk[s].at /\ chk[s].at < chk[s].resetAt
        /\ \/ chk[s].resetAt = end
           \/ chk[s].resetAt + Window <= end \/ end + Window <= chk[s].resetAt
  BY <1>3, TimeIsNat
     DEF LimiterInv, EndsInTime, AdmittedAtAll, TypeOK, CheckState, WindowInv, DisjointInv
<1> HIDE DEF end
<1>5. Admitted(end - Window, end) = InWindow(end)
  <2>1. \A s \in AdmittedAtAll :
          chk[s].at >= end - Window /\ chk[s].at < end <=> chk[s].resetAt = end
    BY <1>1, <1>4
  <2> QED BY <2>1 DEF Admitted, InWindow, AdmittedAtAll
<1> QED BY <1>1, <1>2, <1>5 DEF end

\* A window has at most RateLimit admissions, and one less without its first.
LEMMA WindowCount ==
    ASSUME LimiterInv, NEW e \in Time
    PROVE  /\ IsFiniteSet(InWindow(e)) /\ Cardinality(InWindow(e)) \in Nat
           /\ Cardinality(InWindow(e)) <= RateLimit
           /\ \A o \in InWindow(e) :
                /\ IsFiniteSet(InWindow(e) \ {o}) /\ Cardinality(InWindow(e) \ {o}) \in Nat
                /\ Cardinality(InWindow(e) \ {o}) < RateLimit
<1>1. InWindow(e) \subseteq AdmittedAtAll /\ IsFiniteSet(AdmittedAtAll) /\ RateLimit \in Nat
  BY LimitAssumption DEF InWindow, LimiterInv, FiniteInv
<1>2. /\ IsFiniteSet(InWindow(e)) /\ Cardinality(InWindow(e)) \in Nat
      /\ Cardinality(InWindow(e)) <= RateLimit
  BY <1>1, FS_Subset, FS_CardinalityType DEF LimiterInv, CountInv
<1>3. ASSUME NEW o \in InWindow(e)
      PROVE  /\ IsFiniteSet(InWindow(e) \ {o}) /\ Cardinality(InWindow(e) \ {o}) \in Nat
             /\ Cardinality(InWindow(e) \ {o}) < RateLimit
  <2>1. /\ IsFiniteSet(InWindow(e) \ {o})
        /\ Cardinality(InWindow(e) \ {o}) = Cardinality(InWindow(e)) - 1
    BY <1>2, FS_RemoveElement
  <2>2. Cardinality(InWindow(e) \ {o}) \in Nat
    BY <2>1, FS_CardinalityType
  <2> QED BY <1>1, <1>2, <2>1, <2>2
<1> QED BY <1>2, <1>3

\* Two finite sets, the first smaller than n and the second not larger.
LEMMA UnionCount ==
    ASSUME NEW n \in Nat, NEW A, NEW B, IsFiniteSet(A), IsFiniteSet(B),
           Cardinality(A) < n, Cardinality(B) <= n, NEW S \in SUBSET (A \union B)
    PROVE  Cardinality(S) < 2 * n
<1>1. /\ IsFiniteSet(A \union B) /\ IsFiniteSet(A \intersect B)
      /\ Cardinality(A \union B) = Cardinality(A) + Cardinality(B) - Cardinality(A \intersect B)
  BY FS_Union, FS_Intersection
<1>2. /\ Cardinality(A) \in Nat /\ Cardinality(B) \in Nat
      /\ Cardinality(A \intersect B) \in Nat /\ Cardinality(A \union B) \in Nat
  BY <1>1, FS_CardinalityType
<1>3. /\ IsFiniteSet(S) /\ Cardinality(S) \in Nat
      /\ Cardinality(S) <= Cardinality(A \union B)
  BY <1>1, FS_Subset, FS_CardinalityType
<1> QED BY <1>1, <1>2, <1>3

\* A stretch as long as a window meets at most two windows, and if it meets two, the
\* first was opened before it.
LEMMA InvMeansTwoWindows ==
    ASSUME LimiterInv, NEW t \in Time
    PROVE  Cardinality(Admitted(t, t + Window)) < 2 * RateLimit
<1> DEFINE S == Admitted(t, t + Window)
           End(s) == chk[s].resetAt
<1>1. t \in Nat /\ Window \in Nat /\ RateLimit \in Nat /\ RateLimit > 0
  BY TimeIsNat, WindowAssumption, LimitAssumption
<1>2. \A s \in S :
        /\ s \in AdmittedAtAll /\ End(s) \in Time /\ End(s) \in Nat
        /\ chk[s].at \in Nat /\ chk[s].at >= t /\ chk[s].at < t + Window
        /\ End(s) - Window <= chk[s].at /\ chk[s].at < End(s)
  <2> SUFFICES ASSUME NEW s \in S
               PROVE  /\ s \in AdmittedAtAll /\ End(s) \in Time /\ End(s) \in Nat
                      /\ chk[s].at \in Nat /\ chk[s].at >= t /\ chk[s].at < t + Window
                      /\ End(s) - Window <= chk[s].at /\ chk[s].at < End(s)
    OBVIOUS
  <2>1. s \in Request /\ s \in AdmittedAtAll /\ chk[s].at >= t /\ chk[s].at < t + Window
    BY DEF Admitted, AdmittedAtAll
  <2>2. End(s) \in Time /\ End(s) \in Nat /\ chk[s].at \in Nat
    BY <2>1, TimeIsNat DEF LimiterInv, EndsInTime, TypeOK, CheckState
  <2> QED BY <2>1, <2>2 DEF LimiterInv, WindowInv
<1>3. CASE S = {}
  BY <1>1, <1>3, FS_EmptySet
<1>4. CASE \E q \in S : \A s \in S : End(s) = End(q)
  <2>1. PICK q \in S : \A s \in S : End(s) = End(q)
    BY <1>4
  <2>2. S \subseteq InWindow(End(q)) /\ End(q) \in Time
    BY <1>2, <2>1 DEF InWindow
  <2> HIDE DEF S
  <2>3. /\ IsFiniteSet(InWindow(End(q))) /\ Cardinality(InWindow(End(q))) \in Nat
        /\ Cardinality(InWindow(End(q))) <= RateLimit
    BY <2>2, WindowCount
  <2>4. /\ IsFiniteSet(S) /\ Cardinality(S) \in Nat
        /\ Cardinality(S) <= Cardinality(InWindow(End(q)))
    BY <2>2, <2>3, FS_Subset, FS_CardinalityType
  <2>5. Cardinality(S) < 2 * RateLimit
    BY <1>1, <2>3, <2>4
  <2> QED BY <2>5 DEF S
<1>5. CASE \E q, p \in S : End(q) # End(p)
  <2>1. PICK q \in S, p \in S : End(q) + Window <= End(p)
    BY <1>2, <1>5 DEF LimiterInv, DisjointInv
  <2>2. ASSUME NEW s \in S PROVE End(s) = End(q) \/ End(s) = End(p)
    <3> SUFFICES ASSUME End(s) # End(q), End(s) # End(p) PROVE FALSE
      OBVIOUS
    <3>1. /\ End(s) + Window <= End(p) \/ End(p) + Window <= End(s)
          /\ End(s) + Window <= End(q) \/ End(q) + Window <= End(s)
      BY <1>2 DEF LimiterInv, DisjointInv
    <3> QED BY <1>1, <1>2, <2>1, <3>1
  <2>3. PICK o \in AdmittedAtAll : Opens(o, End(q))
    BY <1>2 DEF LimiterInv, OpenerInv
  <2>4. o \notin S
    BY <1>1, <1>2, <2>1, <2>3 DEF Opens
  <2>5. o \in InWindow(End(q))
    BY <2>3 DEF Opens, InWindow
  <2>6. S \subseteq (InWindow(End(q)) \ {o}) \union InWindow(End(p))
    BY <1>2, <2>2, <2>4 DEF InWindow
  <2>7. End(q) \in Time /\ End(p) \in Time
    BY <1>2
  <2> HIDE DEF S, End
  <2>8. /\ IsFiniteSet(InWindow(End(q)) \ {o}) /\ IsFiniteSet(InWindow(End(p)))
        /\ Cardinality(InWindow(End(q)) \ {o}) < RateLimit
        /\ Cardinality(InWindow(End(p))) <= RateLimit
    BY <2>5, <2>7, WindowCount
  <2>9. Cardinality(S) < 2 * RateLimit
    BY <1>1, <2>6, <2>8, UnionCount
  <2> QED BY <2>9 DEF S
<1> QED BY <1>3, <1>4, <1>5

LEMMA InvMeansQuota == LimiterInv => QuotaHolds
BY InvMeansStoredCount, InvMeansTwoWindows DEF QuotaHolds

LEMMA InvMeansRetry == LimiterInv => RetryAfterSuffices
<1> SUFFICES ASSUME LimiterInv, NEW r \in Request, Decided(r), ~chk[r].allowed,
                    NEW until, until = chk[r].at + chk[r].retry * Second
             PROVE  /\ now >= until /\ win # None =>
                         win.resetAt # chk[r].resetAt \/ Expired
                    /\ until < chk[r].resetAt + Second
  BY DEF RetryAfterSuffices
<1>1. chk[r].resetAt <= until /\ until < chk[r].resetAt + Second
  BY DEF LimiterInv, RefusedInv
<1>2. /\ now \in Nat /\ Second \in Nat
      /\ chk[r].resetAt \in Nat /\ chk[r].at \in Nat /\ chk[r].retry \in Nat
  BY TimeIsNat, WindowAssumption DEF LimiterInv, TypeOK, EndsInTime, CheckState
<1>3. until \in Nat
  <2>1. chk[r].retry * Second \in Nat
    BY <1>2
  <2> QED BY <1>2, <2>1
<1>4. ASSUME now >= until, win # None, win.resetAt = chk[r].resetAt PROVE Expired
  <2>1. now >= win.resetAt
    BY <1>1, <1>2, <1>3, <1>4
  <2> QED BY <1>4, <2>1 DEF Expired
<1> QED BY <1>1, <1>4

\* The limiter of chat-rate-limiter/src/index.js keeps the shape of its state.
THEOREM LimiterTypeCorrect == Spec => []TypeOK
<1>1. LimiterInv => TypeOK
  BY DEF LimiterInv
<1> QED BY <1>1, LimiterInvariance, PTL

\* However checks, alarms and evictions interleave, the limiter admits at most
\* RateLimit requests of a window, and fewer than twice as many in any stretch of
\* time as long as one.
THEOREM QuotaIsNeverExceeded == Spec => []QuotaHolds
BY InvMeansQuota, LimiterInvariance, PTL

\* A client that waits for Retry-After is not refused by the window that
\* refused it, and was not told to wait a second more than it had to.
THEOREM RetryAfterIsExact == Spec => []RetryAfterSuffices
BY InvMeansRetry, LimiterInvariance, PTL

-----------------------------------------------------------------------------
(***************************************************************************)
(* The chat function, whose steps are steps of the limiter or leave it be. *)
(***************************************************************************)
\* A request's handler and its check: the deadline is there while the provider
\* works for a handler that waits, which an admission started.
RequestInv(p, c) ==
    /\ p.pc \in {"body", "limiter"} => p.provider = "none"
    /\ p.pc \in {"call", "read"} => p.provider = "working"
    /\ p.pc # "done" => p.status = 0
    /\ p.deadline => p.pc \in {"call", "read"}
    /\ p.provider # "none" => /\ c.pc = "answered"
                              /\ c.allowed
                              /\ p.status \notin {429, 503}
    /\ p.pc = "done" /\ p.provider = "working" => p.aborted

PageInv ==
    /\ page \in [Request -> Handler]
    /\ \A r \in Request : RequestInv(page[r], chk[r])

LEMMA Init_PageInv == ChatInit => PageInv
BY DEF ChatInit, PageInv, Handler, RequestInv, Fresh, Status

\* What was answered stays answered.
LEMMA AnswersStay ==
    ASSUME TypeOK, [Next]_vars, NEW r \in Request, chk[r].pc = "answered"
    PROVE  chk'[r] = chk[r]
<1>1. chk \in [Request -> CheckState]
  BY DEF TypeOK
<1>2. ASSUME NEW s \in Request, Send(s) \/ Check(s) \/ CheckDies(s) PROVE chk'[r] = chk[r]
  <2>1. r # s
    BY <1>2 DEF Send, Check, OpenWindow, Refuse, Admit, SetAlarm, CheckDies
  <2> QED BY <1>1, <1>2, <2>1
          DEF Send, Check, OpenWindow, Refuse, Admit, SetAlarm, CheckDies, Decide
<1>3. CASE Alarm \/ SetAlarmAgain \/ AlarmDies \/ Tick
  BY <1>3 DEF Alarm, SetAlarmAgain, AlarmDies, Tick
<1>4. CASE UNCHANGED vars
  BY <1>4 DEF vars
<1> QED BY <1>2, <1>3, <1>4 DEF Next

\* Every step of the function is one of the limiter, or leaves it alone.
LEMMA ChatStepIsLimiterStep == [ChatNext]_chatVars => [Next]_vars
<1> SUFFICES ASSUME [ChatNext]_chatVars PROVE [Next]_vars
  OBVIOUS
<1>1. CASE LimiterStep
  BY <1>1 DEF LimiterStep, Next
<1>2. ASSUME NEW r \in Request,
             \/ Reject(r) \/ LimiterFails(r) \/ LimiterRefuses(r)
             \/ CallProvider(r) \/ AdmittedTooLate(r)
             \/ ProviderResponds(r) \/ ProviderAnswers(r)
             \/ DeadlineExpires(r) \/ Disconnect(r)
      PROVE  UNCHANGED vars
  BY ZenonT(30), <1>2 DEF Reject, LimiterFails, LimiterRefuses, CallProvider, AdmittedTooLate,
              ProviderResponds, ProviderAnswers, DeadlineExpires, Disconnect, limiterVars
<1>3. ASSUME NEW r \in Request, AskLimiter(r) PROVE Next
  BY <1>3 DEF AskLimiter, Next
<1>4. CASE UNCHANGED chatVars
  BY <1>4 DEF chatVars
<1> QED BY <1>1, <1>2, <1>3, <1>4 DEF ChatNext

\* One handler moves on, to a state that agrees with its check.
LEMMA Handler_PageInv ==
    ASSUME PageInv, TypeOK, [Next]_vars, NEW r \in Request, NEW p \in Handler,
           page' = [page EXCEPT ![r] = p],
           RequestInv(page[r], chk[r]) => RequestInv(p, chk[r])
    PROVE  PageInv'
<1>1. page' \in [Request -> Handler]
  BY DEF PageInv
<1>2. ASSUME NEW s \in Request PROVE RequestInv(page'[s], chk[s])
  BY DEF PageInv
<1>3. ASSUME NEW s \in Request PROVE RequestInv(page'[s], chk'[s])
  BY <1>2, <1>3, AnswersStay DEF RequestInv
<1> QED BY <1>1, <1>3 DEF PageInv

\* A step of one handler, to a state that agrees with its check if the handler did.
MovesTo(r) ==
    \E p \in Handler :
       /\ page' = [page EXCEPT ![r] = p]
       /\ RequestInv(page[r], chk[r]) => RequestInv(p, chk[r])

\* The answers given before a call is made.
LEMMA Respond_Moves ==
    ASSUME PageInv, NEW r \in Request, NEW status \in Status,
           Respond(r, status), page[r].pc \in {"body", "limiter"}
    PROVE  MovesTo(r)
<1>1. page \in [Request -> Handler] /\ page[r] \in Handler
  BY DEF PageInv
<1> SUFFICES ASSUME NEW p, p = [page[r] EXCEPT !.pc = "done", !.status = status, !.deadline = FALSE]
             PROVE  /\ p \in Handler
                    /\ page' = [page EXCEPT ![r] = p]
                    /\ RequestInv(page[r], chk[r]) => RequestInv(p, chk[r])
  BY DEF MovesTo
<1>2. p \in Handler
  BY <1>1 DEF Handler
<1>3. page' = [page EXCEPT ![r] = p]
  BY <1>1 DEF Respond
<1>4. RequestInv(page[r], chk[r]) => RequestInv(p, chk[r])
  BY <1>1 DEF RequestInv, Handler, Respond
<1> QED BY <1>2, <1>3, <1>4

LEMMA AskLimiter_Moves ==
    ASSUME PageInv, NEW r \in Request, AskLimiter(r)
    PROVE  MovesTo(r)
<1>1. page \in [Request -> Handler] /\ page[r] \in Handler
  BY DEF PageInv
<1> SUFFICES ASSUME NEW p, p = [page[r] EXCEPT !.pc = "limiter"]
             PROVE  /\ p \in Handler
                    /\ page' = [page EXCEPT ![r] = p]
                    /\ RequestInv(page[r], chk[r]) => RequestInv(p, chk[r])
  BY DEF MovesTo
<1>2. p \in Handler
  BY <1>1 DEF Handler
<1>3. page' = [page EXCEPT ![r] = p]
  BY <1>1 DEF AskLimiter
<1>4. RequestInv(page[r], chk[r]) => RequestInv(p, chk[r])
  BY <1>1 DEF RequestInv, Handler, AskLimiter
<1> QED BY <1>2, <1>3, <1>4

LEMMA CallProvider_Moves ==
    ASSUME PageInv, NEW r \in Request, CallProvider(r)
    PROVE  MovesTo(r)
<1>1. page \in [Request -> Handler] /\ page[r] \in Handler
  BY DEF PageInv
<1> SUFFICES ASSUME NEW p, p = [page[r] EXCEPT !.pc = "call", !.provider = "working",
                                            !.deadline = TRUE]
             PROVE  /\ p \in Handler
                    /\ page' = [page EXCEPT ![r] = p]
                    /\ RequestInv(page[r], chk[r]) => RequestInv(p, chk[r])
  BY DEF MovesTo
<1>2. p \in Handler
  BY <1>1 DEF Handler
<1>3. page' = [page EXCEPT ![r] = p]
  BY <1>1 DEF CallProvider
<1>4. RequestInv(page[r], chk[r]) => RequestInv(p, chk[r])
  BY <1>1 DEF RequestInv, Handler, CallProvider
<1> QED BY <1>2, <1>3, <1>4

LEMMA SendNothing_Moves ==
    ASSUME PageInv, NEW r \in Request, NEW status \in Status, status \notin {429, 503},
           SendNothing(r, status), page[r].pc = "limiter"
    PROVE  MovesTo(r)
<1>1. page \in [Request -> Handler] /\ page[r] \in Handler
  BY DEF PageInv
<1> SUFFICES ASSUME NEW p, p = [page[r] EXCEPT !.pc = "done", !.status = status,
                                            !.aborted = TRUE]
             PROVE  /\ p \in Handler
                    /\ page' = [page EXCEPT ![r] = p]
                    /\ RequestInv(page[r], chk[r]) => RequestInv(p, chk[r])
  BY DEF MovesTo
<1>2. p \in Handler
  BY <1>1 DEF Handler
<1>3. page' = [page EXCEPT ![r] = p]
  BY <1>1 DEF SendNothing
<1>4. RequestInv(page[r], chk[r]) => RequestInv(p, chk[r])
  BY <1>1 DEF RequestInv, Handler, SendNothing
<1> QED BY <1>2, <1>3, <1>4

LEMMA EndCall_Moves ==
    ASSUME PageInv, NEW r \in Request, NEW status \in Status, status \notin {429, 503},
           EndCall(r, status), page[r].pc \in {"call", "read"}
    PROVE  MovesTo(r)
<1>1. page \in [Request -> Handler] /\ page[r] \in Handler
  BY DEF PageInv
<1> SUFFICES ASSUME NEW p, p = [page[r] EXCEPT !.pc = "done", !.status = status,
                                            !.deadline = FALSE, !.provider = "ended"]
             PROVE  /\ p \in Handler
                    /\ page' = [page EXCEPT ![r] = p]
                    /\ RequestInv(page[r], chk[r]) => RequestInv(p, chk[r])
  BY DEF MovesTo
<1>2. p \in Handler
  BY <1>1 DEF Handler
<1>3. page' = [page EXCEPT ![r] = p]
  BY <1>1 DEF EndCall
<1>4. RequestInv(page[r], chk[r]) => RequestInv(p, chk[r])
  BY <1>1 DEF RequestInv, Handler, EndCall
<1> QED BY <1>2, <1>3, <1>4

LEMMA Reads_Moves ==
    ASSUME PageInv, NEW r \in Request, page[r].pc = "call",
           page' = [page EXCEPT ![r] = [@ EXCEPT !.pc = "read"]]
    PROVE  MovesTo(r)
<1>1. page \in [Request -> Handler] /\ page[r] \in Handler
  BY DEF PageInv
<1> SUFFICES ASSUME NEW p, p = [page[r] EXCEPT !.pc = "read"]
             PROVE  /\ p \in Handler
                    /\ page' = [page EXCEPT ![r] = p]
                    /\ RequestInv(page[r], chk[r]) => RequestInv(p, chk[r])
  BY DEF MovesTo
<1>2. p \in Handler
  BY <1>1 DEF Handler
<1>3. page' = [page EXCEPT ![r] = p]
  BY <1>1 DEF Handler
<1>4. RequestInv(page[r], chk[r]) => RequestInv(p, chk[r])
  BY <1>1 DEF RequestInv, Handler, Handler
<1> QED BY <1>2, <1>3, <1>4

\* How a deadline, or the client's leaving under one, ends a handler.
LEMMA Abort_Moves ==
    ASSUME PageInv, NEW r \in Request, page[r].deadline, NEW status \in Status, status \notin {429, 503},
           NEW gone \in BOOLEAN, Abort(r, status, gone)
    PROVE  MovesTo(r)
<1>1. page \in [Request -> Handler] /\ page[r] \in Handler
  BY DEF PageInv
<1> SUFFICES ASSUME NEW p, p = [page[r] EXCEPT !.gone = gone, !.aborted = TRUE,
                                            !.deadline = FALSE, !.pc = "done",
                                            !.status = status]
             PROVE  /\ p \in Handler
                    /\ page' = [page EXCEPT ![r] = p]
                    /\ RequestInv(page[r], chk[r]) => RequestInv(p, chk[r])
  BY DEF MovesTo
<1>2. p \in Handler
  BY <1>1 DEF Handler
<1>3. page' = [page EXCEPT ![r] = p]
  BY <1>1 DEF Abort
<1>4. RequestInv(page[r], chk[r]) => RequestInv(p, chk[r])
  BY <1>1 DEF RequestInv, Handler, Abort
<1> QED BY <1>2, <1>3, <1>4

LEMMA Leaves_Moves ==
    ASSUME PageInv, NEW r \in Request, page' = [page EXCEPT ![r] = [@ EXCEPT !.gone = TRUE]]
    PROVE  MovesTo(r)
<1>1. page \in [Request -> Handler] /\ page[r] \in Handler
  BY DEF PageInv
<1> SUFFICES ASSUME NEW p, p = [page[r] EXCEPT !.gone = TRUE]
             PROVE  /\ p \in Handler
                    /\ page' = [page EXCEPT ![r] = p]
                    /\ RequestInv(page[r], chk[r]) => RequestInv(p, chk[r])
  BY DEF MovesTo
<1>2. p \in Handler
  BY <1>1 DEF Handler
<1>3. page' = [page EXCEPT ![r] = p]
  BY <1>1 DEF Handler
<1>4. RequestInv(page[r], chk[r]) => RequestInv(p, chk[r])
  BY <1>1 DEF RequestInv, Handler, Handler
<1> QED BY <1>2, <1>3, <1>4

LEMMA HandlerStep_PageInv ==
    ASSUME PageInv, TypeOK, NEW r \in Request,
           \/ Reject(r) \/ AskLimiter(r) \/ LimiterFails(r) \/ LimiterRefuses(r)
           \/ CallProvider(r) \/ AdmittedTooLate(r)
           \/ ProviderResponds(r) \/ ProviderAnswers(r)
           \/ DeadlineExpires(r) \/ Disconnect(r)
    PROVE  PageInv'
<1>1. [Next]_vars
  BY ChatStepIsLimiterStep DEF ChatNext
<1> SUFFICES MovesTo(r)
  BY <1>1, Handler_PageInv DEF MovesTo
<1>2. {200, 400, 403, 405, 413, 415, 429, 499, 500, 502, 503, 504} \subseteq Status
  BY DEF Status
<1>3. CASE Reject(r) \/ LimiterFails(r) \/ LimiterRefuses(r)
  BY <1>2, <1>3, Respond_Moves DEF Reject, LimiterFails, LimiterRefuses
<1>4. CASE AskLimiter(r)
  BY <1>4, AskLimiter_Moves
<1>5. CASE CallProvider(r)
  BY <1>5, CallProvider_Moves
<1>6. CASE AdmittedTooLate(r)
  BY <1>2, <1>6, SendNothing_Moves DEF AdmittedTooLate
<1>7. CASE ProviderResponds(r)
  BY <1>2, <1>7, Reads_Moves, EndCall_Moves DEF ProviderResponds
<1>8. CASE ProviderAnswers(r)
  BY <1>2, <1>8, EndCall_Moves DEF ProviderAnswers
<1>9. page[r].gone \in BOOLEAN
  BY DEF PageInv, Handler
<1>10. CASE DeadlineExpires(r)
  BY <1>2, <1>9, <1>10, Abort_Moves DEF DeadlineExpires
<1>11. CASE Disconnect(r)
  <2>1. CASE page[r].deadline
    <3>1. Abort(r, 499, TRUE)
      BY <1>11, <2>1 DEF Disconnect
    <3>2. 499 \in Status /\ 499 \notin {429, 503}
      BY <1>2
    <3>3. PICK gone \in BOOLEAN : Abort(r, 499, gone)
      BY <3>1, Zenon
    <3> QED BY <2>1, <3>2, <3>3, Abort_Moves
  <2>2. CASE ~page[r].deadline
    <3>1. page' = [page EXCEPT ![r] = [@ EXCEPT !.gone = TRUE]]
      BY <1>11, <2>2 DEF Disconnect
    <3> QED BY <3>1, Leaves_Moves
  <2> QED BY <2>1, <2>2
<1> QED BY <1>3, <1>4, <1>5, <1>6, <1>7, <1>8, <1>10, <1>11

LEMMA Next_PageInv == PageInv /\ TypeOK /\ [ChatNext]_chatVars => PageInv'
<1> SUFFICES ASSUME PageInv, TypeOK, [ChatNext]_chatVars PROVE PageInv'
  OBVIOUS
<1>1. CASE page' = page
  <2>1. [Next]_vars
    BY ChatStepIsLimiterStep
  <2>2. ASSUME NEW s \in Request PROVE RequestInv(page'[s], chk'[s])
    BY <1>1, <2>1, AnswersStay DEF PageInv, RequestInv
  <2> QED BY <1>1, <2>2 DEF PageInv
<1>2. CASE LimiterStep \/ UNCHANGED chatVars
  BY <1>1, <1>2 DEF LimiterStep, chatVars
<1> QED BY <1>2, HandlerStep_PageInv DEF ChatNext

\* The limiter under the chat function behaves as the limiter's specification
\* says, with a check sent by each request that asks.
THEOREM ChatImplementsLimiter == ChatSpec => Spec
<1>1. ChatInit => Init
  BY DEF ChatInit
<1> QED BY <1>1, ChatStepIsLimiterStep, PTL DEF ChatSpec, Spec

LEMMA PageInvariance == ChatSpec => []PageInv
BY Init_PageInv, Next_PageInv, ChatImplementsLimiter, LimiterTypeCorrect, PTL DEF ChatSpec

\* Every variable of the chat function and its limiter keeps its shape.
THEOREM ChatTypeCorrect == ChatSpec => []ChatTypeOK
<1>1. PageInv /\ TypeOK => ChatTypeOK
  BY DEF PageInv, ChatTypeOK, Handler
<1> QED BY <1>1, PageInvariance, ChatImplementsLimiter, LimiterTypeCorrect, PTL

\* "fails closed before funded work" (chat.js): no provider call without an
\* admission, whatever the timers, disconnects and evictions do in between.
THEOREM FundedWorkIsAdmitted == ChatSpec => []FundedIsAdmitted
<1>1. PageInv => FundedIsAdmitted
  BY DEF PageInv, RequestInv, FundedIsAdmitted
<1> QED BY <1>1, PageInvariance, PTL

\* An answered request leaves no provider call running unaborted.
THEOREM NoCallIsOrphaned == ChatSpec => []NoOrphanedCall
<1>1. PageInv => NoOrphanedCall
  BY DEF PageInv, RequestInv, NoOrphanedCall
<1> QED BY <1>1, PageInvariance, PTL

\* No call is made for a client that is known to have left.
THEOREM TheGoneAreNotFunded == ChatSpec => GoneIsNotFunded
<1>1. PageInv /\ [ChatNext]_chatVars =>
        [\A r \in Request :
           page[r].gone /\ page[r].provider = "none" => page'[r].provider = "none"]_chatVars
  <2> SUFFICES ASSUME PageInv, ChatNext, NEW r \in Request,
                      page[r].gone, page[r].provider = "none"
               PROVE  page'[r].provider = "none"
    OBVIOUS
  <2>1. page \in [Request -> Handler] /\ RequestInv(page[r], chk[r])
    BY DEF PageInv
  <2>2. CASE LimiterStep
    BY <2>2 DEF LimiterStep
  <2>3. ASSUME NEW s \in Request, NEW status, Respond(s, status)
        PROVE  page'[r].provider = "none"
    BY <2>1, <2>3 DEF Respond, Handler
  <2>4. ASSUME NEW s \in Request, NEW status, NEW gone, Abort(s, status, gone)
        PROVE  page'[r].provider = "none"
    BY <2>1, <2>4 DEF Abort, Handler
  <2>5. ASSUME NEW s \in Request,
               Reject(s) \/ LimiterFails(s) \/ LimiterRefuses(s) \/ DeadlineExpires(s)
        PROVE  page'[r].provider = "none"
    BY <2>3, <2>4, <2>5 DEF Reject, LimiterFails, LimiterRefuses, DeadlineExpires
  <2>6. ASSUME NEW s \in Request, AskLimiter(s) \/ Disconnect(s)
        PROVE  page'[r].provider = "none"
    BY <2>1, <2>4, <2>6 DEF AskLimiter, Disconnect, Handler
  <2>7. ASSUME NEW s \in Request, AdmittedTooLate(s) PROVE page'[r].provider = "none"
    BY <2>1, <2>7 DEF AdmittedTooLate, SendNothing, Handler
  <2>8. ASSUME NEW s \in Request, CallProvider(s) PROVE page'[r].provider = "none"
    BY <2>1, <2>8 DEF CallProvider, Handler
  <2>9. ASSUME NEW s \in Request, ProviderResponds(s) \/ ProviderAnswers(s)
        PROVE  page'[r].provider = "none"
    <3>1. s # r
      BY <2>1, <2>9 DEF ProviderResponds, ProviderAnswers, RequestInv
    <3> QED BY <2>1, <2>9, <3>1 DEF ProviderResponds, ProviderAnswers, EndCall
  <2> QED BY <2>2, <2>5, <2>6, <2>7, <2>8, <2>9 DEF ChatNext
<1> QED BY <1>1, PageInvariance, PTL DEF ChatSpec, GoneIsNotFunded

=============================================================================
