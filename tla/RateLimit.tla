------------------------------ MODULE RateLimit ------------------------------
(***************************************************************************)
(* AuthService.consumeRateLimit for one identity: a counter in Redis that  *)
(* is incremented by each attempt and gets its expiry in a second call, by *)
(* the attempt that created it.  Attempts run at the same time, and the    *)
(* process may die between the two calls.                                  *)
(***************************************************************************)
EXTENDS Naturals, FiniteSets

CONSTANTS
  Attempts,     \* attempts under way at the same time
  MAX,          \* LOGIN_RATE_LIMIT_MAX
  MaxCount      \* bound: attempts in one window

ASSUME RateLimitAssumption ==
  /\ IsFiniteSet(Attempts)
  /\ MAX \in Nat
  /\ MaxCount \in Nat

VARIABLES
  count,        \* the counter; 0 when Redis has no such key
  expires,      \* whether the key has an expiry
  admitted,     \* history: attempts let through since the key was created
  orphaned,     \* history: who had to set the expiry of the key died before
  attempt       \* the count each attempt was given, 0 when idle, and its phase

rateVars == <<count, expires, admitted, orphaned, attempt>>

Idle == [ phase |-> "idle", count |-> 0 ]

RateTypeOK ==
  /\ count \in Nat
  /\ expires \in BOOLEAN
  /\ admitted \in Nat
  /\ orphaned \in BOOLEAN
  /\ attempt \in [ Attempts -> [ phase : { "idle", "counted", "timed" }, count : Nat ] ]

RateInit ==
  /\ count = 0
  /\ expires = FALSE
  /\ admitted = 0
  /\ orphaned = FALSE
  /\ attempt = [ r \in Attempts |-> Idle ]

\* INCR
Incr(r) ==
  /\ attempt[r] = Idle
  /\ count < MaxCount
  /\ count' = count + 1
  /\ attempt' = [ attempt EXCEPT ![r] = [ phase |-> "counted", count |-> count + 1 ] ]
  /\ UNCHANGED <<expires, admitted, orphaned>>

\* Faulty variant: only an attempt over the limit starts the window.
ExpireWhenBlocked(r) ==
  /\ attempt[r].phase = "counted"
  /\ attempt[r].count = MAX + 1
  /\ expires' = (count > 0)
  /\ attempt' = [ attempt EXCEPT ![r].phase = "timed" ]
  /\ UNCHANGED <<count, admitted, orphaned>>

\* PEXPIRE by the attempt that was counted first; without effect on a missing key.
Pexpire(r) ==
  /\ attempt[r].phase = "counted"
  /\ attempt[r].count = 1
  /\ expires' = (count > 0)
  /\ attempt' = [ attempt EXCEPT ![r].phase = "timed" ]
  /\ UNCHANGED <<count, admitted, orphaned>>

\* Faulty variant: compares with the limit before counting this attempt.
DecideTooLate(r) ==
  /\ attempt[r].phase = "timed" \/ (attempt[r].phase = "counted" /\ attempt[r].count # 1)
  /\ admitted' = IF attempt[r].count <= MAX + 1 THEN admitted + 1 ELSE admitted
  /\ attempt' = [ attempt EXCEPT ![r] = Idle ]
  /\ UNCHANGED <<count, expires, orphaned>>

\* The attempt goes on, or is refused with 429.
Decide(r) ==
  /\ attempt[r].phase = "timed" \/ (attempt[r].phase = "counted" /\ attempt[r].count # 1)
  /\ admitted' = IF attempt[r].count <= MAX THEN admitted + 1 ELSE admitted
  /\ attempt' = [ attempt EXCEPT ![r] = Idle ]
  /\ UNCHANGED <<count, expires, orphaned>>

\* The window ends: Redis drops the key.
ExpireKey ==
  /\ expires
  /\ count' = 0
  /\ expires' = FALSE
  /\ admitted' = 0
  /\ orphaned' = FALSE
  /\ UNCHANGED attempt

\* The process dies, or the call fails.
Crash(r) ==
  /\ attempt[r] # Idle
  /\ orphaned' = (orphaned \/ (attempt[r].phase = "counted" /\ attempt[r].count = 1))
  /\ attempt' = [ attempt EXCEPT ![r] = Idle ]
  /\ UNCHANGED <<count, expires, admitted>>

Proceed(r) == Pexpire(r) \/ Decide(r)

RateNext ==
  \/ \E r \in Attempts : Incr(r) \/ Proceed(r) \/ Crash(r)
  \/ ExpireKey

RateSpec == RateInit /\ [][RateNext]_rateVars

\* Calls return and Redis expires keys; nobody has to try again.
RateFairSpec == RateSpec /\ WF_rateVars(ExpireKey) /\ \A r \in Attempts : WF_rateVars(Proceed(r))

-----------------------------------------------------------------------------
(* Properties *)

\* A window lets through at most MAX attempts and those that were under way when it
\* began: attempts counted in an earlier window, never more than run at the same time.
AttemptsBounded == admitted <= MAX + Cardinality(Attempts)

\* The window of an identity ends, so that who is blocked now can try again, unless the
\* attempt that created the counter dies between the increment and the expiry: then
\* nothing in the code ever gives the counter an expiry.
WindowEnds == (count > 0) ~> (count = 0 \/ orphaned)
=============================================================================
