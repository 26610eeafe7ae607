---------------------------- MODULE RateLimiter ----------------------------
(***************************************************************************)
(* RateLimiter.Allow as its callers run it: ssh sessions, each a goroutine *)
(* of its own, that read the clock and the counter and write the counter   *)
(* under one mutex.  All of its state is in memory.                        *)
(*                                                                         *)
(* Time counts ticks; time.Now carries a monotonic reading, so it never    *)
(* goes back.  The zero value of resetAt lies before every reading.        *)
(***************************************************************************)
EXTENDS Naturals, FiniteSets

CONSTANTS
  Callers,    \* the goroutines that call Allow
  Nobody,     \* holder of the mutex when it is free
  Max,        \* rate_limit_count
  Interval,   \* rate_limit_interval
  MaxTime     \* bound: ticks of the clock

ASSUME CallerAssumption == Nobody \notin Callers
ASSUME LimitAssumption == Max \in Nat /\ Interval \in Nat \ {0} /\ MaxTime \in Nat

VARIABLES
  now,        \* the clock
  mu,         \* who holds the mutex
  pc,         \* per caller: its next step
  at,         \* per caller: the time it read
  count,      \* submissions admitted in the window
  resetAt,    \* when the window ends
  window,     \* history: windows opened since the process started
  admitted    \* history: the submissions admitted since then

vars == <<now, mu, pc, at, count, resetAt, window, admitted>>

Steps == {"out", "waiting", "locked", "window", "check", "granted", "refused"}

Submission == [window : Nat, slot : Nat, at : Nat]

TypeOK ==
  /\ now \in Nat \ {0}
  /\ mu \in Callers \cup {Nobody}
  /\ pc \in [Callers -> Steps]
  /\ at \in [Callers -> Nat]
  /\ count \in Nat /\ resetAt \in Nat /\ window \in Nat
  /\ admitted \subseteq Submission

\* NewRateLimiter.
Init ==
  /\ now = 1
  /\ mu = Nobody
  /\ pc = [c \in Callers |-> "out"]
  /\ at = [c \in Callers |-> 0]
  /\ count = 0 /\ resetAt = 0
  /\ window = 0 /\ admitted = {}

Step(c, from, to) == pc[c] = from /\ pc' = [pc EXCEPT ![c] = to]

\* A command that submits something calls Allow first.
Call(c) ==
  /\ Step(c, "out", "waiting")
  /\ UNCHANGED <<now, mu, at, count, resetAt, window, admitted>>

\* (fault: no mutex)
LockAnyway(c) ==
  /\ Step(c, "waiting", "locked")
  /\ mu' = c
  /\ UNCHANGED <<now, at, count, resetAt, window, admitted>>

Lock(c) ==
  /\ mu = Nobody
  /\ Step(c, "waiting", "locked")
  /\ mu' = c
  /\ UNCHANGED <<now, at, count, resetAt, window, admitted>>

ReadClock(c) ==
  /\ Step(c, "locked", "window")
  /\ at' = [at EXCEPT ![c] = now]
  /\ UNCHANGED <<now, mu, count, resetAt, window, admitted>>

\* (fault: the interval is not added)
OpenWindowShort(c) ==
  /\ Step(c, "window", "check")
  /\ IF at[c] > resetAt
     THEN count' = 0 /\ resetAt' = at[c] /\ window' = window + 1
     ELSE UNCHANGED <<count, resetAt, window>>
  /\ UNCHANGED <<now, mu, at, admitted>>

\* (fault: count is not reset)
OpenWindowFull(c) ==
  /\ Step(c, "window", "check")
  /\ IF at[c] > resetAt
     THEN resetAt' = at[c] + Interval /\ window' = window + 1 /\ UNCHANGED count
     ELSE UNCHANGED <<count, resetAt, window>>
  /\ UNCHANGED <<now, mu, at, admitted>>

\* now.After(resetAt) opens a new window.
OpenWindow(c) ==
  /\ Step(c, "window", "check")
  /\ IF at[c] > resetAt
     THEN count' = 0 /\ resetAt' = at[c] + Interval /\ window' = window + 1
     ELSE UNCHANGED <<count, resetAt, window>>
  /\ UNCHANGED <<now, mu, at, admitted>>

Check(c) ==
  /\ Step(c, "check", IF count >= Max THEN "refused" ELSE "granted")
  /\ UNCHANGED <<now, mu, at, count, resetAt, window, admitted>>

\* count++, return true and the deferred Unlock.
Admit(c) ==
  /\ Step(c, "granted", "out")
  /\ count' = count + 1
  /\ admitted' = admitted \cup {[window |-> window, slot |-> count + 1, at |-> at[c]]}
  /\ mu' = Nobody
  /\ UNCHANGED <<now, at, resetAt, window>>

\* (fault: return without Unlock)
RefuseLocked(c) ==
  /\ Step(c, "refused", "out")
  /\ UNCHANGED <<now, mu, at, count, resetAt, window, admitted>>

\* return false and the deferred Unlock.
Refuse(c) ==
  /\ Step(c, "refused", "out")
  /\ mu' = Nobody
  /\ UNCHANGED <<now, at, count, resetAt, window, admitted>>

\* The process stops and starts again, with a new limiter.
Restart ==
  /\ mu' = Nobody
  /\ pc' = [c \in Callers |-> "out"]
  /\ at' = [c \in Callers |-> 0]
  /\ count' = 0 /\ resetAt' = 0 /\ window' = 0 /\ admitted' = {}
  /\ UNCHANGED now

Tick ==
  /\ now < MaxTime
  /\ now' = now + 1
  /\ UNCHANGED <<mu, pc, at, count, resetAt, window, admitted>>

Holding(c) ==
  ReadClock(c) \/ OpenWindow(c) \/ Check(c) \/ Admit(c) \/ Refuse(c)

Next == Tick \/ Restart \/ \E c \in Callers : Call(c) \/ Lock(c) \/ Holding(c)

Spec == Init /\ [][Next]_vars

\* A goroutine that runs gets on; sync.Mutex hands the lock to a waiter that
\* has starved for a millisecond, so a waiter who can get it again and again
\* gets it.
FairSpec == Spec /\ \A c \in Callers : WF_vars(Holding(c)) /\ SF_vars(Lock(c))
-----------------------------------------------------------------------------
\* The limiter's atomic promise, of which mutex and counter are an
\* implementation: count is the number of slots taken.
Cap == INSTANCE SubmissionCap WITH closes <- resetAt

\* Whatever the callers' steps, each call as a whole acts as one atomic Allow.
ImplementsCap == Cap!Spec

\* The submissions admitted in the Interval that starts at time t.
Span(t) == {a \in admitted : t <= a.at /\ a.at <= t + Interval}

\* ratelimit.go speaks of "a single global cap on submissions per interval".
\* Its windows are fixed, and the end of one and the start of the next lie in
\* one interval: wherever an interval lies, Allow admits at most twice the cap
\* in it.
AtMostTwice == \A a \in admitted : Cardinality(Span(a.at)) <= 2 * Max

\* A submission is refused only if Max were admitted in the Interval before.
RefusedOnlyWhenFull ==
  \A c \in Callers : pc[c] = "refused" =>
    Cardinality({a \in admitted : at[c] <= a.at + Interval}) >= Max

\* Every call of Allow returns, however many sessions call it.
Served == \A c \in Callers : pc[c] = "waiting" ~> pc[c] = "out"
-----------------------------------------------------------------------------
(***************************************************************************)
(* The inductive invariant.                                                *)
(***************************************************************************)

\* The caller inside holds the mutex.
MutexInv == \A c \in Callers : pc[c] \notin {"out", "waiting"} <=> mu = c

\* The caller inside has read a time that is not before the window's start,
\* and, once past OpenWindow, lies in the window.
ClockInv ==
  /\ resetAt <= now + Interval
  /\ \A c \in Callers :
       /\ pc[c] \in {"window", "check", "granted", "refused"} =>
            at[c] \in 1 .. now /\ resetAt <= at[c] + Interval
       /\ pc[c] \in {"check", "granted", "refused"} => window > 0 /\ at[c] <= resetAt
       /\ pc[c] = "granted" => count < Max
       /\ pc[c] = "refused" => count >= Max

\* The counter counts the slots of the window that are taken.
SlotInv ==
  /\ count <= Max
  /\ \A a \in admitted : a.window <= window /\ a.slot \in 1 .. Max
  /\ \A n \in 1 .. Max :
       n <= count <=> \E a \in admitted : a.window = window /\ a.slot = n
  /\ \A a, b \in admitted : a.window = b.window /\ a.slot = b.slot => a = b
  /\ window = 0 => count = 0 /\ resetAt = 0

\* Two windows apart is more than an Interval apart.
SpanInv ==
  /\ \A a \in admitted :
       /\ a.at <= resetAt
       /\ a.window = window => resetAt <= a.at + Interval
       /\ a.window < window => a.at + Interval < resetAt
       /\ a.window + 1 < window => a.at + Interval + Interval < resetAt
  /\ \A a, b \in admitted : a.window + 1 < b.window => a.at + Interval < b.at

LimiterInv == TypeOK /\ MutexInv /\ ClockInv /\ SlotInv /\ SpanInv
=============================================================================
