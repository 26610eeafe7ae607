------------------------- MODULE RateLimiterProofs -------------------------
(***************************************************************************)
(* The rate limiter keeps its cap for every number of callers, every cap   *)
(* and every interval, and implements its atomic promise.                  *)
(***************************************************************************)
EXTENDS RateLimiter, FiniteSetTheorems, TLAPS

LEMMA LimiterInit == Init => LimiterInv
  BY CallerAssumption, LimitAssumption
  DEF Init, LimiterInv, TypeOK, MutexInv, ClockInv, SlotInv, SpanInv, Steps

LEMMA TypeStep == LimiterInv /\ [Next]_vars => TypeOK'
  <1> SUFFICES ASSUME LimiterInv, [Next]_vars
               PROVE  TypeOK'
    OBVIOUS
  <1> USE LimitAssumption DEF LimiterInv, TypeOK, Steps
  <1>1. ASSUME NEW c \in Callers, Admit(c)
        PROVE  TypeOK'
    BY <1>1 DEF Admit, Step, Submission
  <1>2. ASSUME NEW c \in Callers, OpenWindow(c)
        PROVE  TypeOK'
    BY <1>2 DEF OpenWindow, Step
  <1>3. ASSUME NEW c \in Callers, Call(c) \/ Lock(c) \/ ReadClock(c) \/ Check(c) \/ Refuse(c)
        PROVE  TypeOK'
    BY <1>3 DEF Call, Lock, ReadClock, Check, Refuse, Step
  <1>4. CASE Tick \/ Restart
    BY <1>4 DEF Tick, Restart
  <1>5. CASE UNCHANGED vars
    BY <1>5 DEF vars
  <1>6. QED
    BY <1>1, <1>2, <1>3, <1>4, <1>5 DEF Next, Holding

\* Who is inside holds the mutex.
LEMMA MutexStep == LimiterInv /\ [Next]_vars => MutexInv'
  <1> SUFFICES ASSUME LimiterInv, [Next]_vars
               PROVE  MutexInv'
    OBVIOUS
  <1> USE CallerAssumption DEF LimiterInv, TypeOK, MutexInv, Steps
  <1>1. ASSUME NEW c \in Callers, Call(c) \/ Lock(c) \/ ReadClock(c) \/ OpenWindow(c)
        PROVE  MutexInv'
    BY <1>1 DEF Call, Lock, ReadClock, OpenWindow, Step
  <1>2. ASSUME NEW c \in Callers, Check(c) \/ Admit(c) \/ Refuse(c)
        PROVE  MutexInv'
    BY <1>2 DEF Check, Admit, Refuse, Step
  <1>3. CASE Tick \/ Restart \/ UNCHANGED vars
    BY <1>3 DEF Tick, Restart, vars
  <1>4. QED
    BY <1>1, <1>2, <1>3 DEF Next, Holding

\* What the caller inside has read stays true while it holds the mutex.
LEMMA ClockStep == LimiterInv /\ [Next]_vars => ClockInv'
  <1> SUFFICES ASSUME LimiterInv, [Next]_vars
               PROVE  ClockInv'
    OBVIOUS
  <1> USE CallerAssumption, LimitAssumption DEF LimiterInv, TypeOK, MutexInv, ClockInv, Steps
  <1>1. ASSUME NEW c \in Callers, Call(c) \/ Lock(c) \/ ReadClock(c)
        PROVE  ClockInv'
    BY <1>1 DEF Call, Lock, ReadClock, Step
  <1>2. ASSUME NEW c \in Callers, OpenWindow(c)
        PROVE  ClockInv'
    BY <1>2 DEF OpenWindow, Step, SlotInv
  <1>3. ASSUME NEW c \in Callers, Check(c) \/ Refuse(c)
        PROVE  ClockInv'
    BY <1>3 DEF Check, Refuse, Step
  <1>4. ASSUME NEW c \in Callers, Admit(c)
        PROVE  ClockInv'
    BY <1>4 DEF Admit, Step
  <1>5. CASE Tick \/ Restart \/ UNCHANGED vars
    BY <1>5 DEF Tick, Restart, vars
  <1>6. QED
    BY <1>1, <1>2, <1>3, <1>4, <1>5 DEF Next, Holding

\* Steps that admit nobody and open no window.
HistoryKept == UNCHANGED <<count, resetAt, window, admitted>>

\* The counter counts the slots taken.
LEMMA SlotStep == LimiterInv /\ [Next]_vars => SlotInv'
  <1> SUFFICES ASSUME LimiterInv, [Next]_vars
               PROVE  SlotInv'
    OBVIOUS
  <1> USE LimitAssumption DEF LimiterInv, TypeOK, SlotInv
  <1>1. CASE HistoryKept
    BY <1>1 DEF HistoryKept
  <1>2. CASE Restart
    BY <1>2 DEF Restart
  <1>3. ASSUME NEW c \in Callers, OpenWindow(c), at[c] > resetAt
        PROVE  SlotInv'
    <2>1. count' = 0 /\ window' = window + 1 /\ admitted' = admitted
      BY <1>3 DEF OpenWindow
    <2>2. \A a \in admitted' : a.window # window'
      BY <2>1 DEF Submission
    <2>3. QED
      BY <2>1, <2>2 DEF Submission
  <1>4. ASSUME NEW c \in Callers, Admit(c)
        PROVE  SlotInv'
    <2> DEFINE new == [window |-> window, slot |-> count + 1, at |-> at[c]]
    <2>1. /\ count' = count + 1 /\ admitted' = admitted \cup {new}
          /\ window' = window /\ resetAt' = resetAt
      BY <1>4 DEF Admit
    <2>2. count < Max /\ window > 0
      BY <1>4 DEF Admit, Step, ClockInv
    <2>3. \A a \in admitted : ~(a.window = window /\ a.slot = count + 1)
      BY <2>2
    <2>4. \A a \in admitted' : a.window <= window' /\ a.slot \in 1 .. Max
      BY <2>1, <2>2
    <2>5. \A n \in 1 .. Max :
            n <= count' <=> \E a \in admitted' : a.window = window' /\ a.slot = n
      <3> SUFFICES ASSUME NEW n \in 1 .. Max
                   PROVE  n <= count + 1 <=> \E a \in admitted' : a.window = window /\ a.slot = n
        BY <2>1
      <3>1. n <= count + 1 <=> n <= count \/ n = count + 1
        OBVIOUS
      <3>2. new.window = window /\ new.slot = count + 1
        OBVIOUS
      <3>3. (\E a \in admitted' : a.window = window /\ a.slot = n)
              <=> (\E a \in admitted : a.window = window /\ a.slot = n) \/ n = count + 1
        BY <2>1, <3>2
      <3>4. QED
        BY <3>1, <3>3
    <2>6. \A a, b \in admitted' : a.window = b.window /\ a.slot = b.slot => a = b
      BY <2>1, <2>3
    <2>7. QED
      BY <2>1, <2>2, <2>4, <2>5, <2>6
  <1>5. QED
    BY <1>1, <1>2, <1>3, <1>4
    DEF Next, Holding, Call, Lock, ReadClock, OpenWindow, Check, Refuse, Tick, HistoryKept, vars

\* Windows two apart lie more than an interval apart.
LEMMA SpanStep == LimiterInv /\ [Next]_vars => SpanInv'
  <1> SUFFICES ASSUME LimiterInv, [Next]_vars
               PROVE  SpanInv'
    OBVIOUS
  <1> USE LimitAssumption DEF LimiterInv, TypeOK, SpanInv
  <1>1. CASE HistoryKept
    BY <1>1 DEF HistoryKept
  <1>2. CASE Restart
    BY <1>2 DEF Restart
  <1>3. ASSUME NEW c \in Callers, OpenWindow(c), at[c] > resetAt
        PROVE  SpanInv'
    <2>1. resetAt' = at[c] + Interval /\ window' = window + 1 /\ admitted' = admitted
      BY <1>3 DEF OpenWindow
    <2>2. \A a \in admitted : /\ a.window \in Nat /\ a.at \in Nat
                              /\ a.window <= window /\ a.at <= resetAt
      BY DEF Submission, SlotInv
    <2>3. QED
      BY <1>3, <2>1, <2>2
  <1>4. ASSUME NEW c \in Callers, Admit(c)
        PROVE  SpanInv'
    <2> DEFINE new == [window |-> window, slot |-> count + 1, at |-> at[c]]
    <2>1. admitted' = admitted \cup {new} /\ window' = window /\ resetAt' = resetAt
      BY <1>4 DEF Admit
    <2>2. at[c] \in Nat /\ at[c] <= resetAt /\ resetAt <= at[c] + Interval
      BY <1>4 DEF Admit, Step, ClockInv
    <2>3. \A a \in admitted : /\ a.window \in Nat /\ a.at \in Nat
                              /\ a.window <= window
      BY DEF Submission, SlotInv
    <2>4. \A a \in admitted : a.window + 1 < window => a.at + Interval < at[c]
      BY <2>2, <2>3
    <2>5. QED
      BY <2>1, <2>2, <2>3, <2>4
  <1>5. QED
    BY <1>1, <1>2, <1>3, <1>4
    DEF Next, Holding, Call, Lock, ReadClock, OpenWindow, Check, Refuse, Tick, HistoryKept, vars

LEMMA LimiterStep == LimiterInv /\ [Next]_vars => LimiterInv'
  BY TypeStep, MutexStep, ClockStep, SlotStep, SpanStep DEF LimiterInv

\* The counter, the mutex and the windows stay as LimiterInv says.
THEOREM LimiterInvariant == Spec => []LimiterInv
  BY LimiterInit, LimiterStep, PTL DEF Spec
-----------------------------------------------------------------------------
(***************************************************************************)
(* An interval meets two windows, and a window admits Max.                 *)
(***************************************************************************)

\* The windows that the submissions of one interval fall in are neighbours.
LEMMA Neighbours ==
  ASSUME LimiterInv, NEW t \in Nat
  PROVE  \E w \in Nat : \A a \in Span(t) : a.window \in w .. w + 1
  <1>1. \A a \in Span(t) : /\ a \in admitted /\ a.window \in Nat /\ a.at \in Nat
                              /\ t <= a.at /\ a.at <= t + Interval
    BY DEF Span, LimiterInv, TypeOK, Submission
  <1>2. \A a, b \in Span(t) : b.window <= a.window + 1
    BY <1>1, LimitAssumption DEF LimiterInv, SpanInv
  <1>3. CASE Span(t) = {}
    BY <1>3
  <1>4. ASSUME NEW a \in Span(t), NEW b \in Span(t), b.window + 1 = a.window
        PROVE  \E w \in Nat : \A c \in Span(t) : c.window \in w .. w + 1
    <2>1. \A c \in Span(t) : c.window \in b.window .. b.window + 1
      BY <1>1, <1>2, <1>4
    <2>2. QED
      BY <1>1, <2>1
  <1>5. ASSUME NEW a \in Span(t), \A b \in Span(t) : b.window + 1 # a.window
        PROVE  \E w \in Nat : \A c \in Span(t) : c.window \in w .. w + 1
    <2>1. \A c \in Span(t) : c.window \in a.window .. a.window + 1
      BY <1>1, <1>2, <1>5
    <2>2. QED
      BY <1>1, <2>1
  <1>6. QED
    BY <1>3, <1>4, <1>5

LEMMA SpanBounded ==
  ASSUME LimiterInv, NEW t \in Nat
  PROVE  Cardinality(Span(t)) <= 2 * Max
  <1>1. PICK w \in Nat : \A a \in Span(t) : a.window \in w .. w + 1
    BY Neighbours
  <1> DEFINE slots == (w .. w + 1) \X (1 .. Max)
             f == [a \in Span(t) |-> <<a.window, a.slot>>]
  <1>2. IsFiniteSet(w .. w + 1) /\ Cardinality(w .. w + 1) = 2
    BY FS_Interval
  <1>3. IsFiniteSet(1 .. Max) /\ Cardinality(1 .. Max) = Max
    BY FS_Interval, LimitAssumption
  <1>4. IsFiniteSet(slots) /\ Cardinality(slots) = 2 * Max
    <2>1. /\ IsFiniteSet(slots)
          /\ Cardinality(slots) = Cardinality(w .. w + 1) * Cardinality(1 .. Max)
      BY <1>2, <1>3, FS_Product
    <2>2. QED
      BY <1>2, <1>3, <2>1, LimitAssumption
  <1>5. \A a \in Span(t) : a \in admitted /\ a.slot \in 1 .. Max
    BY DEF Span, LimiterInv, SlotInv
  <1>6. f \in Injection(Span(t), slots)
    <2>1. f \in [Span(t) -> slots]
      BY <1>1, <1>5
    <2>2. \A a, b \in Span(t) : f[a] = f[b] => a = b
      BY <1>5 DEF LimiterInv, SlotInv
    <2>3. QED
      BY <2>1, <2>2 DEF Injection, IsInjective
  <1>7. QED
    BY <1>4, <1>6, FS_Injection

\* No interval sees more than twice the cap, however it lies.
THEOREM TwiceTheCap == Spec => []AtMostTwice
  <1>1. LimiterInv => AtMostTwice
    BY SpanBounded DEF AtMostTwice, LimiterInv, TypeOK, Submission
  <1>2. QED
    BY <1>1, LimiterInvariant, PTL

LEMMA AdmittedFinite ==
  ASSUME LimiterInv
  PROVE  IsFiniteSet(admitted)
  <1> DEFINE slots == (0 .. window) \X (1 .. Max)
             f == [a \in admitted |-> <<a.window, a.slot>>]
  <1>1. IsFiniteSet(0 .. window) /\ IsFiniteSet(1 .. Max)
    BY FS_Interval, LimitAssumption DEF LimiterInv, TypeOK
  <1>2. IsFiniteSet(slots)
    BY <1>1, FS_Product
  <1>3. \A a \in admitted : a.window \in 0 .. window /\ a.slot \in 1 .. Max
    BY DEF LimiterInv, TypeOK, SlotInv, Submission
  <1>4. \A a, b \in admitted : f[a] = f[b] => a = b
    BY DEF LimiterInv, SlotInv
  <1>5. f \in Injection(admitted, slots)
    BY <1>3, <1>4 DEF Injection, IsInjective
  <1>6. QED
    BY <1>2, <1>5, FS_Injection

\* Who is refused comes when the window's Max slots are taken, and the window
\* opened no longer than an Interval ago.
THEOREM RefusedWhenFull == Spec => []RefusedOnlyWhenFull
  <1>1. ASSUME LimiterInv, NEW c \in Callers, pc[c] = "refused"
        PROVE  Cardinality({a \in admitted : at[c] <= a.at + Interval}) >= Max
    <2> DEFINE recent == {a \in admitted : at[c] <= a.at + Interval}
               f == [n \in 1 .. Max |-> CHOOSE a \in recent : a.slot = n]
    <2>1. Max \in Nat /\ count >= Max /\ at[c] \in Nat /\ at[c] <= resetAt /\ resetAt \in Nat
      BY <1>1, LimitAssumption DEF LimiterInv, TypeOK, ClockInv
    <2>2. \A a \in admitted : a.window = window => a \in recent
      BY <1>1, <2>1, LimitAssumption DEF LimiterInv, TypeOK, SpanInv, Submission
    <2>3. \A n \in 1 .. Max : \E a \in recent : a.slot = n
      BY <1>1, <2>1, <2>2 DEF LimiterInv, TypeOK, SlotInv
    <2>4. \A n \in 1 .. Max : f[n] \in recent /\ f[n].slot = n
      BY <2>3
    <2>5. f \in Injection(1 .. Max, recent)
      BY <2>4 DEF Injection, IsInjective
    <2>6. IsFiniteSet(recent)
      BY <1>1, AdmittedFinite, FS_Subset
    <2>7. Cardinality(recent) \in Nat /\ Cardinality(1 .. Max) <= Cardinality(recent)
      BY <2>5, <2>6, FS_Injection, FS_CardinalityType
    <2>8. Cardinality(1 .. Max) = Max
      BY <2>1, FS_Interval
    <2>9. QED
      BY <2>1, <2>7, <2>8
  <1>2. LimiterInv => RefusedOnlyWhenFull
    BY <1>1 DEF RefusedOnlyWhenFull
  <1>3. QED
    BY <1>2, LimiterInvariant, PTL
-----------------------------------------------------------------------------
(***************************************************************************)
(* Allow, with its mutex and its steps, acts as one atomic decision.       *)
(***************************************************************************)
LEMMA CapStep == LimiterInv /\ [Next]_vars => [Cap!Next]_(Cap!vars)
  <1> SUFFICES ASSUME LimiterInv, [Next]_vars
               PROVE  Cap!Next \/ UNCHANGED Cap!vars
    BY DEF Cap!vars
  <1> USE DEF Cap!vars, Cap!Next
  <1>1. ASSUME NEW c \in Callers, Call(c) \/ Lock(c) \/ ReadClock(c) \/ Check(c) \/ Refuse(c)
        PROVE  UNCHANGED Cap!vars
    BY <1>1 DEF Call, Lock, ReadClock, Check, Refuse
  <1>2. ASSUME NEW c \in Callers, OpenWindow(c)
        PROVE  Cap!Next \/ UNCHANGED Cap!vars
    <2>1. at[c] \in 1 .. now
      BY <1>2 DEF OpenWindow, Step, LimiterInv, ClockInv
    <2>2. CASE at[c] > resetAt
      <3>1. Cap!Open(at[c])
        BY <1>2, <2>2 DEF OpenWindow, Cap!Open
      <3>2. QED
        BY <2>1, <3>1
    <2>3. CASE ~(at[c] > resetAt)
      BY <1>2, <2>3 DEF OpenWindow
    <2>4. QED
      BY <2>2, <2>3
  <1>3. ASSUME NEW c \in Callers, Admit(c)
        PROVE  Cap!Next
    <2>1. /\ at[c] \in 1 .. now /\ window > 0 /\ count < Max
          /\ at[c] <= resetAt /\ resetAt <= at[c] + Interval
      BY <1>3 DEF Admit, Step, LimiterInv, ClockInv
    <2>2. count + 1 \in 1 .. Max /\ ~(count + 1 <= count)
      BY <2>1, LimitAssumption DEF LimiterInv, TypeOK
    <2>3. ~Cap!Taken(count + 1)
      BY <2>2 DEF Cap!Taken, LimiterInv, SlotInv
    <2>4. Cap!Admit(at[c], count + 1)
      BY <1>3, <2>1, <2>3 DEF Admit, Cap!Admit
    <2>5. QED
      BY <2>1, <2>2, <2>4
  <1>4. CASE Tick
    BY <1>4 DEF Tick, Cap!Tick
  <1>5. CASE Restart
    BY <1>5 DEF Restart, Cap!Restart
  <1>6. CASE UNCHANGED vars
    BY <1>6 DEF vars
  <1>7. QED
    BY <1>1, <1>2, <1>3, <1>4, <1>5, <1>6 DEF Next, Holding

\* Every behaviour of the callers and the mutex is one of the atomic promise.
THEOREM LimiterImplementsCap == Spec => ImplementsCap
  <1>1. Init => Cap!Init
    BY DEF Init, Cap!Init
  <1>2. QED
    BY <1>1, CapStep, LimiterInvariant, PTL DEF Spec, ImplementsCap, Cap!Spec
=============================================================================
