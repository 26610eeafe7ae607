--------------------------- MODULE SubmissionCap ---------------------------
(***************************************************************************)
(* What the rate limiter promises, without its mutex, its callers or its   *)
(* counter: time is cut into windows, each at least Interval after the one *)
(* before, and a window has Max slots, each of which admits one            *)
(* submission.  A window opens with the first submission that comes after  *)
(* the last one closed.                                                    *)
(***************************************************************************)
EXTENDS Naturals

CONSTANTS
  Max,        \* submissions per window
  Interval    \* length of a window, in ticks

VARIABLES
  now,        \* the clock; its first reading is 1
  closes,     \* the last time that belongs to the window
  window,     \* windows opened since the process started
  admitted    \* the submissions admitted since the process started

vars == <<now, closes, window, admitted>>

Submission == [window : Nat, slot : Nat, at : Nat]

Init == now = 1 /\ closes = 0 /\ window = 0 /\ admitted = {}

Tick ==
  /\ now' = now + 1
  /\ UNCHANGED <<closes, window, admitted>>

\* A submission of time `at` is the first after the window closed.
Open(at) ==
  /\ at > closes
  /\ closes' = at + Interval
  /\ window' = window + 1
  /\ UNCHANGED <<now, admitted>>

Taken(slot) == \E a \in admitted : a.window = window /\ a.slot = slot

\* A submission of time `at` takes a free slot of the window it falls in.
Admit(at, slot) ==
  /\ window > 0 /\ at <= closes /\ closes <= at + Interval
  /\ ~Taken(slot)
  /\ admitted' = admitted \cup {[window |-> window, slot |-> slot, at |-> at]}
  /\ UNCHANGED <<now, closes, window>>

\* The process starts anew and remembers nothing.
Restart ==
  /\ closes' = 0 /\ window' = 0 /\ admitted' = {}
  /\ UNCHANGED now

Next ==
  \/ Tick
  \/ Restart
  \/ \E at \in 1 .. now : Open(at) \/ \E slot \in 1 .. Max : Admit(at, slot)

Spec == Init /\ [][Next]_vars
=============================================================================
