---- MODULE InvocationClock ----
(***************************************************************************)
(* The time at which an invocation of scout_access or of registration's     *)
(* scout functions sees the chain.  It is read, never set, by the contracts *)
(* and stands still during an invocation.                                   *)
(***************************************************************************)
EXTENDS Integers

CONSTANTS
  NONE,      \* an absent storage key
  MaxTime    \* bound on the time

VARIABLE now

\* Time passes between two invocations.
Tick ==
  /\ now < MaxTime
  /\ now' = now + 1
====
