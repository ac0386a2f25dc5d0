----------------------------- MODULE LeaseContract ----------------------------
(***************************************************************************)
(* What the leader-election lease promises its holder, whatever the        *)
(* replicas' clocks read: once written, it changes hands only after it has *)
(* gone a whole lease duration without being renewed, or after somebody    *)
(* outside the election removed it or cleared its holder.                  *)
(***************************************************************************)
EXTENDS Integers

CONSTANTS Replicas, LeaseDuration, Absent, Unheld

VARIABLES holder, age   \* age: time since the last write, up to LeaseDuration

Init == holder = Absent /\ age = 0

\* A replica renews its own lease, or takes a free or lapsed one.
Write(r) ==
  /\ holder \in {r, Absent, Unheld} \/ age = LeaseDuration
  /\ holder' = r /\ age' = 0

Disturb == holder' \in {Absent, Unheld} /\ age' = age

Tick == age < LeaseDuration /\ age' = age + 1 /\ holder' = holder

Next == (\E r \in Replicas : Write(r)) \/ Disturb \/ Tick

Spec == Init /\ [][Next]_<<holder, age>>
===============================================================================
