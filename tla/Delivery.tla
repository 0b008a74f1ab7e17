----------------------------- MODULE Delivery ------------------------------
(***************************************************************************)
(* What ambex promises Envoy, without its goroutines, channels and timers: *)
(* diagd's configurations and the watcher's fastpath snapshots arrive, and *)
(* from time to time Envoy is given a newer combination of them.  Ambex is *)
(* shown to implement this specification.                                  *)
(***************************************************************************)
EXTENDS Integers, FiniteSets

CONSTANTS Drain,          \* how long Envoy drains an old configuration
          Inconsistent    \* <<disk, fast>> that do not go together

VARIABLES
  disk,       \* newest configuration of diagd
  fast,       \* newest snapshot of the fastpath
  envoy,      \* what Envoy was given last
  live,       \* the configurations it may still be draining, with their age
  limit       \* how many it may have now; 0 means any number

vars == <<disk, fast, envoy, live, limit>>

Init ==
  /\ disk = 0 /\ fast = 0
  /\ envoy = [version |-> -1, disk |-> 0, fast |-> 0]
  /\ live = {}
  /\ limit \in Nat

NewConfiguration == disk' = disk + 1 /\ UNCHANGED <<fast, envoy, live, limit>>

NewEndpoints == fast' = fast + 1 /\ UNCHANGED <<disk, envoy, live, limit>>

(* A delivery is no older in either part, consistent, and has a version of  *)
(* its own.  It may skip configurations, never invent one.                  *)
Deliver ==
  /\ limit = 0 \/ Cardinality(live) < limit
  /\ envoy'.version > envoy.version
  /\ envoy'.disk \in envoy.disk .. disk
  /\ envoy'.fast \in envoy.fast .. fast
  /\ <<envoy'.disk, envoy'.fast>> \notin Inconsistent
  /\ live' = live \cup {[version |-> envoy'.version, age |-> 0]}
  /\ UNCHANGED <<disk, fast, limit>>

Age(u) == [version |-> u.version, age |-> u.age + 1]

Pass ==
  /\ live' = {u \in {Age(w) : w \in live} : u.age < Drain}
  /\ UNCHANGED <<disk, fast, envoy, limit>>

MemoryChange == limit' \in Nat /\ UNCHANGED <<disk, fast, envoy, live>>

Next == NewConfiguration \/ NewEndpoints \/ Deliver \/ Pass \/ MemoryChange

Spec == Init /\ [][Next]_vars
=============================================================================
