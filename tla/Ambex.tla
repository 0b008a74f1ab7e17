------------------------------- MODULE Ambex -------------------------------
(***************************************************************************)
(* Ambex: the main loop that turns the ADS configuration written by diagd  *)
(* and the fastpath snapshots of the watcher into Envoy configurations,    *)
(* and the Updater goroutine that pushes them to Envoy at a rate that      *)
(* depends on memory usage.                                                *)
(*                                                                         *)
(* A configuration on disk and a fastpath snapshot are versions.  Time is  *)
(* measured in fractions of the drain time; an update is kept with its age *)
(* instead of its timestamp.                                               *)
(***************************************************************************)
EXTENDS Integers, FiniteSets

CONSTANTS MaxDisk,       \* bound: configurations diagd writes
          MaxFast,       \* bound: fastpath snapshots the watcher sends
          SigBuffer,     \* capacity of sigCh
          Drain,         \* AMBASSADOR_DRAIN_TIME, in units of the clock
          Usages,        \* memory usage in percent, as getUsage reports it
          Inconsistent   \* <<disk, fast>> that fail snapshot.Consistent

ASSUME BoundAssumption  == MaxDisk \in Nat /\ MaxFast \in Nat
ASSUME BufferAssumption == SigBuffer \in Nat \ {0}
ASSUME DrainAssumption  == Drain \in Nat \ {0}
ASSUME UsageAssumption  == Usages \subseteq 0 .. 100 /\ Usages # {}

VARIABLES
  disk,         \* version of the ADS configuration on disk
  kick,         \* diagd has renamed a new one and not yet signalled it
  hup,          \* signals in sigCh
  mpc,          \* pc of main-loop: "start", "select" or "send"
  fast,         \* fastpathSnapshot and edsEndpointsV3 of main-loop
  generation,
  offer,        \* the Update that main-loop sends
  latest, gotFirst, pushed,
  updateTimes,  \* updates made, with their age up to Drain
  ticker,       \* time to the next tick
  tick,         \* ticker.C holds a tick
  usage,
  envoy,        \* the configuration of the SnapshotCache
  live,         \* history: configurations Envoy may still be draining
  dead          \* the updater has returned an error

diagd    == <<disk, kick>>
mainLoop == <<hup, mpc, fast, generation, offer>>
updater  == <<latest, gotFirst, pushed, updateTimes, envoy, live, dead>>
time     == <<ticker, tick>>
vars == <<diagd, mainLoop, updater, time, usage>>

-----------------------------------------------------------------------------
Update(v, d, f) == [version |-> v, disk |-> d, fast |-> f]
NoUpdate == Update(-1, 0, 0)

Updates  == [version : Int, disk : 0 .. MaxDisk, fast : 0 .. MaxFast]
Aged(v, a) == [version |-> v, age |-> a]
AgedUpdates == [version : Int, age : 0 .. Drain]

TypeOK ==
  /\ disk \in 0 .. MaxDisk /\ fast \in 0 .. MaxFast
  /\ hup \in 0 .. SigBuffer
  /\ kick \in BOOLEAN /\ gotFirst \in BOOLEAN /\ pushed \in BOOLEAN
  /\ tick \in BOOLEAN /\ dead \in BOOLEAN
  /\ mpc \in {"start", "select", "send"}
  /\ generation \in Nat
  /\ offer \in Updates /\ latest \in Updates /\ envoy \in Updates
  /\ updateTimes \in SUBSET AgedUpdates /\ IsFiniteSet(updateTimes)
  /\ live \in SUBSET AgedUpdates
  /\ ticker \in 1 .. Drain
  /\ usage \in Usages

Init ==
  /\ disk = 0 /\ kick = FALSE
  /\ hup = 0 /\ mpc = "start" /\ fast = 0 /\ generation = 0
  /\ offer = NoUpdate /\ latest = NoUpdate /\ envoy = NoUpdate
  /\ gotFirst = FALSE /\ pushed = FALSE
  /\ updateTimes = {} /\ live = {}
  /\ ticker = Drain /\ tick = FALSE
  /\ usage \in Usages
  /\ dead = FALSE

-----------------------------------------------------------------------------
(* The end of diagd's _load_ir: the new ADS configuration replaces the old  *)
(* one in one rename, and SIGHUP follows.                                   *)
Rename ==
  /\ disk < MaxDisk /\ ~kick
  /\ disk' = disk + 1
  /\ kick' = TRUE
  /\ UNCHANGED <<mainLoop, updater, time, usage>>

(* signal.Notify drops the signal if sigCh is full. *)
Kill ==
  /\ kick
  /\ kick' = FALSE
  /\ hup' = IF hup < SigBuffer THEN hup + 1 ELSE hup
  /\ UNCHANGED <<disk, mpc, fast, generation, offer, updater, time, usage>>

-----------------------------------------------------------------------------
(* Mutant: the generation only counts what was dropped. *)
update_SameVersion(f) ==
  IF <<disk, f>> \in Inconsistent
  THEN generation' = generation + 1 /\ mpc' = "select" /\ UNCHANGED offer
  ELSE mpc' = "send" /\ offer' = Update(generation, disk, f) /\ UNCHANGED generation

(* update(): a snapshot of what is on disk and of the fastpath, joined with *)
(* the latest endpoints.  One that is not consistent is logged and dropped. *)
update(f) ==
  /\ generation' = generation + 1
  /\ IF <<disk, f>> \in Inconsistent
     THEN mpc' = "select" /\ UNCHANGED offer
     ELSE mpc' = "send" /\ offer' = Update(generation, disk, f)

(* The main loop starts with an update and then serves its channels. *)
Start ==
  /\ mpc = "start" /\ ~dead
  /\ update(fast)
  /\ UNCHANGED <<diagd, hup, fast, updater, time, usage>>

Hup ==
  /\ mpc = "select" /\ ~dead
  /\ hup > 0
  /\ hup' = hup - 1
  /\ update(fast)
  /\ UNCHANGED <<diagd, fast, updater, time, usage>>

(* Mutant: the update is made before the new snapshot is kept. *)
FastpathUpdate_Early ==
  /\ mpc = "select" /\ ~dead
  /\ fast < MaxFast
  /\ fast' = fast + 1
  /\ update(fast)
  /\ UNCHANGED <<diagd, hup, updater, time, usage>>

FastpathUpdate ==
  /\ mpc = "select" /\ ~dead
  /\ fast < MaxFast
  /\ fast' = fast + 1
  /\ update(fast + 1)
  /\ UNCHANGED <<diagd, hup, updater, time, usage>>

-----------------------------------------------------------------------------
(* How many configurations Envoy may be draining; 0 means no limit. *)
maxStaleReconfigs(percent) ==
  IF percent >= 90 THEN 1
  ELSE IF percent >= 80 THEN 15
  ELSE IF percent >= 70 THEN 30
  ELSE IF percent >= 60 THEN 60
  ELSE IF percent >= 50 THEN 120 ELSE 0

gcUpdateTimes(times) == {u \in times : u.age < Drain}

throttled ==
  /\ maxStaleReconfigs(usage) > 0
  /\ Cardinality(gcUpdateTimes(updateTimes)) >= maxStaleReconfigs(usage)

(* One turn of the Updater's loop below its select: no capacity is left, or  *)
(* the Update l is pushed.                                                   *)
Throttle ==
  /\ throttled
  /\ updateTimes' = gcUpdateTimes(updateTimes)
  /\ pushed' = FALSE
  /\ UNCHANGED <<envoy, live, dead>>

Push(l) ==
  /\ ~throttled
  /\ envoy' = l
  /\ updateTimes' = gcUpdateTimes(updateTimes) \cup {Aged(l.version, 0)}
  /\ live' = live \cup {Aged(l.version, 0)}
  /\ pushed' = TRUE
  /\ UNCHANGED dead

(* SetSnapshot fails; the error ends the updater and with it all of ambex. *)
UpdateError ==
  /\ ~throttled
  /\ dead' = TRUE
  /\ updateTimes' = gcUpdateTimes(updateTimes)
  /\ pushed' = FALSE
  /\ UNCHANGED <<envoy, live>>

Turn(l) == Throttle \/ Push(l) \/ UpdateError

(* The updates case: main-loop and updater meet. *)
ReceiveUpdate ==
  /\ mpc = "send" /\ ~dead
  /\ mpc' = "select"
  /\ latest' = offer
  /\ gotFirst' = TRUE
  /\ Turn(offer)
  /\ UNCHANGED <<diagd, hup, fast, generation, offer, time, usage>>

(* Mutant: a tick only collects old updates. *)
ReceiveTick_NoRetry ==
  /\ tick /\ ~dead
  /\ tick' = FALSE
  /\ updateTimes' = IF pushed THEN updateTimes ELSE gcUpdateTimes(updateTimes)
  /\ UNCHANGED <<diagd, mainLoop, latest, gotFirst, pushed, envoy, live, dead, ticker, usage>>

(* The ticker case, which retries what was throttled. *)
ReceiveTick ==
  /\ tick /\ ~dead
  /\ tick' = FALSE
  /\ IF pushed \/ ~gotFirst
     THEN UNCHANGED <<pushed, updateTimes, envoy, live, dead>>
     ELSE Turn(latest)
  /\ UNCHANGED <<diagd, mainLoop, latest, gotFirst, ticker, usage>>

-----------------------------------------------------------------------------
(* One unit of time passes.  The updater serves a tick before the next unit *)
(* is over; everything else may take as long as it likes.                   *)
Older(u) == Aged(u.version, IF u.age < Drain THEN u.age + 1 ELSE Drain)

Advance ==
  /\ ~tick
  /\ updateTimes' = {Older(u) : u \in updateTimes}
  /\ live' = {u \in {Older(w) : w \in live} : u.age < Drain}
  /\ tick' = (ticker = 1)
  /\ ticker' = IF ticker = 1 THEN Drain ELSE ticker - 1
  /\ UNCHANGED <<diagd, mainLoop, latest, gotFirst, pushed, envoy, dead, usage>>

UsageChange(u) ==
  /\ usage' = u
  /\ UNCHANGED <<diagd, mainLoop, updater, time>>

-----------------------------------------------------------------------------
Next ==
  \/ Rename \/ Kill
  \/ Start \/ Hup \/ FastpathUpdate
  \/ ReceiveUpdate \/ ReceiveTick
  \/ Advance
  \/ \E u \in Usages : UsageChange(u)

Spec == Init /\ [][Next]_vars

(* diagd signals what it wrote, both goroutines keep running and time       *)
(* passes.  Nobody has to write a configuration or use less memory.         *)
FairSpec ==
  /\ Spec
  /\ WF_vars(Kill) /\ WF_vars(Start) /\ WF_vars(Hup)
  /\ WF_vars(ReceiveUpdate) /\ WF_vars(ReceiveTick) /\ WF_vars(Advance)

-----------------------------------------------------------------------------
(* "updates will be rate limited to guarantee that there are only so many   *)
(* stale configs in memory at a time": no push leaves Envoy with more       *)
(* configurations than the limit of the memory usage at that moment.        *)
StaleBounded ==
  [][envoy' # envoy /\ maxStaleReconfigs(usage) > 0
       => Cardinality(live') <= maxStaleReconfigs(usage)]_vars

(* The abstract specification, with the limit of the memory usage. *)
Promise == INSTANCE Delivery WITH limit <- maxStaleReconfigs(usage)

(* Ambex implements Delivery: Envoy is only given consistent combinations   *)
(* of configurations that existed, never an older diagd configuration or    *)
(* older endpoints after newer ones, each under a version of its own (Envoy *)
(* and its cache ignore a version they know), and never one more than the   *)
(* memory usage allows it to drain (main.go update, ratelimit.go Updater).  *)
DeliversAsPromised == Promise!Spec

(* Once ambex has nothing left to do and has pushed its latest update,      *)
(* Envoy has what is on disk and the last fastpath snapshot: no signal and  *)
(* no snapshot is lost, although sigCh drops signals and the updater drops  *)
(* updates.                                                                 *)
NothingMissed ==
  /\ ~dead /\ ~kick /\ hup = 0 /\ mpc = "select" /\ pushed
  /\ <<disk, fast>> \notin Inconsistent
  => envoy.disk = disk /\ envoy.fast = fast

(* A throttled update is pushed in the end, even if memory stays short.     *)
EventuallyApplied ==
  <>[](\/ dead \/ <<disk, fast>> \in Inconsistent
       \/ envoy.disk = disk /\ envoy.fast = fast)
=============================================================================
