---------------------------- MODULE AmbexProofs ----------------------------
(***************************************************************************)
(* What ambex promises Envoy, for any drain time, signal buffer, memory    *)
(* usage and any set of inconsistent combinations.                         *)
(***************************************************************************)
EXTENDS Ambex, FiniteSetTheorems, FunctionTheorems, TLAPS

(* The ages kept in updateTimes are those of the configurations that Envoy  *)
(* is still draining.                                                       *)
CountsLive == live = gcUpdateTimes(updateTimes)

(* Versions grow along the path from main-loop to Envoy. *)
Ordered ==
  /\ envoy.version <= latest.version
  /\ latest.version < generation
  /\ gotFirst /\ ~pushed /\ ~dead => envoy.version < latest.version
  /\ mpc = "send" => latest.version < offer.version /\ offer.version < generation

(* Unless a signal is on its way, the newest update is built from what is   *)
(* on disk and from the last fastpath snapshot.                             *)
BuiltFrom(u) == u.disk = disk /\ u.fast = fast

NewestIsCurrent ==
  /\ ~kick /\ hup = 0 /\ <<disk, fast>> \notin Inconsistent =>
        /\ mpc = "send" => BuiltFrom(offer)
        /\ mpc = "select" => BuiltFrom(latest)
  /\ pushed => envoy = latest

IInv == TypeOK /\ CountsLive /\ Ordered /\ NewestIsCurrent

-----------------------------------------------------------------------------
(* The initial state satisfies the invariant. *)
LEMMA InitInv == Init => IInv
<1> SUFFICES ASSUME Init PROVE IInv
  OBVIOUS
<1> USE BoundAssumption, BufferAssumption, DrainAssumption
    DEF BoundAssumption, BufferAssumption, DrainAssumption
<1>1. NoUpdate \in Updates
  BY DEF NoUpdate, Update, Updates
<1>2. IsFiniteSet(updateTimes)
  BY FS_EmptySet DEF Init
<1>3. TypeOK
  <2>1. ticker \in 1 .. Drain /\ hup \in 0 .. SigBuffer
    BY DEF Init
  <2>2. disk \in 0 .. MaxDisk /\ fast \in 0 .. MaxFast /\ generation \in Nat
    BY DEF Init
  <2>3. offer \in Updates /\ latest \in Updates /\ envoy \in Updates
    BY <1>1 DEF Init
  <2> QED
    BY <1>2, <2>1, <2>2, <2>3 DEF Init, TypeOK
<1>4. CountsLive
  BY DEF Init, CountsLive, gcUpdateTimes
<1>5. Ordered
  BY DEF Init, Ordered, NoUpdate, Update
<1>6. NewestIsCurrent
  BY DEF Init, NewestIsCurrent
<1> QED
  BY <1>3, <1>4, <1>5, <1>6 DEF IInv

(* update() keeps the types and makes a newer update from the given parts. *)
LEMMA UpdateFacts ==
  ASSUME TypeOK, NEW f \in 0 .. MaxFast, update(f)
  PROVE  /\ generation' = generation + 1
         /\ mpc' \in {"select", "send"}
         /\ offer' \in Updates
         /\ mpc' = "send" => offer' = Update(generation, disk, f)
         /\ <<disk, f>> \notin Inconsistent => mpc' = "send"
<1>1. Update(generation, disk, f) \in Updates
  BY DEF TypeOK, Update, Updates
<1> QED
  BY <1>1 DEF TypeOK, update

(* Main-loop's three ways to make an update. *)
LEMMA MainLoopStep ==
  ASSUME IInv, Start \/ Hup \/ FastpathUpdate
  PROVE  IInv'
<1> USE BoundAssumption, BufferAssumption DEF BoundAssumption, BufferAssumption
<1>1. PICK f \in 0 .. MaxFast : update(f) /\ fast' = f /\ hup' \in 0 .. SigBuffer
  BY DEF Start, Hup, FastpathUpdate, IInv, TypeOK
<1>2. UNCHANGED <<diagd, updater, time, usage>>
  BY DEF Start, Hup, FastpathUpdate
<1>3. mpc # "send"
  BY DEF Start, Hup, FastpathUpdate
<1>4. /\ generation' = generation + 1
      /\ mpc' \in {"select", "send"}
      /\ offer' \in Updates
      /\ mpc' = "send" => offer' = Update(generation, disk, f)
      /\ <<disk, f>> \notin Inconsistent => mpc' = "send"
  BY <1>1, UpdateFacts DEF IInv
<1>5. TypeOK'
  BY <1>1, <1>2, <1>4 DEF IInv, TypeOK, diagd, updater, time
<1>6. CountsLive'
  BY <1>2 DEF IInv, CountsLive, gcUpdateTimes, updater
<1>7. Ordered'
  BY <1>2, <1>4 DEF IInv, TypeOK, Ordered, updater, Update, Updates
<1>8. NewestIsCurrent'
  BY <1>1, <1>2, <1>4 DEF IInv, NewestIsCurrent, BuiltFrom, diagd, updater, Update
<1> QED
  BY <1>5, <1>6, <1>7, <1>8 DEF IInv
(* diagd, the signal and the memory usage. *)
LEMMA OutsideStep ==
  ASSUME IInv, Rename \/ Kill \/ \E u \in Usages : UsageChange(u)
  PROVE  IInv'
<1> USE BoundAssumption, BufferAssumption DEF BoundAssumption, BufferAssumption
<1>1. UNCHANGED <<mpc, fast, generation, offer, updater, time>>
  BY DEF Rename, Kill, UsageChange, mainLoop
<1>2. CountsLive' /\ Ordered'
  BY <1>1 DEF IInv, CountsLive, Ordered, gcUpdateTimes, updater
<1>3. CASE Rename
  <2>1. TypeOK'
    BY <1>1, <1>3 DEF Rename, IInv, TypeOK, mainLoop, updater, time
  <2>2. NewestIsCurrent'
    BY <1>1, <1>3 DEF Rename, IInv, NewestIsCurrent, updater
  <2> QED
    BY <1>2, <2>1, <2>2 DEF IInv
<1>4. CASE Kill
  <2>1. hup' \in 0 .. SigBuffer /\ hup' # 0
    BY <1>4 DEF Kill, IInv, TypeOK
  <2>2. TypeOK'
    BY <1>1, <1>4, <2>1 DEF Kill, IInv, TypeOK, updater, time
  <2>3. NewestIsCurrent'
    BY <1>1, <2>1 DEF IInv, NewestIsCurrent, updater
  <2> QED
    BY <1>2, <2>2, <2>3 DEF IInv
<1>5. CASE \E u \in Usages : UsageChange(u)
  <2>1. TypeOK'
    BY <1>1, <1>5 DEF UsageChange, IInv, TypeOK, diagd, mainLoop, updater, time
  <2>2. NewestIsCurrent'
    BY <1>1, <1>5 DEF UsageChange, IInv, NewestIsCurrent, BuiltFrom, diagd, mainLoop, updater
  <2> QED
    BY <1>2, <2>1, <2>2 DEF IInv
<1> QED
  BY <1>3, <1>4, <1>5

-----------------------------------------------------------------------------
(* What is collected is a finite part of what there was. *)
LEMMA CollectFacts ==
  ASSUME TypeOK
  PROVE  /\ gcUpdateTimes(updateTimes) \in SUBSET AgedUpdates
         /\ IsFiniteSet(gcUpdateTimes(updateTimes))
         /\ gcUpdateTimes(gcUpdateTimes(updateTimes)) = gcUpdateTimes(updateTimes)
<1>1. gcUpdateTimes(updateTimes) \subseteq updateTimes
  BY DEF gcUpdateTimes
<1>2. IsFiniteSet(gcUpdateTimes(updateTimes))
  BY <1>1, FS_Subset DEF TypeOK
<1> QED
  BY <1>1, <1>2 DEF TypeOK, gcUpdateTimes

(* One turn of the updater keeps its books. *)
LEMMA TurnFacts ==
  ASSUME IInv, NEW l \in Updates, Turn(l)
  PROVE  /\ updateTimes' \in SUBSET AgedUpdates /\ IsFiniteSet(updateTimes')
         /\ live' \in SUBSET AgedUpdates
         /\ pushed' \in BOOLEAN /\ dead' \in BOOLEAN
         /\ CountsLive'
         /\ pushed' => envoy' = l
         /\ ~pushed' => envoy' = envoy
<1> USE DrainAssumption DEF DrainAssumption
<1>1. /\ gcUpdateTimes(updateTimes) \in SUBSET AgedUpdates
      /\ IsFiniteSet(gcUpdateTimes(updateTimes))
      /\ gcUpdateTimes(gcUpdateTimes(updateTimes)) = gcUpdateTimes(updateTimes)
  BY CollectFacts DEF IInv
<1>2. CASE Throttle \/ UpdateError
  <2>1. updateTimes' = gcUpdateTimes(updateTimes) /\ live' = live /\ ~pushed' /\ envoy' = envoy
    BY <1>2 DEF Throttle, UpdateError
  <2>2. dead' \in BOOLEAN /\ pushed' \in BOOLEAN
    BY <1>2 DEF Throttle, UpdateError, IInv, TypeOK
  <2>3. CountsLive'
    BY <1>1, <2>1 DEF IInv, CountsLive, gcUpdateTimes
  <2> QED
    BY <1>1, <2>1, <2>2, <2>3 DEF IInv, TypeOK
<1>3. CASE Push(l)
  <2> DEFINE new == Aged(l.version, 0)
  <2>1. /\ updateTimes' = gcUpdateTimes(updateTimes) \cup {new}
        /\ live' = live \cup {new} /\ pushed' = TRUE /\ envoy' = l /\ dead' = dead
    BY <1>3 DEF Push
  <2>2. new \in AgedUpdates /\ new.age < Drain
    BY DEF Aged, AgedUpdates, Updates
  <2>3. IsFiniteSet(updateTimes')
    BY <1>1, <2>1, FS_AddElement
  <2>4. CountsLive'
    <3>1. gcUpdateTimes(gcUpdateTimes(updateTimes) \cup {new})
            = gcUpdateTimes(gcUpdateTimes(updateTimes)) \cup {new}
      BY <2>2 DEF gcUpdateTimes
    <3>2. gcUpdateTimes(updateTimes)' = gcUpdateTimes(updateTimes')
      BY DEF gcUpdateTimes
    <3> QED
      BY <1>1, <2>1, <3>1, <3>2 DEF IInv, CountsLive
  <2> QED
    BY <1>1, <2>1, <2>2, <2>3, <2>4 DEF IInv, TypeOK
<1> QED
  BY <1>2, <1>3 DEF Turn

(* The two cases of the updater's select. *)
LEMMA UpdaterStep ==
  ASSUME IInv, ReceiveUpdate \/ ReceiveTick PROVE IInv'
<1>1. CASE ReceiveUpdate
  <2>1. /\ updateTimes' \in SUBSET AgedUpdates /\ IsFiniteSet(updateTimes')
        /\ live' \in SUBSET AgedUpdates
        /\ pushed' \in BOOLEAN /\ dead' \in BOOLEAN
        /\ CountsLive'
        /\ pushed' => envoy' = offer
        /\ ~pushed' => envoy' = envoy
    BY <1>1, TurnFacts DEF ReceiveUpdate, IInv, TypeOK
  <2>2. latest' = offer /\ gotFirst' = TRUE /\ mpc = "send" /\ mpc' = "select"
        /\ UNCHANGED <<disk, kick, hup, fast, generation, offer, ticker, tick, usage>>
    BY <1>1 DEF ReceiveUpdate, diagd, time
  <2>3. TypeOK'
    BY <2>1, <2>2 DEF IInv, TypeOK
  <2>4. Ordered'
    BY <2>1, <2>2 DEF IInv, TypeOK, Updates, Ordered
  <2>5. NewestIsCurrent'
    BY <2>1, <2>2 DEF IInv, NewestIsCurrent, BuiltFrom
  <2> QED
    BY <2>1, <2>3, <2>4, <2>5 DEF IInv
<1>2. CASE ReceiveTick /\ (pushed \/ ~gotFirst)
  <2>1. UNCHANGED <<diagd, mainLoop, updater, ticker, usage>> /\ tick' = FALSE
    BY <1>2 DEF ReceiveTick, updater
  <2> QED
    BY <2>1 DEF IInv, TypeOK, CountsLive, gcUpdateTimes, Ordered, NewestIsCurrent, BuiltFrom,
                diagd, mainLoop, updater
<1>3. CASE ReceiveTick /\ ~(pushed \/ ~gotFirst)
  <2>1. Turn(latest) /\ UNCHANGED <<diagd, mainLoop, latest, gotFirst, ticker, usage>>
        /\ tick' = FALSE
    BY <1>3 DEF ReceiveTick
  <2>2. /\ updateTimes' \in SUBSET AgedUpdates /\ IsFiniteSet(updateTimes')
        /\ live' \in SUBSET AgedUpdates
        /\ pushed' \in BOOLEAN /\ dead' \in BOOLEAN
        /\ CountsLive'
        /\ pushed' => envoy' = latest
        /\ ~pushed' => envoy' = envoy
    BY <2>1, TurnFacts DEF IInv, TypeOK
  <2>3. TypeOK'
    BY <2>1, <2>2 DEF IInv, TypeOK, diagd, mainLoop
  <2>4. Ordered'
    <3>1. envoy.version < latest.version \/ dead
      BY <1>3 DEF IInv, Ordered
    <3>2. ~dead
      BY <1>3 DEF ReceiveTick
    <3> QED
      BY <2>1, <2>2, <3>1, <3>2 DEF IInv, TypeOK, Updates, Ordered, mainLoop
  <2>5. NewestIsCurrent'
    BY <2>1, <2>2 DEF IInv, NewestIsCurrent, BuiltFrom, diagd, mainLoop
  <2> QED
    BY <2>2, <2>3, <2>4, <2>5 DEF IInv
<1> QED
  BY <1>1, <1>2, <1>3

(* Growing older keeps a finite set finite. *)
LEMMA OlderFinite ==
  ASSUME NEW S, IsFiniteSet(S)
  PROVE  IsFiniteSet({Older(u) : u \in S})
<1> DEFINE T == {Older(u) : u \in S}
           F == [u \in S |-> Older(u)]
<1>1. F \in Surjection(S, T)
  BY DEF Surjection
<1>2. ExistsSurjection(S, T)
  BY <1>1 DEF ExistsSurjection
<1>3. PICK n \in Nat : ExistsSurjection(1 .. n, S)
  BY FS_NatSurjection
<1>4. ExistsSurjection(1 .. n, T)
  BY <1>2, <1>3, Fun_ExistsSurjTransitive
<1> QED
  BY <1>4, FS_NatSurjection

(* Time makes updates older in the same way in both books. *)
LEMMA AdvanceStep ==
  ASSUME IInv, Advance PROVE IInv'
<1> USE DrainAssumption DEF DrainAssumption
<1>1. UNCHANGED <<diagd, mainLoop, latest, gotFirst, pushed, envoy, dead, usage>>
  BY DEF Advance
<1>2. ASSUME NEW u \in AgedUpdates
      PROVE  /\ Older(u) \in AgedUpdates
             /\ Older(u).age < Drain => u.age < Drain
  <2>1. u.age \in 0 .. Drain /\ u.version \in Int
    BY DEF AgedUpdates
  <2> QED
    BY <2>1 DEF Older, Aged, AgedUpdates
<1>3. updateTimes' \in SUBSET AgedUpdates /\ live' \in SUBSET AgedUpdates
  <2>1. updateTimes \subseteq AgedUpdates /\ live \subseteq AgedUpdates
    BY DEF IInv, TypeOK
  <2>2. /\ updateTimes' = {Older(u) : u \in updateTimes}
        /\ live' \subseteq {Older(u) : u \in live}
    BY DEF Advance
  <2> QED
    BY <1>2, <2>1, <2>2
<1>4. IsFiniteSet(updateTimes')
  <2>1. IsFiniteSet({Older(u) : u \in updateTimes})
    BY OlderFinite DEF IInv, TypeOK
  <2> QED
    BY <2>1 DEF Advance
<1>5. TypeOK'
  <2>1. ticker' \in 1 .. Drain /\ tick' \in BOOLEAN
    BY DEF Advance, IInv, TypeOK
  <2> QED
    BY <1>1, <1>3, <1>4, <2>1 DEF IInv, TypeOK, diagd, mainLoop
<1>6. CountsLive'
  <2>1. ASSUME NEW u \in updateTimes, Older(u).age < Drain PROVE u \in live
    <3>1. u \in AgedUpdates
      BY DEF IInv, TypeOK
    <3>2. u.age < Drain
      BY <1>2, <2>1, <3>1
    <3> QED
      BY <3>2 DEF IInv, CountsLive, gcUpdateTimes
  <2>2. live \subseteq updateTimes
    BY DEF IInv, CountsLive, gcUpdateTimes
  <2>3. {w \in {Older(u) : u \in updateTimes} : w.age < Drain}
          = {w \in {Older(u) : u \in live} : w.age < Drain}
    BY <2>1, <2>2
  <2> QED
    BY <2>3 DEF Advance, CountsLive, gcUpdateTimes
<1>7. Ordered' /\ NewestIsCurrent'
  BY <1>1 DEF IInv, Ordered, NewestIsCurrent, BuiltFrom, diagd, mainLoop
<1> QED
  BY <1>5, <1>6, <1>7 DEF IInv

-----------------------------------------------------------------------------
(* The invariant holds in every reachable state of ambex. *)
THEOREM AmbexInvariant == Spec => []IInv
<1>1. IInv /\ [Next]_vars => IInv'
  <2> SUFFICES ASSUME IInv, [Next]_vars PROVE IInv'
    OBVIOUS
  <2>1. CASE Next
    BY <2>1, MainLoopStep, OutsideStep, UpdaterStep, AdvanceStep DEF Next
  <2>2. CASE UNCHANGED vars
    BY <2>2 DEF IInv, TypeOK, CountsLive, gcUpdateTimes, Ordered, NewestIsCurrent, BuiltFrom,
                vars, diagd, mainLoop, updater, time
  <2> QED
    BY <2>1, <2>2
<1> QED
  BY <1>1, InitInv, PTL DEF Spec

(* Every variable of ambex stays in its type. *)
THEOREM AmbexTypeCorrect == Spec => []TypeOK
<1>1. IInv => TypeOK
  BY DEF IInv
<1> QED
  BY <1>1, AmbexInvariant, PTL

(* Neither the signal buffer nor the queue of length one of the updater     *)
(* loses a configuration: once all is pushed, Envoy has the newest.         *)
THEOREM NewestReachesEnvoy == Spec => []NothingMissed
<1>1. IInv => NothingMissed
  BY DEF IInv, NewestIsCurrent, BuiltFrom, NothingMissed
<1> QED
  BY <1>1, AmbexInvariant, PTL

(* A step that changes Envoy's configuration is a push of the updater. *)
LEMMA OnlyPushes ==
  ASSUME IInv, [Next]_vars, envoy' # envoy
  PROVE  \E l \in Updates : /\ Push(l)
                            /\ \/ l = offer /\ mpc = "send"
                               \/ l = latest /\ gotFirst /\ ~pushed /\ ~dead
<1>1. ReceiveUpdate \/ ReceiveTick
  BY DEF Next, Rename, Kill, Start, Hup, FastpathUpdate, Advance, UsageChange, vars, updater
<1>2. CASE ReceiveUpdate
  BY <1>2 DEF ReceiveUpdate, Turn, Throttle, UpdateError, IInv, TypeOK
<1>3. CASE ReceiveTick
  <2>1. ~pushed /\ gotFirst /\ ~dead /\ Turn(latest)
    BY <1>3 DEF ReceiveTick
  <2> QED
    BY <2>1 DEF Turn, Throttle, UpdateError, IInv, TypeOK
<1> QED
  BY <1>1, <1>2, <1>3

(* The rate limit: whatever the memory usage, a push leaves Envoy with at   *)
(* most as many configurations as the limit allows.                         *)
THEOREM RateLimited == Spec => StaleBounded
<1>1. ASSUME IInv, [Next]_vars, envoy' # envoy, maxStaleReconfigs(usage) > 0
      PROVE  Cardinality(live') <= maxStaleReconfigs(usage)
  <2>1. PICK l \in Updates : Push(l)
    BY <1>1, OnlyPushes
  <2>2. live' = live \cup {Aged(l.version, 0)}
    BY <2>1 DEF Push
  <2>3. IsFiniteSet(live) /\ live = gcUpdateTimes(updateTimes)
    BY <1>1, CollectFacts DEF IInv, CountsLive
  <2>4. ~(Cardinality(live) >= maxStaleReconfigs(usage))
    BY <1>1, <2>1, <2>3 DEF Push, throttled
  <2>5. Cardinality(live) \in Nat
    BY <2>3, FS_CardinalityType
  <2>6. maxStaleReconfigs(usage) \in Nat
    BY DEF maxStaleReconfigs
  <2>7. Cardinality(live') = Cardinality(live) \/ Cardinality(live') = Cardinality(live) + 1
    BY <2>2, <2>3, FS_AddElement
  <2> QED
    BY <2>4, <2>5, <2>6, <2>7
<1> QED
  BY <1>1, AmbexInvariant, PTL DEF Spec, StaleBounded

(* Configurations only move forward on their way to Envoy, in both parts,   *)
(* and what is underway is consistent.                                      *)
NoNewer(u, w) == u.disk <= w.disk /\ u.fast <= w.fast
Consistent(u) == <<u.disk, u.fast>> \notin Inconsistent
Existed(u) == u.disk <= disk /\ u.fast <= fast

Forward ==
  /\ NoNewer(envoy, latest) /\ Existed(latest)
  /\ gotFirst => Consistent(latest)
  /\ mpc = "send" => NoNewer(latest, offer) /\ Existed(offer) /\ Consistent(offer)

(* update() builds on the newest parts, which nothing underway can exceed.  *)
LEMMA UpdateForward ==
  ASSUME IInv, Forward, NEW f \in {fast, fast + 1}, update(f), mpc # "send",
         disk' = disk, fast' = f, UNCHANGED <<latest, gotFirst, envoy>>
  PROVE  Forward'
<1> USE BoundAssumption DEF BoundAssumption
<1>1. /\ disk \in Int /\ fast \in Int /\ f \in Int /\ f >= fast
      /\ latest.disk \in Int /\ latest.fast \in Int
      /\ envoy.disk \in Int /\ envoy.fast \in Int
  BY DEF IInv, TypeOK, Updates
<1>2. NoNewer(envoy, latest)' /\ Existed(latest)' /\ (gotFirst => Consistent(latest))'
  BY <1>1 DEF Forward, NoNewer, Existed, Consistent
<1>3. CASE <<disk, f>> \in Inconsistent
  BY <1>2, <1>3 DEF update, Forward
<1>4. CASE <<disk, f>> \notin Inconsistent
  <2>1. offer'.disk = disk /\ offer'.fast = f
    BY <1>4 DEF update, Update
  <2>2. NoNewer(latest, offer)' /\ Existed(offer)' /\ Consistent(offer)'
    BY <1>1, <1>4, <2>1 DEF Forward, NoNewer, Existed, Consistent
  <2> QED
    BY <1>2, <2>2 DEF Forward
<1> QED
  BY <1>3, <1>4

(* Every step keeps the parts moving forward. *)
LEMMA ForwardStep ==
  ASSUME IInv, Forward, [Next]_vars PROVE Forward'
<1> USE BoundAssumption DEF BoundAssumption
<1>0. /\ disk \in Int /\ fast \in Int
      /\ offer.disk \in Int /\ offer.fast \in Int
      /\ latest.disk \in Int /\ latest.fast \in Int
      /\ envoy.disk \in Int /\ envoy.fast \in Int
  BY DEF IInv, TypeOK, Updates
<1>1. CASE Rename
  BY <1>0, <1>1 DEF Rename, mainLoop, updater, Forward, NoNewer, Existed, Consistent
<1>2. CASE Start \/ Hup
  BY <1>2, UpdateForward DEF Start, Hup, diagd, updater
<1>3. CASE FastpathUpdate
  BY <1>3, UpdateForward DEF FastpathUpdate, diagd, updater
<1>4. CASE ReceiveUpdate
  <2>1. envoy' = envoy \/ envoy' = offer
    BY <1>4 DEF ReceiveUpdate, Turn, Throttle, Push, UpdateError
  <2>2. mpc = "send" /\ mpc' = "select" /\ latest' = offer /\ UNCHANGED <<disk, fast, offer>>
    BY <1>4 DEF ReceiveUpdate, diagd
  <2>3. NoNewer(envoy, latest)'
    BY <1>0, <2>1, <2>2 DEF Forward, NoNewer
  <2> QED
    BY <2>2, <2>3 DEF Forward, Existed, Consistent
<1>5. CASE ReceiveTick
  <2>1. envoy' = envoy \/ envoy' = latest
    BY <1>5 DEF ReceiveTick, Turn, Throttle, Push, UpdateError
  <2>2. UNCHANGED <<disk, fast, mpc, offer, latest, gotFirst>>
    BY <1>5 DEF ReceiveTick, diagd, mainLoop
  <2>3. NoNewer(envoy, latest)'
    BY <1>0, <2>1, <2>2 DEF Forward, NoNewer
  <2> QED
    BY <2>2, <2>3 DEF Forward, NoNewer, Existed, Consistent
<1>6. CASE Kill \/ Advance \/ (\E u \in Usages : UsageChange(u)) \/ UNCHANGED vars
  <2>1. UNCHANGED <<disk, fast, mpc, offer, latest, gotFirst, envoy>>
    BY <1>6 DEF Kill, Advance, UsageChange, vars, diagd, mainLoop, updater
  <2> QED
    BY <2>1 DEF Forward, NoNewer, Existed, Consistent
<1> QED
  BY <1>1, <1>2, <1>3, <1>4, <1>5, <1>6 DEF Next

(* The parts move forward in every behaviour of ambex. *)
LEMMA AlwaysForward == Spec => [](IInv /\ Forward)
<1>1. Init => Forward
  <2> SUFFICES ASSUME Init PROVE Forward
    OBVIOUS
  <2> QED
    BY DEF Init, Forward, NoNewer, Existed, Consistent, NoUpdate, Update
<1>2. IInv /\ Forward /\ [Next]_vars => Forward'
  BY ForwardStep
<1> QED
  BY <1>1, <1>2, AmbexInvariant, PTL DEF Spec

(* A push is a delivery. *)
LEMMA PushDelivers ==
  ASSUME IInv, Forward, [Next]_vars, envoy' # envoy PROVE Promise!Deliver
<1>1. PICK l \in Updates : /\ Push(l)
                           /\ \/ l = offer /\ mpc = "send"
                              \/ l = latest /\ gotFirst /\ ~pushed /\ ~dead
  BY OnlyPushes
<1>2. envoy' = l /\ live' = live \cup {Aged(l.version, 0)}
  BY <1>1 DEF Push
<1>3. l.version > envoy.version
  BY <1>1 DEF IInv, TypeOK, Updates, Ordered
<1>4. NoNewer(envoy, l) /\ Existed(l) /\ Consistent(l)
  BY <1>1 DEF IInv, TypeOK, Updates, Forward, NoNewer, Existed
<1>5. l.disk \in envoy.disk .. disk /\ l.fast \in envoy.fast .. fast
  BY <1>4, BoundAssumption DEF BoundAssumption, NoNewer, Existed, IInv, TypeOK, Updates
<1>6. maxStaleReconfigs(usage) = 0 \/ Cardinality(live) < maxStaleReconfigs(usage)
  <2>1. IsFiniteSet(live) /\ live = gcUpdateTimes(updateTimes)
    BY CollectFacts DEF IInv, CountsLive
  <2>2. Cardinality(live) \in Nat
    BY <2>1, FS_CardinalityType
  <2>3. maxStaleReconfigs(usage) \in Nat
    BY DEF maxStaleReconfigs
  <2> QED
    BY <1>1, <2>1, <2>2, <2>3 DEF Push, throttled
<1>7. ReceiveUpdate \/ ReceiveTick
  BY DEF Next, Rename, Kill, Start, Hup, FastpathUpdate, Advance, UsageChange, vars, updater
<1>8. UNCHANGED <<disk, fast, usage>>
  BY <1>7 DEF ReceiveUpdate, ReceiveTick, diagd, mainLoop
<1>9. UNCHANGED maxStaleReconfigs(usage)
  BY <1>8 DEF maxStaleReconfigs
<1>10. Promise!Cardinality(live) = Cardinality(live)
  BY DEF Promise!Cardinality, Cardinality
<1> QED
  BY <1>2, <1>3, <1>4, <1>5, <1>6, <1>8, <1>9, <1>10 DEF Promise!Deliver, Aged, Consistent

(* What Envoy is draining grows old in ambex as it does in Delivery. *)
LEMMA AdvancePasses ==
  ASSUME IInv, Advance PROVE Promise!Pass
<1> USE DrainAssumption DEF DrainAssumption
<1>1. \A w \in live : w.age < Drain /\ w.age \in Int
  BY DEF IInv, CountsLive, gcUpdateTimes, TypeOK, AgedUpdates
<1>2. \A w \in live : Older(w) = Promise!Age(w)
  BY <1>1 DEF Older, Aged, Promise!Age
<1>3. live' = {u \in {Promise!Age(w) : w \in live} : u.age < Drain}
  BY <1>2 DEF Advance
<1>4. UNCHANGED <<disk, fast, envoy, usage>>
  BY DEF Advance, diagd, mainLoop
<1>5. UNCHANGED maxStaleReconfigs(usage)
  BY <1>4 DEF maxStaleReconfigs
<1> QED
  BY <1>3, <1>4, <1>5 DEF Promise!Pass

(* Every step of ambex is a step of Delivery or changes nothing of it. *)
LEMMA StepRefines ==
  ASSUME IInv, Forward, [Next]_vars PROVE [Promise!Next]_(Promise!vars)
<1> DEFINE lim == maxStaleReconfigs(usage)
<1>0. ASSUME usage' = usage PROVE lim' = lim
  BY <1>0 DEF maxStaleReconfigs
<1>1. CASE envoy' # envoy
  BY <1>1, PushDelivers DEF Promise!Next
<1>2. CASE Advance
  BY <1>2, AdvancePasses DEF Promise!Next
<1>3. CASE Rename
  <2>1. disk' = disk + 1 /\ UNCHANGED <<fast, envoy, live, usage>>
    BY <1>3 DEF Rename, mainLoop, updater
  <2> QED
    BY <1>0, <2>1 DEF Promise!Next, Promise!NewConfiguration
<1>4. CASE FastpathUpdate
  <2>1. fast' = fast + 1 /\ UNCHANGED <<disk, envoy, live, usage>>
    BY <1>4 DEF FastpathUpdate, diagd, updater
  <2> QED
    BY <1>0, <2>1 DEF Promise!Next, Promise!NewEndpoints
<1>5. CASE \E u \in Usages : UsageChange(u)
  <2>1. UNCHANGED <<disk, fast, envoy, live>>
    BY <1>5 DEF UsageChange, diagd, mainLoop, updater
  <2>2. lim' \in Nat
    BY DEF maxStaleReconfigs
  <2> QED
    BY <2>1, <2>2 DEF Promise!Next, Promise!MemoryChange
<1>6. CASE /\ envoy' = envoy
           /\ Kill \/ Start \/ Hup \/ ReceiveUpdate \/ ReceiveTick \/ UNCHANGED vars
  <2>1. UNCHANGED <<disk, fast, usage>>
    BY <1>6 DEF Kill, Start, Hup, ReceiveUpdate, ReceiveTick, vars, diagd, mainLoop
  <2>2. live' = live
    <3>1. CASE ReceiveUpdate
      <4>1. ~Push(offer)
        BY <1>6, <3>1 DEF Push, IInv, TypeOK, Updates, Ordered, ReceiveUpdate
      <4> QED
        BY <3>1, <4>1 DEF ReceiveUpdate, Turn, Throttle, UpdateError
    <3>2. CASE ReceiveTick
      <4>1. ~pushed /\ gotFirst => ~Push(latest)
        BY <1>6, <3>2 DEF Push, IInv, TypeOK, Updates, Ordered, ReceiveTick
      <4> QED
        BY <3>2, <4>1 DEF ReceiveTick, Turn, Throttle, UpdateError
    <3> QED
      BY <1>6, <3>1, <3>2 DEF Kill, Start, Hup, vars, updater
  <2> QED
    BY <1>0, <1>6, <2>1, <2>2 DEF Promise!vars
<1> QED
  BY <1>1, <1>2, <1>3, <1>4, <1>5, <1>6 DEF Next

(* Ambex implements Delivery: whatever signals are dropped, updates          *)
(* throttled and snapshots inconsistent, Envoy is only moved forward, only   *)
(* to consistent configurations that existed, and within the limit.          *)
THEOREM AmbexImplementsDelivery == Spec => DeliversAsPromised
<1>1. Init => Promise!Init
  <2> SUFFICES ASSUME Init PROVE Promise!Init
    OBVIOUS
  <2>1. maxStaleReconfigs(usage) \in Nat
    BY DEF maxStaleReconfigs
  <2> QED
    BY <2>1 DEF Init, Promise!Init, NoUpdate, Update
<1>2. IInv /\ Forward /\ [Next]_vars => [Promise!Next]_(Promise!vars)
  BY StepRefines
<1> QED
  BY <1>1, <1>2, AlwaysForward, PTL DEF Spec, DeliversAsPromised, Promise!Spec
=============================================================================
