------------------------- MODULE AccumulatorProofs -------------------------
(***************************************************************************)
(* For every set of queries and objects and every bound on versions, with  *)
(* or without local writes: the accumulator's bookkeeping is type correct, *)
(* loses no change, and its deltas tell the truth; the bootstrap misses at *)
(* most one object per query; and the consumer never sees an object go     *)
(* backwards that is only watched.                                         *)
(***************************************************************************)
EXTENDS Accumulator, FiniteSetTheorems, TLAPS

(* The inductive invariant: the three properties need each other.  That a  *)
(* delete delta has no value behind it (DeltasMatchStore) and that an       *)
(* object without a delta is in the snapshot as stored (NoChangeLost) is    *)
(* what makes the deltas explain the snapshot after FilteredUpdate.         *)
IInv == TypeOK /\ NoChangeLost /\ DeltasMatchStore /\ DeltasExplainSnapshot

(* hasSynced is a truth value, so a rawUpdate built from it is well typed. *)
LEMMA HasSyncedType ==
  ASSUME NEW f, NEW c PROVE hasSynced(f, c) \in BOOLEAN
BY DEF hasSynced

(* Each step of the pipeline keeps every variable in its type. *)
LEMMA TypeStep == TypeOK /\ [Next]_vars => TypeOK'
<1> SUFFICES ASSUME TypeOK, [Next]_vars PROVE TypeOK'
  OBVIOUS
<1> USE VersionAssumption, KeysAssumption DEF VersionAssumption, KeysAssumption, TypeOK, Versions0, Versions
<1>1. CASE \E k \in Keys : RemoteWrite(k) \/ RemoteDelete(k)
  <2>1. PICK k \in Keys : RemoteWrite(k) \/ RemoteDelete(k)
    BY <1>1
  <2>2. CASE RemoteWrite(k)
    <3>1. last' \in [Keys -> 0 .. MaxVersion]
      BY <2>2 DEF RemoteWrite
    <3> QED
      BY <2>2, <3>1 DEF RemoteWrite, informer, listener, store, consumer
  <2>3. CASE RemoteDelete(k)
    BY <2>3 DEF RemoteDelete, informer, listener, store, consumer
  <2> QED
    BY <2>1, <2>2, <2>3
<1>2. CASE \E k \in Keys : LocalWrite(k) \/ LocalGet(k) \/ LocalDelete(k)
  <2>1. PICK k \in Keys : LocalWrite(k) \/ LocalGet(k) \/ LocalDelete(k)
    BY <1>2
  <2>2. CASE LocalWrite(k)
    <3>1. last[k] + 1 \in 0 .. MaxVersion
      BY <2>2 DEF LocalWrite
    <3> QED
      BY <2>2, <3>1 DEF LocalWrite, informer, listener, store, consumer
  <2>3. CASE LocalGet(k)
    BY <2>3 DEF LocalGet, server, informer, listener, store, consumer
  <2>4. CASE LocalDelete(k)
    <3>1. 0 \in 0 .. MaxVersion
      OBVIOUS
    <3> QED
      BY <2>4, <3>1 DEF LocalDelete, informer, listener, store, consumer
  <2> QED
    BY <2>1, <2>2, <2>3, <2>4
<1>3. CASE \E f \in Fields : LocalList(f)
  BY <1>3 DEF LocalList, server, informer, listener, store, consumer
<1>4. CASE \E f \in Fields : List(f) \/ Watch(f)
  BY <1>4 DEF List, Watch, server, listener, store, consumer
<1>5. CASE \E f \in Fields : Handler(f)
  <2>1. PICK f \in Fields, k \in Keys :
           \/ \E v \in Versions : AddFunc(f, k, v) \/ UpdateFunc(f, k, v)
           \/ DeleteFunc(f, k)
    BY <1>5 DEF Handler
  <2>2. hasSynced(f, addEvents[f]) \in BOOLEAN /\ hasSynced(f, addEvents[f] + 1) \in BOOLEAN
    BY HasSyncedType
  <2>3. CASE \E v \in Versions : AddFunc(f, k, v)
    <3>1. PICK v \in Versions : AddFunc(f, k, v)
      BY <2>3
    <3>2. [key |-> k, old |-> 0, new |-> v, synced |-> hasSynced(f, addEvents[f] + 1)] \in RawUpdate
      BY <2>2 DEF RawUpdate
    <3> QED
      BY <3>1, <3>2 DEF AddFunc, server, listener, store, consumer
  <2>4. CASE \E v \in Versions : UpdateFunc(f, k, v)
    <3>1. PICK v \in Versions : UpdateFunc(f, k, v)
      BY <2>4
    <3>2. [key |-> k, old |-> seen[k], new |-> v, synced |-> hasSynced(f, addEvents[f])] \in RawUpdate
      BY <2>2, <3>1 DEF RawUpdate, UpdateFunc
    <3> QED
      BY <3>1, <3>2 DEF UpdateFunc, server, listener, store, consumer
  <2>5. CASE DeleteFunc(f, k)
    <3>1. [key |-> k, old |-> seen[k], new |-> 0, synced |-> hasSynced(f, addEvents[f])] \in RawUpdate
      BY <2>2, <2>5 DEF RawUpdate, DeleteFunc
    <3> QED
      BY <2>5, <3>1 DEF DeleteFunc, Gone, Untracked, server, listener, store, consumer
  <2> QED
    BY <2>1, <2>3, <2>4, <2>5
<1>6. CASE \E f \in Fields : ReceiveEvent(f)
  <2>1. PICK f \in Fields : ReceiveEvent(f)
    BY <1>6
  <2>2. PICK u \in hand[f] : storeUpdate(f, u) /\ hand' = [hand EXCEPT ![f] = @ \ {u}]
    BY <2>1 DEF ReceiveEvent
  <2>3. u.key \in Keys /\ u.old \in Versions0 /\ u.new \in Versions0 /\ u.synced \in BOOLEAN
    BY <2>2 DEF RawUpdate
  <2>4. StoredDelta(u) \in DeltaTypes
    BY <2>3 DEF StoredDelta, DeltaTypes
  <2>5. /\ values' \in [Keys -> Versions0] /\ deltas' \in [Keys -> DeltaTypes]
        /\ synced' \in [Fields -> BOOLEAN] /\ hand' \in [Fields -> SUBSET RawUpdate]
    BY <2>2, <2>3, <2>4 DEF storeUpdate
  <2> QED
    BY <2>1, <2>5 DEF ReceiveEvent, Dispatch, server, informer, consumer
<1>7. CASE \E f \in Fields : ReceiveSync(f)
  BY <1>7 DEF ReceiveSync, Dispatch, server, consumer
<1>8. CASE Tick \/ Changed
  BY <1>8 DEF Tick, Changed, server, informer, store, consumer
<1>9. CASE FilteredUpdate
  <2>1. \A k \in Keys : PatchedValue(k) \in Versions0
    BY DEF PatchedValue, Untracked
  <2>2. \A k \in Keys : PatchedDelta(k) \in DeltaTypes
    BY DEF PatchedDelta, DeltaTypes
  <2>3. \A k \in Keys : PatchedCanonical(k) \in Versions0 \cup {Untracked}
    BY DEF PatchedCanonical
  <2>4. \A k \in Keys : ExcludedAfter(k) \in BOOLEAN
    BY DEF ExcludedAfter
  <2> QED
    BY <1>9, <2>1, <2>2, <2>3, <2>4 DEF FilteredUpdate, DeltaTypes, server, informer, listener
<1>10. CASE UNCHANGED vars
  BY <1>10 DEF vars, server, informer, listener, store, consumer
<1> QED
  BY <1>1, <1>2, <1>3, <1>4, <1>5, <1>6, <1>7, <1>8, <1>9, <1>10 DEF Next

(* storeUpdate keeps the three properties: it leaves an object without a   *)
(* delta only when the stored value does not change.                       *)
LEMMA StoreStep ==
  ASSUME IInv, NEW f \in Fields, ReceiveEvent(f)
  PROVE  (NoChangeLost /\ DeltasMatchStore /\ DeltasExplainSnapshot)'
<1>1. PICK u \in hand[f] : storeUpdate(f, u)
  BY DEF ReceiveEvent
<1>2. u.key \in Keys /\ u.old \in Versions0 /\ u.new \in Versions0
  BY <1>1 DEF IInv, TypeOK, RawUpdate
<1>3. /\ values' = [values EXCEPT ![u.key] = u.new]
      /\ deltas' = [deltas EXCEPT ![u.key] = StoredDelta(u)]
      /\ UNCHANGED <<excluded, snap, told>>
  BY <1>1 DEF storeUpdate, ReceiveEvent, consumer
<1>4. values \in [Keys -> Versions0] /\ deltas \in [Keys -> DeltaTypes]
  BY DEF IInv, TypeOK
<1>5. NoChangeLost'
  BY <1>2, <1>3, <1>4 DEF IInv, NoChangeLost, StoredDelta
<1>6. DeltasMatchStore'
  BY <1>2, <1>3, <1>4 DEF IInv, DeltasMatchStore, StoredDelta
<1>7. DeltasExplainSnapshot'
  BY <1>3 DEF IInv, DeltasExplainSnapshot
<1> QED
  BY <1>5, <1>6, <1>7

(* What patchWatch and updateField do to one object in FilteredUpdate. *)
LEMMA PatchFacts ==
  ASSUME IInv, NEW k \in Keys
  PROVE  /\ PatchedDelta(k) = "none" => deltas[k] = "none" /\ PatchedValue(k) = values[k]
         /\ PatchedDelta(k) = "delete" => PatchedValue(k) = 0
         /\ PatchedDelta(k) \in {"add", "update"} => PatchedValue(k) # 0
         /\ PatchedDelta(k) \in DeltaTypes
BY DEF IInv, TypeOK, Versions0, DeltasMatchStore, PatchedDelta, PatchedValue, DeltaTypes, Untracked

(* FilteredUpdate keeps the three properties. *)
LEMMA FilteredUpdateStep ==
  ASSUME IInv, FilteredUpdate
  PROVE  (NoChangeLost /\ DeltasMatchStore /\ DeltasExplainSnapshot)'
<1>1. SUFFICES ASSUME NEW k \in Keys
               PROVE  /\ deltas'[k] = "none"
                      /\ snap'[k] = IF excluded'[k] THEN 0 ELSE values'[k]
                      /\ snap'[k] # 0 => told'[k] \in {"add", "update"}
                      /\ snap'[k] # 0 => <<k, snap'[k]>> \notin Rejected
                      /\ told'[k] \in {"add", "update"} => snap'[k] # 0 \/ excluded'[k]
  BY DEF NoChangeLost, DeltasMatchStore, DeltasExplainSnapshot
<1>2. /\ deltas'[k] = "none" /\ values'[k] = PatchedValue(k) /\ excluded'[k] = ExcludedAfter(k)
      /\ snap'[k] = IF ~FieldUpdated(FieldOf[k]) THEN snap[k]
                    ELSE IF ExcludedAfter(k) THEN 0 ELSE PatchedValue(k)
      /\ told'[k] = IF PatchedDelta(k) = "none" THEN told[k] ELSE PatchedDelta(k)
  BY DEF FilteredUpdate
<1>3. CASE PatchedDelta(k) = "none"
  <2>1. deltas[k] = "none" /\ PatchedValue(k) = values[k] /\ (ExcludedAfter(k) <=> excluded[k])
    BY <1>3, PatchFacts DEF ExcludedAfter
  <2>2. snap[k] = IF excluded[k] THEN 0 ELSE values[k]
    BY <2>1 DEF IInv, NoChangeLost
  <2>3. snap'[k] = snap[k] /\ told'[k] = told[k]
    BY <1>2, <1>3, <2>1, <2>2
  <2> QED
    BY <1>2, <2>1, <2>2, <2>3 DEF IInv, DeltasExplainSnapshot
<1>4. CASE PatchedDelta(k) # "none"
  <2>1. FieldUpdated(FieldOf[k])
    BY <1>4, KeysAssumption DEF KeysAssumption, FieldUpdated, ObjectsOf
  <2>2. CASE PatchedDelta(k) = "delete"
    BY <1>2, <2>1, <2>2, PatchFacts DEF ExcludedAfter
  <2>3. CASE PatchedDelta(k) \in {"add", "update"}
    <3>1. ExcludedAfter(k) <=> <<k, PatchedValue(k)>> \in Rejected
      BY <2>3 DEF ExcludedAfter
    <3> QED
      BY <1>2, <2>1, <2>3, <3>1, PatchFacts
  <2> QED
    BY <1>4, <2>2, <2>3, PatchFacts DEF DeltaTypes
<1> QED
  BY <1>3, <1>4

(* The steps that touch neither the store nor the consumer's view. *)
LEMMA OtherSteps ==
  ASSUME IInv, UNCHANGED <<values, deltas, excluded, snap, told>>
  PROVE  (NoChangeLost /\ DeltasMatchStore /\ DeltasExplainSnapshot)'
BY DEF IInv, NoChangeLost, DeltasMatchStore, DeltasExplainSnapshot

(* The invariant holds in every reachable state of the pipeline. *)
THEOREM AccumulatorInvariant == Spec => []IInv
<1>1. Init => IInv
  <2> SUFFICES ASSUME Init PROVE IInv
    OBVIOUS
  <2>1. 0 .. 1 \subseteq Versions0 /\ 0 \in Versions0
    BY VersionAssumption DEF VersionAssumption, Versions0
  <2>2. TypeOK
    BY <2>1 DEF Init, TypeOK, DeltaTypes
  <2>3. NoChangeLost /\ DeltasMatchStore /\ DeltasExplainSnapshot
    BY DEF Init, NoChangeLost, DeltasMatchStore, DeltasExplainSnapshot
  <2> QED
    BY <2>2, <2>3 DEF IInv
<1>2. IInv /\ [Next]_vars => IInv'
  <2> SUFFICES ASSUME IInv, [Next]_vars PROVE IInv'
    OBVIOUS
  <2>1. TypeOK'
    BY TypeStep DEF IInv
  <2>2. CASE \E f \in Fields : ReceiveEvent(f)
    BY <2>1, <2>2, StoreStep DEF IInv
  <2>3. CASE FilteredUpdate
    BY <2>1, <2>3, FilteredUpdateStep DEF IInv
  <2>4. CASE \/ \E k \in Keys : RemoteWrite(k) \/ RemoteDelete(k)
             \/ \E k \in Keys : LocalWrite(k) \/ LocalGet(k) \/ LocalDelete(k)
             \/ \E f \in Fields : LocalList(f)
             \/ \E f \in Fields : List(f) \/ Watch(f) \/ Handler(f)
             \/ \E f \in Fields : ReceiveSync(f)
             \/ Tick \/ Changed \/ UNCHANGED vars
    <3>1. UNCHANGED <<values, deltas, excluded, snap, told>>
      BY <2>4 DEF RemoteWrite, RemoteDelete, LocalWrite, LocalGet, LocalDelete, LocalList, List,
         Watch, Handler, AddFunc, UpdateFunc, DeleteFunc, ReceiveSync, Tick, Changed, vars,
         store, consumer
    <3> QED
      BY <2>1, <3>1, OtherSteps DEF IInv
  <2> QED
    BY <2>2, <2>3, <2>4 DEF Next
<1> QED
  BY <1>1, <1>2, PTL DEF Spec

(* Every variable of the pipeline stays in its type. *)
THEOREM AccumulatorTypeCorrect == Spec => []TypeOK
<1>1. IInv => TypeOK
  BY DEF IInv
<1> QED
  BY <1>1, AccumulatorInvariant, PTL

(* No change is lost between storeUpdate, patchWatch and updateField: an   *)
(* object without a pending delta is in the snapshot as it is stored.      *)
THEOREM NothingLost == Spec => []NoChangeLost
<1>1. IInv => NoChangeLost
  BY DEF IInv
<1> QED
  BY <1>1, AccumulatorInvariant, PTL

(* Add and update deltas have a stored object, delete deltas have none: the *)
(* predicate that updateField calls never gets nil.                        *)
THEOREM PredicateNeverNil == Spec => []DeltasMatchStore
<1>1. IInv => DeltasMatchStore
  BY DEF IInv
<1> QED
  BY <1>1, AccumulatorInvariant, PTL

(* The deltas handed to the consumer explain its snapshot, which holds no   *)
(* object version that the predicate rejects.                              *)
THEOREM DeltasTruthful == Spec => []DeltasExplainSnapshot
<1>1. IInv => DeltasExplainSnapshot
  BY DEF IInv
<1> QED
  BY <1>1, AccumulatorInvariant, PTL

-----------------------------------------------------------------------------
(* Bootstrap.  The objects of the initial list of a query, and those whose  *)
(* Add its handler has dispatched.                                          *)
Listed(f)     == {k \in ObjectsOf(f) : listed[k] # 0}
Dispatched(f) == {k \in ObjectsOf(f) : seen[k] # 0}

AllDispatched(f) == Listed(f) \subseteq Dispatched(f)

(* addEventCount counts the dispatched objects, and the objects of the list *)
(* come first; so a count that reaches the size of the list means that they *)
(* have all been dispatched, and only then anybody says "synced".  All but  *)
(* the update in the handler's hand has then been stored.                   *)
BootOf(f) ==
  /\ refl[f] = "list" => Listed(f) = {} /\ Dispatched(f) = {} /\ ~synced[f] /\ hand[f] = {}
  /\ addEvents[f] = Cardinality(Dispatched(f))
  /\ Dispatched(f) \subseteq Listed(f) \/ AllDispatched(f)
  /\ synced[f] \/ refl[f] = "sync" => AllDispatched(f)
  /\ \A u \in hand[f] : FieldOf[u.key] = f /\ (u.synced => AllDispatched(f))
  /\ \A u, v \in hand[f] : u = v

(* Listen sends notifications once every query has synced. *)
SentWhenSynced == lpc = "sending" \/ sentOnce => AllSynced

BootInv == (\A f \in Fields : BootOf(f)) /\ SentWhenSynced

(* Of two sets, one in the other, the one that is not smaller is the larger. *)
LEMMA CountSuffices ==
  ASSUME NEW L, NEW D, IsFiniteSet(L), D \subseteq L \/ L \subseteq D,
         Cardinality(D) >= Cardinality(L)
  PROVE  L \subseteq D
<1>1. CASE D \subseteq L
  <2>1. /\ IsFiniteSet(D) /\ Cardinality(D) <= Cardinality(L)
        /\ Cardinality(L) = Cardinality(D) => L = D
    BY <1>1, FS_Subset
  <2>2. Cardinality(D) \in Nat /\ Cardinality(L) \in Nat
    BY <2>1, FS_CardinalityType
  <2> QED
    BY <2>1, <2>2
<1> QED
  BY <1>1

(* The objects of a query are finitely many. *)
LEMMA FiniteSelections ==
  ASSUME NEW f
  PROVE  /\ IsFiniteSet(Listed(f)) /\ IsFiniteSet(Dispatched(f))
         /\ IsFiniteSet(Listed(f)') /\ IsFiniteSet(Dispatched(f)')
<1>1. IsFiniteSet(Keys)
  BY KeysAssumption DEF KeysAssumption
<1>2. Listed(f) \in SUBSET Keys /\ Dispatched(f) \in SUBSET Keys
      /\ Listed(f)' \in SUBSET Keys /\ Dispatched(f)' \in SUBSET Keys
  BY DEF Listed, Dispatched, ObjectsOf
<1> QED
  BY <1>1, <1>2, FS_Subset

(* hasSynced says that the whole list has been dispatched. *)
LEMMA SyncedMeansAll ==
  ASSUME NEW f \in Fields, BootOf(f), hasSynced(f, addEvents[f])
  PROVE  AllDispatched(f)
<1>1. Cardinality(Dispatched(f)) >= Cardinality(Listed(f))
  BY DEF BootOf, hasSynced, initialListCount, Listed
<1> QED
  BY <1>1, FiniteSelections, CountSuffices DEF BootOf, AllDispatched

(* A query whose informer does nothing. *)
LEMMA BootStays ==
  ASSUME NEW f \in Fields, BootOf(f),
         \A k \in ObjectsOf(f) : listed'[k] = listed[k] /\ seen'[k] = seen[k],
         refl'[f] = refl[f], addEvents'[f] = addEvents[f], hand'[f] = hand[f],
         synced'[f] = synced[f]
  PROVE  BootOf(f)'
<1>1. Listed(f)' = Listed(f) /\ Dispatched(f)' = Dispatched(f)
  BY DEF Listed, Dispatched, ObjectsOf
<1> QED
  BY <1>1 DEF BootOf, AllDispatched

(* The reflector lists, before anything has been dispatched. *)
LEMMA BootList ==
  ASSUME TypeOK, NEW f \in Fields, NEW g \in Fields, BootOf(g), List(f)
  PROVE  BootOf(g)'
<1>1. /\ refl[f] = "list" /\ refl' = [refl EXCEPT ![f] = "call"]
      /\ \A k \in Keys : FieldOf[k] # f => listed'[k] = listed[k]
      /\ UNCHANGED <<addEvents, seen, hand, synced>>
  BY DEF List, store
<1>2. CASE g # f
  BY <1>1, <1>2, BootStays DEF ObjectsOf, TypeOK
<1>3. CASE g = f
  <2>1. Dispatched(f)' = Dispatched(f) /\ Dispatched(f) = {} /\ hand[f] = {} /\ ~synced[f]
    BY <1>1, <1>3 DEF BootOf, Dispatched, ObjectsOf
  <2>2. refl'[f] = "call"
    BY <1>1 DEF TypeOK
  <2> QED
    BY <1>1, <1>3, <2>1, <2>2 DEF BootOf
<1> QED
  BY <1>2, <1>3

(* The reflector decides whether to send its own synced update. *)
LEMMA BootWatch ==
  ASSUME TypeOK, NEW f \in Fields, NEW g \in Fields, BootOf(g), Watch(f)
  PROVE  BootOf(g)'
<1>1. /\ refl[f] = "call"
      /\ refl' = [refl EXCEPT ![f] = IF hasSynced(f, addEvents[f]) THEN "sync" ELSE "watch"]
      /\ UNCHANGED <<listed, addEvents, seen, hand, synced>>
  BY DEF Watch, store
<1>2. CASE g # f
  BY <1>1, <1>2, BootStays DEF TypeOK
<1>3. CASE g = f
  <2>1. Listed(f)' = Listed(f) /\ Dispatched(f)' = Dispatched(f)
    BY <1>1 DEF Listed, Dispatched, ObjectsOf
  <2>2. refl'[f] \in {"sync", "watch"} /\ (refl'[f] = "sync" => AllDispatched(f))
    BY <1>1, <1>3, SyncedMeansAll DEF TypeOK
  <2> QED
    BY <1>1, <1>3, <2>1, <2>2 DEF BootOf, AllDispatched
<1> QED
  BY <1>2, <1>3

(* The handler counts an object and takes it in its hand. *)
LEMMA BootAdd ==
  ASSUME TypeOK, NEW f \in Fields, NEW g \in Fields, BootOf(g),
         NEW k \in Keys, NEW v \in Versions, AddFunc(f, k, v)
  PROVE  BootOf(g)'
<1> DEFINE u == [key |-> k, old |-> 0, new |-> v, synced |-> hasSynced(f, addEvents[f] + 1)]
<1>1. /\ hand[f] = {} /\ FieldOf[k] = f /\ seen[k] = 0 /\ v \in Observable(f, k)
      /\ seen' = [seen EXCEPT ![k] = v]
      /\ addEvents' = [addEvents EXCEPT ![f] = addEvents[f] + 1]
      /\ hand' = [hand EXCEPT ![f] = {u}]
      /\ UNCHANGED <<refl, listed, synced>>
  BY DEF AddFunc, store
<1>2. CASE g # f
  <2>1. \A j \in ObjectsOf(g) : seen'[j] = seen[j]
    BY <1>1, <1>2 DEF ObjectsOf, TypeOK
  <2> QED
    BY <1>1, <1>2, <2>1, BootStays DEF TypeOK
<1>3. CASE g = f
  <2>1. Listed(f)' = Listed(f) /\ k \in ObjectsOf(f) /\ k \notin Dispatched(f)
    BY <1>1 DEF Listed, Dispatched, ObjectsOf
  <2>2. v # 0
    BY VersionAssumption DEF Versions, VersionAssumption
  <2>3. Dispatched(f)' = Dispatched(f) \cup {k}
    BY <1>1, <2>1, <2>2 DEF Dispatched, ObjectsOf, TypeOK
  <2>4. Cardinality(Dispatched(f)') = Cardinality(Dispatched(f)) + 1
    BY <2>1, <2>3, FiniteSelections, FS_AddElement
  <2>5. addEvents'[f] = Cardinality(Dispatched(f)')
    BY <1>1, <1>3, <2>4 DEF BootOf, TypeOK
  <2>6. listed[k] # 0 \/ AllDispatched(f)
    BY <1>1 DEF Observable, AllDispatched, Listed, Dispatched
  <2>7. Dispatched(f)' \subseteq Listed(f)' \/ AllDispatched(f)'
    BY <1>3, <2>1, <2>3, <2>6 DEF BootOf, AllDispatched, Listed
  <2>8. refl[f] # "list"
    <3>1. listed[k] # 0 => Listed(f) # {}
      BY <2>1 DEF Listed
    <3> QED
      BY <1>1, <1>3, <3>1 DEF BootOf, Observable
  <2>9. u.key = k /\ (u.synced => AllDispatched(f)')
    <3>1. SUFFICES ASSUME hasSynced(f, addEvents[f] + 1) PROVE AllDispatched(f)'
      OBVIOUS
    <3>2. Cardinality(Dispatched(f)') >= Cardinality(Listed(f)')
      BY <1>1, <2>1, <2>5, <3>1 DEF hasSynced, initialListCount, Listed, TypeOK
    <3> QED
      BY <2>7, <3>2, FiniteSelections, CountSuffices DEF AllDispatched
  <2>10. AllDispatched(f) => AllDispatched(f)'
    BY <2>1, <2>3 DEF AllDispatched
  <2>11. hand'[f] = {u} /\ refl'[f] = refl[f] /\ synced'[f] = synced[f]
    BY <1>1 DEF TypeOK
  <2> HIDE DEF u
  <2> QED
    BY <1>1, <1>3, <2>5, <2>7, <2>8, <2>9, <2>10, <2>11 DEF BootOf
<1> QED
  BY <1>2, <1>3

(* The handler reports a change or the deletion of an object that it has    *)
(* dispatched before.                                                       *)
LEMMA BootChange ==
  ASSUME TypeOK, NEW f \in Fields, NEW g \in Fields, BootOf(g), NEW k \in Keys,
         \/ \E v \in Versions : UpdateFunc(f, k, v)
         \/ DeleteFunc(f, k)
  PROVE  BootOf(g)'
<1>1. PICK w \in Versions0 \cup {Gone}, n \in Versions0 :
        /\ hand[f] = {} /\ FieldOf[k] = f /\ refl[f] = "watch" /\ seen[k] \in Versions
        /\ seen' = [seen EXCEPT ![k] = w] /\ w # 0
        /\ hand' = [hand EXCEPT ![f] = {[key |-> k, old |-> seen[k], new |-> n,
                                         synced |-> hasSynced(f, addEvents[f])]}]
        /\ UNCHANGED <<refl, listed, addEvents, synced>>
  <2>1. CASE DeleteFunc(f, k)
    <3>1. Gone # 0 /\ 0 \in Versions0 /\ Gone \in Versions0 \cup {Gone}
      BY VersionAssumption DEF Gone, Versions0, VersionAssumption
    <3> QED
      BY <2>1, <3>1 DEF DeleteFunc, store
  <2>2. CASE \E v \in Versions : UpdateFunc(f, k, v)
    <3>1. PICK v \in Versions : UpdateFunc(f, k, v)
      BY <2>2
    <3>2. v # 0 /\ v \in Versions0
      BY VersionAssumption DEF Versions, Versions0, VersionAssumption
    <3> QED
      BY <3>1, <3>2 DEF UpdateFunc, store
  <2> QED
    BY <2>1, <2>2
<1> DEFINE u == [key |-> k, old |-> seen[k], new |-> n, synced |-> hasSynced(f, addEvents[f])]
<1>2. CASE g # f
  <2>1. \A j \in ObjectsOf(g) : seen'[j] = seen[j]
    BY <1>1, <1>2 DEF ObjectsOf, TypeOK
  <2> QED
    BY <1>1, <1>2, <2>1, BootStays DEF TypeOK
<1>3. CASE g = f
  <2>1. Listed(f)' = Listed(f)
    BY <1>1 DEF Listed, ObjectsOf
  <2>2. seen[k] # 0
    BY <1>1, VersionAssumption DEF Versions, VersionAssumption
  <2>3. Dispatched(f)' = Dispatched(f)
    BY <1>1, <2>2 DEF Dispatched, ObjectsOf, TypeOK
  <2>4. u.key = k /\ (u.synced => AllDispatched(f))
    BY <1>3, SyncedMeansAll
  <2>5. hand'[f] = {u}
    BY <1>1 DEF TypeOK
  <2> HIDE DEF u
  <2> QED
    BY <1>1, <1>3, <2>1, <2>3, <2>4, <2>5 DEF BootOf, AllDispatched
<1> QED
  BY <1>2, <1>3

(* Listen takes an update: it is the only one of its query. *)
LEMMA BootReceive ==
  ASSUME TypeOK, NEW f \in Fields, NEW g \in Fields, BootOf(g),
         ReceiveEvent(f) \/ ReceiveSync(f)
  PROVE  BootOf(g)'
<1>1. UNCHANGED <<listed, addEvents, seen>>
  BY DEF ReceiveEvent, ReceiveSync, informer
<1>2. Listed(g)' = Listed(g) /\ Dispatched(g)' = Dispatched(g)
  BY <1>1 DEF Listed, Dispatched, ObjectsOf
<1>3. CASE ReceiveEvent(f)
  <2>1. PICK u \in hand[f] : storeUpdate(f, u) /\ hand' = [hand EXCEPT ![f] = @ \ {u}]
    BY <1>3 DEF ReceiveEvent
  <2>2. /\ synced' = [synced EXCEPT ![f] = synced[f] \/ u.synced] /\ refl' = refl
        /\ hand' = [hand EXCEPT ![f] = hand[f] \ {u}]
    BY <1>3, <2>1 DEF storeUpdate, ReceiveEvent, informer
  <2>3. CASE g # f
    BY <1>1, <2>2, <2>3, BootStays DEF TypeOK
  <2>4. CASE g = f
    <3>1. (synced'[f] <=> synced[f] \/ u.synced) /\ hand'[f] = hand[f] \ {u}
      BY <2>2 DEF TypeOK
    <3> QED
      BY <1>1, <1>2, <2>1, <2>2, <2>4, <3>1 DEF BootOf, AllDispatched
  <2> QED
    BY <2>3, <2>4
<1>4. CASE ReceiveSync(f)
  <2>1. /\ refl[f] = "sync" /\ refl' = [refl EXCEPT ![f] = "watch"]
        /\ synced' = [synced EXCEPT ![f] = TRUE] /\ hand' = hand
    BY <1>4 DEF ReceiveSync
  <2>2. CASE g # f
    BY <1>1, <2>1, <2>2, BootStays DEF TypeOK
  <2>3. CASE g = f
    <3>1. refl'[f] = "watch" /\ synced'[f]
      BY <2>1 DEF TypeOK
    <3> QED
      BY <1>1, <1>2, <2>1, <2>3, <3>1 DEF BootOf, AllDispatched
  <2> QED
    BY <2>2, <2>3
<1> QED
  BY <1>3, <1>4

(* Every step preserves the bootstrap invariant. *)
LEMMA BootStep ==
  ASSUME TypeOK, BootInv, [Next]_vars
  PROVE  BootInv'
<1>1. ASSUME NEW g \in Fields PROVE BootOf(g)'
  <2>0. BootOf(g)
    BY DEF BootInv
  <2>1. CASE \E f \in Fields : List(f) \/ Watch(f) \/ ReceiveEvent(f) \/ ReceiveSync(f)
    BY <2>0, <2>1, BootList, BootWatch, BootReceive
  <2>2. CASE \E f \in Fields : Handler(f)
    BY <2>0, <2>2, BootAdd, BootChange DEF Handler
  <2>3. CASE UNCHANGED <<informer, hand, synced>>
    BY <2>0, <2>3, BootStays DEF informer
  <2> QED
    BY <2>1, <2>2, <2>3 DEF Next, vars, store, RemoteWrite, RemoteDelete, LocalWrite, LocalGet,
       LocalDelete, LocalList, Tick, Changed, FilteredUpdate
<1>2. SentWhenSynced'
  <2>1. CASE \E f \in Fields : ReceiveEvent(f) \/ ReceiveSync(f)
    <3>1. PICK f \in Fields : ReceiveEvent(f) \/ ReceiveSync(f)
      BY <2>1
    <3>2. Dispatch /\ sentOnce' = sentOnce
      BY <3>1 DEF ReceiveEvent, ReceiveSync
    <3>3. \A g \in Fields : synced[g] => synced'[g]
      BY <3>1 DEF ReceiveEvent, ReceiveSync, storeUpdate, TypeOK
    <3> QED
      BY <3>2, <3>3 DEF BootInv, SentWhenSynced, AllSynced, Dispatch
  <2>2. CASE Tick \/ Changed
    BY <2>2 DEF Tick, Changed, BootInv, SentWhenSynced, AllSynced, store
  <2>3. CASE UNCHANGED <<listener, synced>>
    BY <2>3 DEF BootInv, SentWhenSynced, AllSynced, listener
  <2> QED
    BY <2>1, <2>2, <2>3 DEF Next, vars, store, RemoteWrite, RemoteDelete, LocalWrite, LocalGet,
       LocalDelete, LocalList, List, Watch, Handler, AddFunc, UpdateFunc, DeleteFunc,
       FilteredUpdate
<1> QED
  BY <1>1, <1>2 DEF BootInv

(* The bootstrap invariant holds in every reachable state. *)
THEOREM BootstrapInvariant == Spec => []BootInv
<1>1. Init => BootInv
  <2> SUFFICES ASSUME Init, NEW f \in Fields PROVE BootOf(f) /\ SentWhenSynced
    BY DEF BootInv, Init, SentWhenSynced
  <2>1. Listed(f) = {} /\ Dispatched(f) = {}
    BY DEF Init, Listed, Dispatched, ObjectsOf
  <2>2. Cardinality(Dispatched(f)) = 0
    BY <2>1, FS_EmptySet
  <2> QED
    BY <2>1, <2>2 DEF Init, BootOf, SentWhenSynced
<1>2. IInv /\ BootInv /\ [Next]_vars => BootInv'
  BY BootStep DEF IInv
<1> QED
  BY <1>1, <1>2, AccumulatorInvariant, PTL DEF Spec

(* By the time a notification is sent, every query has stored all the       *)
(* objects of its initial list but at most one, which its handler has       *)
(* counted and is about to send: whatever the number of queries and of      *)
(* objects, and however the reflectors, the handlers and Listen interleave. *)
THEOREM BootstrapAlmostComplete == Spec => []BootstrapMissesAtMostOne
<1>1. BootInv => BootstrapMissesAtMostOne
  <2> SUFFICES ASSUME BootInv, lpc = "sending" \/ sentOnce, NEW f \in Fields
               PROVE  Cardinality(Unloaded(f)) <= 1
    BY DEF BootstrapMissesAtMostOne
  <2>1. BootOf(f) /\ AllDispatched(f)
    BY DEF BootInv, SentWhenSynced, AllSynced, BootOf
  <2>2. \A k \in Unloaded(f) : \E u \in hand[f] : u.key = k
    BY <2>1 DEF Unloaded, AllDispatched, Listed, Dispatched
  <2>3. \A j, k \in Unloaded(f) : j = k
    BY <2>1, <2>2 DEF BootOf
  <2>4. CASE Unloaded(f) = {}
    BY <2>4, FS_EmptySet
  <2>5. CASE Unloaded(f) # {}
    <3>1. PICK k \in Unloaded(f) : TRUE
      BY <2>5
    <3>2. Unloaded(f) = {k}
      BY <2>3, <3>1
    <3>3. Cardinality({k}) = 1
      BY FS_Singleton, Zenon
    <3> QED
      BY <3>2, <3>3
  <2> QED
    BY <2>4, <2>5
<1> QED
  BY <1>1, BootstrapInvariant, PTL

-----------------------------------------------------------------------------
(* Versions on their way through the pipeline.  The handler's update of an  *)
(* object that the client only watches leads from what is stored to what    *)
(* the handler has observed; without one, the two agree.  What the consumer *)
(* has is no newer, and nothing is known of an object before its Add.       *)
Delivery(k) ==
  /\ \A u \in hand[FieldOf[k]] : u.key = k =>
       /\ values[k] = u.old
       /\ \/ u.new = seen[k] /\ u.new \in Versions /\ u.old <= u.new
          \/ u.new = 0 /\ seen[k] = Gone
  /\ (\A u \in hand[FieldOf[k]] : u.key # k) => values[k] = IF seen[k] = Gone THEN 0 ELSE seen[k]

InOrder(k) ==
  /\ canonical[k] = Untracked
  /\ Delivery(k)
  /\ snap[k] # 0 /\ values[k] # 0 => snap[k] <= values[k]
  /\ values[k] = 0 /\ seen[k] # Gone => snap[k] = 0 /\ told[k] = "none" /\ deltas[k] = "none"
  /\ told[k] = "delete" \/ deltas[k] = "delete" => seen[k] = Gone /\ values[k] = 0

OrderInv == \A k \in Keys \ LocalKeys : InOrder(k)

(* What AddFunc, UpdateFunc and DeleteFunc have in common: the handler of f *)
(* observes state w of x and takes an update of it in its hand.             *)
Takes(f, x, old, new, s, w) ==
  /\ hand[f] = {} /\ FieldOf[x] = f
  /\ \/ seen[x] = 0 /\ old = 0 /\ new \in Versions /\ w = new
     \/ seen[x] \in Versions /\ old = seen[x] /\ new \in Versions /\ old <= new /\ w = new
     \/ seen[x] \in Versions /\ old = seen[x] /\ new = 0 /\ w = Gone
  /\ seen' = [seen EXCEPT ![x] = w]
  /\ hand' = [hand EXCEPT ![f] = {[key |-> x, old |-> old, new |-> new, synced |-> s]}]
  /\ canonical' = canonical \/ canonical' = [canonical EXCEPT ![x] = Untracked]
  /\ UNCHANGED <<values, deltas, snap, told>>

(* The handler has sent what it had in its hand before it takes something   *)
(* else.                                                                    *)
LEMMA OrderHandler ==
  ASSUME IInv, NEW k \in Keys \ LocalKeys, InOrder(k), NEW f \in Fields, Handler(f)
  PROVE  InOrder(k)'
<1> USE VersionAssumption DEF VersionAssumption, Versions, Versions0, Gone
<1>0. /\ canonical \in [Keys -> Versions0 \cup {Untracked}] /\ seen \in [Keys -> Versions0 \cup {Gone}]
      /\ hand \in [Fields -> SUBSET RawUpdate] /\ FieldOf[k] \in Fields
  BY KeysAssumption DEF IInv, TypeOK, KeysAssumption
<1>1. PICK x \in Keys, old \in Versions0, new \in Versions0, s \in BOOLEAN,
           w \in Versions0 \cup {Gone} : Takes(f, x, old, new, s, w)
  <2>1. PICK x \in Keys : \/ \E v \in Versions : AddFunc(f, x, v) \/ UpdateFunc(f, x, v)
                          \/ DeleteFunc(f, x)
    BY DEF Handler
  <2>2. ASSUME NEW v \in Versions, AddFunc(f, x, v)
        PROVE  Takes(f, x, 0, v, hasSynced(f, addEvents[f] + 1), v)
    BY <2>2 DEF AddFunc, Takes, store, consumer
  <2>3. ASSUME NEW v \in Versions, UpdateFunc(f, x, v)
        PROVE  Takes(f, x, seen[x], v, hasSynced(f, addEvents[f]), v)
    BY <2>3 DEF UpdateFunc, Takes, store, consumer
  <2>4. ASSUME DeleteFunc(f, x)
        PROVE  Takes(f, x, seen[x], 0, hasSynced(f, addEvents[f]), Gone)
    BY <2>4 DEF DeleteFunc, Takes, store, consumer
  <2>5. seen[x] \in Versions => seen[x] \in Versions0
    OBVIOUS
  <2>6. \A c : hasSynced(f, c) \in BOOLEAN
    BY HasSyncedType
  <2> QED
    BY <2>1, <2>2, <2>3, <2>4, <2>5, <2>6 DEF UpdateFunc, DeleteFunc
<1> USE DEF Takes
<1>2. canonical'[k] = Untracked
  BY <1>0, <1>1 DEF InOrder
<1>3. CASE x = k
  <2> DEFINE u == [key |-> k, old |-> old, new |-> new, synced |-> s]
  <2>1. hand'[FieldOf[k]] = {u} /\ seen'[k] = w
    BY <1>0, <1>1, <1>3
  <2>2. values[k] = old /\ seen[k] # Gone /\ seen[k] = old
    BY <1>1, <1>3 DEF InOrder, Delivery
  <2>3. u.key = k /\ u.old = old /\ u.new = new
    OBVIOUS
  <2> HIDE DEF u
  <2>4. Delivery(k)'
    BY <1>1, <1>3, <2>1, <2>2, <2>3 DEF Delivery
  <2>5. (values[k] = 0 => snap[k] = 0 /\ told[k] = "none" /\ deltas[k] = "none")
        /\ told[k] # "delete" /\ deltas[k] # "delete"
    BY <2>2 DEF InOrder
  <2> QED
    BY <1>1, <1>2, <2>4, <2>5 DEF InOrder
<1>4. CASE x # k
  <2>1. seen'[k] = seen[k]
    BY <1>0, <1>1, <1>4
  <2>2. CASE FieldOf[k] # f
    <3>1. hand'[FieldOf[k]] = hand[FieldOf[k]]
      BY <1>0, <1>1, <2>2
    <3> QED
      BY <1>1, <1>2, <2>1, <3>1 DEF InOrder, Delivery
  <2>3. CASE FieldOf[k] = f
    <3>1. \A u \in hand'[FieldOf[k]] : u.key = x
      BY <1>0, <1>1, <2>3
    <3>2. hand[FieldOf[k]] = {}
      BY <1>1, <2>3
    <3> QED
      BY <1>1, <1>2, <1>4, <2>1, <3>1, <3>2 DEF InOrder, Delivery
  <2> QED
    BY <2>2, <2>3
<1> QED
  BY <1>3, <1>4

(* Listen stores the update: the next version, or the deletion. *)
LEMMA OrderReceive ==
  ASSUME IInv, BootInv, NEW k \in Keys \ LocalKeys, InOrder(k), NEW f \in Fields, ReceiveEvent(f)
  PROVE  InOrder(k)'
<1> USE VersionAssumption DEF VersionAssumption, Versions, Versions0, Gone
<1>0. /\ values \in [Keys -> Versions0] /\ deltas \in [Keys -> DeltaTypes]
      /\ snap \in [Keys -> Versions0] /\ seen \in [Keys -> Versions0 \cup {Gone}]
      /\ hand \in [Fields -> SUBSET RawUpdate] /\ FieldOf[k] \in Fields
  BY KeysAssumption DEF IInv, TypeOK, KeysAssumption
<1>1. PICK u \in hand[f] : storeUpdate(f, u) /\ hand' = [hand EXCEPT ![f] = @ \ {u}]
  BY DEF ReceiveEvent
<1>2. /\ u.key \in Keys /\ u.old \in Versions0 /\ u.new \in Versions0
      /\ FieldOf[u.key] = f /\ \A v \in hand[f] : v = u
  BY <1>0, <1>1 DEF RawUpdate, BootInv, BootOf
<1>3. /\ hand'[f] = {} /\ \A g \in Fields : g # f => hand'[g] = hand[g]
      /\ values' = [values EXCEPT ![u.key] = u.new]
      /\ deltas' = [deltas EXCEPT ![u.key] = StoredDelta(u)]
      /\ UNCHANGED <<canonical, seen, snap, told>>
  BY <1>0, <1>1, <1>2 DEF storeUpdate, ReceiveEvent, informer, consumer
<1>4. CASE u.key = k
  <2>1. /\ values'[k] = u.new /\ deltas'[k] = StoredDelta(u) /\ hand'[FieldOf[k]] = {}
        /\ values[k] = u.old
        /\ \/ u.new = seen[k] /\ u.new \in Versions /\ u.old <= u.new
           \/ u.new = 0 /\ seen[k] = Gone
    BY <1>0, <1>1, <1>2, <1>3, <1>4 DEF InOrder, Delivery
  <2>2. Delivery(k)'
    BY <1>3, <2>1 DEF Delivery
  <2>3. snap[k] # 0 /\ u.new # 0 => snap[k] <= u.new
    BY <1>0, <1>2, <2>1 DEF InOrder
  <2>4. deltas'[k] = "delete" => u.new = 0
    BY <1>4, <2>1 DEF StoredDelta, InOrder
  <2>5. told[k] = "delete" => u.new = 0
    BY <2>1 DEF InOrder
  <2> QED
    BY <1>3, <2>1, <2>2, <2>3, <2>4, <2>5 DEF InOrder
<1>5. CASE u.key # k
  <2>1. values'[k] = values[k] /\ deltas'[k] = deltas[k]
    BY <1>0, <1>3, <1>5
  <2>2. Delivery(k)'
    <3>1. CASE FieldOf[k] = f
      BY <1>2, <1>3, <1>5, <2>1, <3>1 DEF InOrder, Delivery
    <3>2. CASE FieldOf[k] # f
      BY <1>0, <1>3, <2>1, <3>2 DEF InOrder, Delivery
    <3> QED
      BY <3>1, <3>2
  <2> QED
    BY <1>3, <2>1, <2>2 DEF InOrder
<1> QED
  BY <1>4, <1>5

(* FilteredUpdate gives the consumer what is stored. *)
LEMMA OrderUpdate ==
  ASSUME IInv, NEW k \in Keys \ LocalKeys, InOrder(k), FilteredUpdate
  PROVE  /\ InOrder(k)'
         /\ snap[k] # 0 /\ snap'[k] # 0 => snap'[k] >= snap[k]
         /\ told[k] = "delete" => told'[k] = "delete"
<1> USE VersionAssumption DEF VersionAssumption, Versions, Versions0, Gone, Untracked
<1>0. /\ values[k] \in Versions0 /\ snap[k] \in Versions0 /\ canonical[k] = Untracked
      /\ deltas[k] \in DeltaTypes
  BY DEF IInv, TypeOK, InOrder
<1>1. PatchedValue(k) = values[k] /\ PatchedDelta(k) = deltas[k] /\ PatchedCanonical(k) = Untracked
  BY <1>0 DEF PatchedValue, PatchedDelta, PatchedCanonical
<1>2. /\ canonical'[k] = Untracked /\ values'[k] = values[k] /\ deltas'[k] = "none"
      /\ told'[k] = IF deltas[k] = "none" THEN told[k] ELSE deltas[k]
      /\ snap'[k] \in {snap[k], 0, values[k]}
      /\ UNCHANGED <<hand, seen>>
  BY <1>1 DEF FilteredUpdate, informer
<1>3. Delivery(k)'
  BY <1>2 DEF InOrder, Delivery
<1>4. snap'[k] # 0 /\ values[k] # 0 => snap'[k] <= values[k]
  BY <1>0, <1>2 DEF InOrder
<1>5. values[k] = 0 /\ seen[k] # Gone => snap'[k] = 0 /\ told'[k] = "none"
  BY <1>2 DEF InOrder
<1>6. told'[k] = "delete" => seen[k] = Gone /\ values[k] = 0
  BY <1>2 DEF InOrder
<1>7. InOrder(k)'
  BY <1>2, <1>3, <1>4, <1>5, <1>6 DEF InOrder
<1>8. snap[k] # 0 /\ snap'[k] # 0 => snap'[k] >= snap[k]
  BY <1>0, <1>2 DEF InOrder
<1>9. told[k] = "delete" => told'[k] = "delete"
  <2>1. told[k] = "delete" => deltas[k] \notin {"add", "update"}
    BY DEF InOrder, IInv, DeltasMatchStore
  <2> QED
    BY <1>0, <1>2, <2>1 DEF DeltaTypes
<1> QED
  BY <1>7, <1>8, <1>9

(* The steps that concern neither the handlers nor the store. *)
LEMMA OrderOther ==
  ASSUME IInv, NEW k \in Keys \ LocalKeys, InOrder(k),
         \/ \E x \in Keys : RemoteWrite(x) \/ RemoteDelete(x)
         \/ \E x \in Keys : LocalWrite(x) \/ LocalGet(x) \/ LocalDelete(x)
         \/ \E f \in Fields : LocalList(f)
         \/ \E f \in Fields : List(f) \/ Watch(f) \/ ReceiveSync(f)
         \/ Tick \/ Changed \/ UNCHANGED vars
  PROVE  InOrder(k)'
<1>1. UNCHANGED <<hand, seen, values, deltas, snap, told>>
  BY DEF RemoteWrite, RemoteDelete, LocalWrite, LocalGet, LocalDelete, LocalList, List, Watch,
         ReceiveSync, Tick, Changed, vars, informer, store, consumer
<1>2. canonical'[k] = canonical[k]
  BY DEF IInv, TypeOK, RemoteWrite, RemoteDelete, LocalWrite, LocalGet, LocalDelete, LocalList,
         List, Watch, ReceiveSync, Tick, Changed, vars
<1> QED
  BY <1>1, <1>2 DEF InOrder, Delivery

(* Of the objects that the client only watches, the consumer never sees an  *)
(* older version after a newer one, nor an object of whose deletion it has  *)
(* been told - although informers skip and repeat states, and notifications *)
(* are coalesced.                                                           *)
THEOREM VersionsMoveForward == Spec => NeverBackwards
<1>1. Init => OrderInv
  <2> SUFFICES ASSUME Init, NEW k \in Keys \ LocalKeys PROVE InOrder(k)
    BY DEF OrderInv
  <2>1. /\ values[k] = 0 /\ seen[k] = 0 /\ snap[k] = 0 /\ told[k] = "none" /\ deltas[k] = "none"
        /\ canonical[k] = Untracked /\ hand[FieldOf[k]] = {}
    BY KeysAssumption DEF Init, KeysAssumption
  <2> QED
    BY <2>1 DEF InOrder, Delivery, Gone
<1>2. IInv /\ BootInv /\ OrderInv /\ [Next]_vars => OrderInv'
  <2> SUFFICES ASSUME IInv, BootInv, OrderInv, [Next]_vars, NEW k \in Keys \ LocalKeys
               PROVE  InOrder(k)'
    BY DEF OrderInv
  <2>1. InOrder(k)
    BY DEF OrderInv
  <2> QED
    BY <2>1, OrderHandler, OrderReceive, OrderUpdate, OrderOther DEF Next
<1>3. ASSUME IInv, OrderInv, [Next]_vars
      PROVE  \A k \in Keys \ LocalKeys :
               /\ snap[k] # 0 /\ snap'[k] # 0 => snap'[k] >= snap[k]
               /\ told[k] = "delete" => told'[k] = "delete"
  <2>1. CASE FilteredUpdate
    BY <1>3, <2>1, OrderUpdate DEF OrderInv
  <2>2. CASE UNCHANGED <<snap, told>>
    <3>1. \A k \in Keys : snap[k] >= snap[k]
      BY <1>3 DEF IInv, TypeOK, Versions0
    <3> QED
      BY <2>2, <3>1
  <2> QED
    BY <1>3, <2>1, <2>2 DEF Next, vars, consumer, RemoteWrite, RemoteDelete, LocalWrite, LocalGet,
       LocalDelete, LocalList, List, Watch, Handler, AddFunc, UpdateFunc, DeleteFunc,
       ReceiveEvent, ReceiveSync, Tick, Changed
<1> QED
  BY <1>1, <1>2, <1>3, AccumulatorInvariant, BootstrapInvariant, PTL DEF Spec, NeverBackwards
=============================================================================
