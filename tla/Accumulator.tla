---------------------------- MODULE Accumulator ----------------------------
(***************************************************************************)
(* The kates watch pipeline (pkg/kates): an API server, one shared informer *)
(* per watched query (reflector goroutine and handler goroutine), the raw   *)
(* update channel, Accumulator.Listen with its coalescing of notifications, *)
(* the client's `canonical` map of its own writes, and the consumer that    *)
(* receives from Changed() and calls FilteredUpdate.                        *)
(*                                                                          *)
(* Objects are keyed by UID (unKey), so a key lives once: it is created,    *)
(* goes through versions 1, 2, ... and is deleted for good.  The contents   *)
(* of an object are its resource version; version 0 stands for "no such     *)
(* object" wherever the code has an absent map entry or a nil pointer.      *)
(***************************************************************************)
EXTENDS Integers, FiniteSets

CONSTANTS Fields,      \* the queries of the Accumulator, by Query.Name
          Keys,        \* the object UIDs
          FieldOf,     \* the query that selects each object
          MaxVersion,  \* bound: the last version an object can get
          Forbidden,   \* the queries that RBAC does not let the client list
          Rejected,    \* the <<key, version>> pairs the predicate rejects
          LocalKeys    \* the objects this client itself reads or writes

ASSUME FieldsAssumption == IsFiniteSet(Fields) /\ Fields # {}
ASSUME KeysAssumption == IsFiniteSet(Keys) /\ FieldOf \in [Keys -> Fields]
ASSUME VersionAssumption == MaxVersion \in Nat \ {0}
ASSUME ForbiddenAssumption == Forbidden \subseteq Fields
ASSUME LocalAssumption == LocalKeys \subseteq Keys

VARIABLES
  last,        \* API server: last version written, 0 before the creation
  gone,        \* API server: the object has been deleted
  refl,        \* pc of each reflector: "list", "call", "sync", "watch"
  listed,      \* version each object had in its query's initial list, 0 if none
  addEvents,   \* lw.addEventCount
  seen,        \* version the handler goroutine last observed; Gone once deleted
  hand,        \* the rawUpdate a handler is blocked on sending, as a set
  lpc,         \* pc of Listen: "select" or "sending" (blocked on a.changed)
  status,      \* changeStatus of Listen
  sentOnce,    \* lastChangeSent is no longer the zero time
  values,      \* field.values
  deltas,      \* field.deltas
  synced,      \* field.synced
  first,       \* field.firstUpdate
  excluded,    \* Accumulator.excluded
  canonical,   \* Client.canonical
  cpc,         \* pc of the consumer: "idle" or "update"
  snap,        \* the consumer's target: version of each object in it
  told,        \* the last delta about each object handed to the consumer
  mine         \* history: the last version this client wrote, Gone if deleted

server    == <<last, gone>>
informer  == <<refl, listed, addEvents, seen>>
listener  == <<lpc, status, sentOnce>>
store     == <<values, deltas, synced, first, excluded>>
consumer  == <<cpc, snap, told>>
vars == <<server, informer, hand, listener, store, canonical, consumer, mine>>

-----------------------------------------------------------------------------
Gone       == -1          \* in `seen` and `mine`: the object has been deleted
Untracked  == -1          \* in `canonical`: no entry (0 is a nil entry)
Versions   == 1 .. MaxVersion
Versions0  == 0 .. MaxVersion
DeltaTypes == {"none", "add", "update", "delete"}
RawUpdate  == [key : Keys, old : Versions0, new : Versions0, synced : BOOLEAN]

ObjectsOf(f) == {k \in Keys : FieldOf[k] = f}
Alive(k) == last[k] # 0 /\ ~gone[k]

(* Mutant: synced as soon as the list is done, whatever has been dispatched. *)
hasSynced_ListOnly(f, count) == refl[f] # "list"

(* lw.initialListCount and lw.hasSynced, for a given count of Add events. *)
initialListCount(f) == Cardinality({k \in ObjectsOf(f) : listed[k] # 0})
hasSynced(f, count) == refl[f] # "list" /\ count >= initialListCount(f)
AllSynced == \A f \in Fields : synced[f]

TypeOK ==
  /\ last \in [Keys -> Versions0]
  /\ gone \in [Keys -> BOOLEAN]
  /\ refl \in [Fields -> {"list", "call", "sync", "watch"}]
  /\ listed \in [Keys -> Versions0]
  /\ addEvents \in [Fields -> Nat]
  /\ seen \in [Keys -> Versions0 \cup {Gone}]
  /\ hand \in [Fields -> SUBSET RawUpdate]
  /\ lpc \in {"select", "sending"}
  /\ status \in {"awaiting", "dispatched"}
  /\ sentOnce \in BOOLEAN
  /\ values \in [Keys -> Versions0]
  /\ deltas \in [Keys -> DeltaTypes]
  /\ synced \in [Fields -> BOOLEAN]
  /\ first \in [Fields -> BOOLEAN]
  /\ excluded \in [Keys -> BOOLEAN]
  /\ canonical \in [Keys -> Versions0 \cup {Untracked}]
  /\ cpc \in {"idle", "update"}
  /\ snap \in [Keys -> Versions0]
  /\ told \in [Keys -> DeltaTypes]
  /\ mine \in [Keys -> Versions0 \cup {Gone}]

(* newAccumulator: nothing is listed yet; any objects may pre-exist. *)
Init ==
  /\ last \in [Keys -> 0 .. 1]
  /\ gone = [k \in Keys |-> FALSE]
  /\ refl = [f \in Fields |-> "list"]
  /\ listed = [k \in Keys |-> 0]
  /\ addEvents = [f \in Fields |-> 0]
  /\ seen = [k \in Keys |-> 0]
  /\ hand = [f \in Fields |-> {}]
  /\ lpc = "select" /\ status = "awaiting" /\ sentOnce = FALSE
  /\ values = [k \in Keys |-> 0]
  /\ deltas = [k \in Keys |-> "none"]
  /\ synced = [f \in Fields |-> FALSE]
  /\ first = [f \in Fields |-> FALSE]
  /\ excluded = [k \in Keys |-> FALSE]
  /\ canonical = [k \in Keys |-> Untracked]
  /\ cpc = "idle"
  /\ snap = [k \in Keys |-> 0]
  /\ told = [k \in Keys |-> "none"]
  /\ mine = [k \in Keys |-> 0]

-----------------------------------------------------------------------------
(* Other clients of the API server. *)
RemoteWrite(k) ==
  /\ ~gone[k] /\ last[k] < MaxVersion
  /\ last' = [last EXCEPT ![k] = @ + 1]
  /\ UNCHANGED <<gone, informer, hand, listener, store, canonical, consumer, mine>>

RemoteDelete(k) ==
  /\ Alive(k)
  /\ gone' = [gone EXCEPT ![k] = TRUE]
  /\ UNCHANGED <<last, informer, hand, listener, store, canonical, consumer, mine>>

(* Client.Create, and the writes Update, Patch, Upsert and UpdateStatus:    *)
(* each holds c.mutex over the API call and records the result.             *)
LocalWrite(k) ==
  /\ k \in LocalKeys
  /\ ~gone[k] /\ last[k] < MaxVersion
  /\ last' = [last EXCEPT ![k] = @ + 1]
  /\ canonical' = [canonical EXCEPT ![k] = last[k] + 1]
  /\ mine' = [mine EXCEPT ![k] = last[k] + 1]
  /\ UNCHANGED <<gone, informer, hand, listener, store, consumer>>

(* Client.Get records what it read. *)
LocalGet(k) ==
  /\ k \in LocalKeys
  /\ Alive(k)
  /\ canonical' = [canonical EXCEPT ![k] = last[k]]
  /\ UNCHANGED <<server, informer, hand, listener, store, consumer, mine>>

(* Client.List records every object the server returned for its selectors. *)
LocalList(f) ==
  /\ \E k \in ObjectsOf(f) \cap LocalKeys : Alive(k)
  /\ canonical' = [k \in Keys |-> IF k \in ObjectsOf(f) \cap LocalKeys /\ Alive(k)
                                  THEN last[k] ELSE canonical[k]]
  /\ UNCHANGED <<server, informer, hand, listener, store, consumer, mine>>

(* Client.Delete leaves a nil entry until the watch reports the deletion. *)
LocalDelete(k) ==
  /\ k \in LocalKeys
  /\ Alive(k)
  /\ gone' = [gone EXCEPT ![k] = TRUE]
  /\ canonical' = [canonical EXCEPT ![k] = 0]
  /\ mine' = [mine EXCEPT ![k] = Gone]
  /\ UNCHANGED <<last, informer, hand, listener, store, consumer>>

-----------------------------------------------------------------------------
(* Reflector goroutine of query f.  A forbidden list counts as an empty one. *)
List(f) ==
  /\ refl[f] = "list"
  /\ refl' = [refl EXCEPT ![f] = "call"]
  /\ listed' = [k \in Keys |->
                  IF FieldOf[k] # f THEN listed[k]
                  ELSE IF f \notin Forbidden /\ Alive(k) THEN last[k] ELSE 0]
  /\ UNCHANGED <<server, addEvents, seen, hand, listener, store, canonical, consumer, mine>>

(* lw.Watch runs the synced callback once, before it opens the watch. *)
Watch(f) ==
  /\ refl[f] = "call"
  /\ refl' = [refl EXCEPT ![f] = IF hasSynced(f, addEvents[f]) THEN "sync" ELSE "watch"]
  /\ UNCHANGED <<server, listed, addEvents, seen, hand, listener, store, canonical, consumer, mine>>

-----------------------------------------------------------------------------
(* Handler goroutine of query f.  An informer delivers the objects of its   *)
(* initial list first; later it delivers what the watch reports, and it may *)
(* skip states of an object when the watch expires and is listed anew.  It  *)
(* redelivers a known object at every resync.  Each handler ends blocked on *)
(* the unbuffered rawUpdate channel.                                        *)
Observable(f, k) ==
  IF listed[k] # 0
  THEN {listed[k]}
  ELSE IF /\ refl[f] = "watch" /\ f \notin Forbidden
          /\ \A j \in ObjectsOf(f) : listed[j] # 0 => seen[j] # 0
       THEN 1 .. last[k] ELSE {}

AddFunc(f, k, v) ==
  /\ hand[f] = {} /\ FieldOf[k] = f /\ seen[k] = 0
  /\ v \in Observable(f, k)
  /\ seen' = [seen EXCEPT ![k] = v]
  /\ addEvents' = [addEvents EXCEPT ![f] = @ + 1]
  /\ hand' = [hand EXCEPT ![f] =
       {[key |-> k, old |-> 0, new |-> v, synced |-> hasSynced(f, addEvents[f] + 1)]}]
  /\ UNCHANGED <<server, refl, listed, listener, store, canonical, consumer, mine>>

(* Mutant: each update is sent from a goroutine of its own. *)
UpdateFunc_Async(f, k, v) ==
  /\ FieldOf[k] = f /\ refl[f] = "watch"
  /\ seen[k] \in Versions /\ v \in seen[k] .. last[k]
  /\ seen' = [seen EXCEPT ![k] = v]
  /\ hand' = [hand EXCEPT ![f] = @ \cup
       {[key |-> k, old |-> seen[k], new |-> v, synced |-> hasSynced(f, addEvents[f])]}]
  /\ UNCHANGED <<server, refl, listed, addEvents, listener, store, canonical, consumer, mine>>

UpdateFunc(f, k, v) ==
  /\ hand[f] = {} /\ FieldOf[k] = f /\ refl[f] = "watch"
  /\ seen[k] \in Versions /\ v \in seen[k] .. last[k]
  /\ seen' = [seen EXCEPT ![k] = v]
  /\ hand' = [hand EXCEPT ![f] =
       {[key |-> k, old |-> seen[k], new |-> v, synced |-> hasSynced(f, addEvents[f])]}]
  /\ UNCHANGED <<server, refl, listed, addEvents, listener, store, canonical, consumer, mine>>

DeleteFunc(f, k) ==
  /\ hand[f] = {} /\ FieldOf[k] = f /\ refl[f] = "watch"
  /\ seen[k] \in Versions /\ gone[k]
  /\ seen' = [seen EXCEPT ![k] = Gone]
  /\ canonical' = [canonical EXCEPT ![k] = Untracked]
  /\ hand' = [hand EXCEPT ![f] =
       {[key |-> k, old |-> seen[k], new |-> 0, synced |-> hasSynced(f, addEvents[f])]}]
  /\ UNCHANGED <<server, refl, listed, addEvents, listener, store, consumer, mine>>

(* Mutant: a pending delta is not replaced. *)
StoredDelta_KeepFirst(u) ==
  IF deltas[u.key] # "none" THEN deltas[u.key]
  ELSE IF u.new # 0
  THEN IF values[u.key] = u.new THEN "none"
       ELSE IF u.old = 0 THEN "add" ELSE "update"
  ELSE IF values[u.key] = 0 THEN "none" ELSE "delete"

-----------------------------------------------------------------------------
(* Accumulator.storeUpdate: the new value of an object and its delta.  No   *)
(* delta when a patch has already delivered the change.                     *)
StoredDelta(u) ==
  IF u.new # 0
  THEN IF values[u.key] = u.new THEN deltas[u.key]
       ELSE IF u.old = 0 THEN "add" ELSE "update"
  ELSE IF values[u.key] = 0 THEN deltas[u.key] ELSE "delete"

storeUpdate(f, u) ==
  /\ values' = [values EXCEPT ![u.key] = u.new]
  /\ deltas' = [deltas EXCEPT ![u.key] = StoredDelta(u)]
  /\ synced' = [synced EXCEPT ![f] = @ \/ u.synced]

(* Mutant: a change that comes too soon is not marked as awaiting dispatch. *)
Dispatch_Forget ==
  \/ /\ \A f \in Fields : synced'[f]
     /\ lpc' = "sending" /\ status' = status
  \/ /\ sentOnce \/ \E f \in Fields : ~synced'[f]
     /\ lpc' = lpc /\ status' = status

(* The tail of Listen's receive case: send at once when the interval has    *)
(* passed since the last send (always true before the first), else wait for *)
(* the ticker.                                                              *)
Dispatch ==
  \/ /\ \A f \in Fields : synced'[f]
     /\ lpc' = "sending" /\ status' = status
  \/ /\ sentOnce \/ \E f \in Fields : ~synced'[f]
     /\ lpc' = lpc /\ status' = "awaiting"

ReceiveEvent(f) ==
  /\ lpc = "select"
  /\ \E u \in hand[f] : /\ storeUpdate(f, u)
                        /\ hand' = [hand EXCEPT ![f] = @ \ {u}]
  /\ Dispatch
  /\ UNCHANGED <<server, informer, sentOnce, first, excluded, canonical, consumer, mine>>

(* The reflector's own {synced: true, old: nil, new: nil} update. *)
ReceiveSync(f) ==
  /\ lpc = "select" /\ refl[f] = "sync"
  /\ refl' = [refl EXCEPT ![f] = "watch"]
  /\ synced' = [synced EXCEPT ![f] = TRUE]
  /\ Dispatch
  /\ UNCHANGED <<server, listed, addEvents, seen, hand, sentOnce, values, deltas,
                 first, excluded, canonical, consumer, mine>>

Tick ==
  /\ lpc = "select" /\ AllSynced /\ status = "awaiting"
  /\ lpc' = "sending"
  /\ UNCHANGED <<server, informer, hand, status, sentOnce, store, canonical, consumer, mine>>

-----------------------------------------------------------------------------
(* The consumer receives from Changed(), which also releases Listen. *)
Changed ==
  /\ lpc = "sending" /\ cpc = "idle"
  /\ lpc' = "select" /\ status' = "dispatched" /\ sentOnce' = TRUE
  /\ cpc' = "update"
  /\ UNCHANGED <<server, informer, hand, store, canonical, snap, told, mine>>

(* Client.patchWatch on one object: value, delta and canonical entry after. *)
PatchedValue(k) ==
  IF values[k] # 0
  THEN IF canonical[k] = 0 THEN 0
       ELSE IF canonical[k] > values[k] THEN canonical[k] ELSE values[k]
  ELSE IF canonical[k] > 0 THEN canonical[k] ELSE 0

(* Mutant: an object patched to a newer version gets no delta. *)
PatchedDelta_NoUpdate(k) ==
  IF values[k] # 0
  THEN IF canonical[k] = 0 THEN "delete" ELSE deltas[k]
  ELSE IF canonical[k] > 0 THEN "add" ELSE deltas[k]

(* Mutant: an object patched away gets no delta. *)
PatchedDelta_NoDelete(k) ==
  IF values[k] # 0
  THEN IF canonical[k] > values[k] THEN "update" ELSE deltas[k]
  ELSE IF canonical[k] > 0 THEN "add" ELSE deltas[k]

PatchedDelta(k) ==
  IF values[k] # 0
  THEN IF canonical[k] = 0 THEN "delete"
       ELSE IF canonical[k] > values[k] THEN "update" ELSE deltas[k]
  ELSE IF canonical[k] > 0 THEN "add" ELSE deltas[k]

PatchedCanonical(k) ==
  IF values[k] # 0 /\ canonical[k] > 0 /\ values[k] >= canonical[k]
  THEN Untracked ELSE canonical[k]

(* Accumulator.updateField: is the field of k handed to the consumer, and   *)
(* is k then excluded from it?  The predicate runs on added and updated     *)
(* objects only.                                                            *)
FieldUpdated(f) == ~first[f] \/ \E k \in ObjectsOf(f) : PatchedDelta(k) # "none"

ExcludedAfter(k) ==
  \/ PatchedDelta(k) = "none" /\ excluded[k]
  \/ PatchedDelta(k) \in {"add", "update"} /\ <<k, PatchedValue(k)>> \in Rejected

FilteredUpdate ==
  /\ cpc = "update"
  /\ cpc' = "idle"
  /\ canonical' = [k \in Keys |-> PatchedCanonical(k)]
  /\ values' = [k \in Keys |-> PatchedValue(k)]
  /\ first' = [f \in Fields |-> TRUE]
  /\ deltas' = [k \in Keys |-> "none"]
  /\ excluded' = [k \in Keys |-> ExcludedAfter(k)]
  /\ snap' = [k \in Keys |->
                IF ~FieldUpdated(FieldOf[k]) THEN snap[k]
                ELSE IF ExcludedAfter(k) THEN 0 ELSE PatchedValue(k)]
  /\ told' = [k \in Keys |-> IF PatchedDelta(k) = "none" THEN told[k] ELSE PatchedDelta(k)]
  /\ UNCHANGED <<server, informer, hand, listener, synced, mine>>

-----------------------------------------------------------------------------
Handler(f) == \E k \in Keys : \/ \E v \in Versions : AddFunc(f, k, v) \/ UpdateFunc(f, k, v)
                              \/ DeleteFunc(f, k)

Next ==
  \/ \E k \in Keys : RemoteWrite(k) \/ RemoteDelete(k)
  \/ \E k \in Keys : LocalWrite(k) \/ LocalGet(k) \/ LocalDelete(k)
  \/ \E f \in Fields : LocalList(f)
  \/ \E f \in Fields : List(f) \/ Watch(f) \/ Handler(f)
  \/ \E f \in Fields : ReceiveEvent(f) \/ ReceiveSync(f)
  \/ Tick \/ Changed \/ FilteredUpdate

Spec == Init /\ [][Next]_vars

(* Every goroutine of the pipeline keeps running: the reflectors, the       *)
(* handlers (which must get to each object, not just resync one of them),   *)
(* Listen's select over its channels, and the consumer.  Nobody has to      *)
(* write objects.                                                           *)
CatchUp(f, k) ==
  /\ seen[k] # last[k]
  /\ ~gone[k] \/ listed[k] # 0
  /\ AddFunc(f, k, listed[k]) \/ AddFunc(f, k, last[k]) \/ UpdateFunc(f, k, last[k])

Fairness ==
  /\ \A f \in Fields : WF_vars(List(f)) /\ WF_vars(Watch(f))
  /\ \A k \in Keys : SF_vars(CatchUp(FieldOf[k], k)) /\ SF_vars(DeleteFunc(FieldOf[k], k))
  /\ \A f \in Fields : SF_vars(ReceiveEvent(f)) /\ SF_vars(ReceiveSync(f))
  /\ WF_vars(Tick) /\ WF_vars(Changed) /\ WF_vars(FilteredUpdate)

FairSpec == Spec /\ Fairness

-----------------------------------------------------------------------------
(* What the consumer should end up with for object k. *)
Desired(k) ==
  IF FieldOf[k] \notin Forbidden /\ Alive(k) /\ <<k, last[k]>> \notin Rejected
  THEN last[k] ELSE 0

(* Objects of query f's initial list whose Add has not been stored. *)
Unloaded(f) == {k \in ObjectsOf(f) :
                  /\ listed[k] # 0
                  /\ seen[k] = 0 \/ \E u \in hand[f] : u.key = k /\ u.old = 0}

(* No change is lost between storeUpdate, patchWatch and updateField: an    *)
(* object without a pending delta is in the consumer's snapshot exactly as  *)
(* it is stored, unless the predicate excluded it.  updateField skips a     *)
(* field that has no delta, so a store without its delta would hide the     *)
(* change for good.                                                         *)
NoChangeLost ==
  \A k \in Keys : deltas[k] = "none" =>
     snap[k] = IF excluded[k] THEN 0 ELSE values[k]

(* An add or update delta always has a stored object behind it, so          *)
(* updateField never runs the predicate on nil, and a delete delta never    *)
(* has one.                                                                 *)
DeltasMatchStore ==
  \A k \in Keys : /\ deltas[k] \in {"add", "update"} => values[k] # 0
                  /\ deltas[k] = "delete" => values[k] = 0

(* A consumer that follows only the deltas it was handed agrees with its    *)
(* snapshot on which objects exist, and it never holds a version that the   *)
(* predicate rejects.                                                       *)
DeltasExplainSnapshot ==
  \A k \in Keys : /\ snap[k] # 0 => told[k] \in {"add", "update"}
                  /\ snap[k] # 0 => <<k, snap[k]>> \notin Rejected
                  /\ told[k] \in {"add", "update"} => snap[k] # 0 \/ excluded[k]

(* Bootstrap of a Kind as hasSynced implements it: by the time a            *)
(* notification is sent, every query has stored all the objects of its      *)
(* initial list but at most one, the one its handler has counted and is     *)
(* about to send.  (accumulator.go:39 promises that it has stored them all.) *)
BootstrapMissesAtMostOne ==
  lpc = "sending" \/ sentOnce => \A f \in Fields : Cardinality(Unloaded(f)) <= 1

(* Of the objects it only watches, the consumer never sees an older version *)
(* after a newer one, nor an object whose deletion it has been told.        *)
NeverBackwards ==
  [][\A k \in Keys \ LocalKeys :
       /\ snap[k] # 0 /\ snap'[k] # 0 => snap'[k] >= snap[k]
       /\ told[k] = "delete" => told'[k] = "delete"]_vars

(* patchWatch: "This guarantees we never give back stale objects that are   *)
(* known to be modified by us": what FilteredUpdate returns for an object   *)
(* this client wrote is not older than that write, and an object this       *)
(* client deleted is not returned.                                          *)
LocalChangesVisible ==
  [][FilteredUpdate => \A k \in Keys :
        /\ snap'[k] # 0 /\ ~gone[k] => snap'[k] >= mine[k]
        /\ mine[k] = Gone => snap'[k] = 0]_vars

(* Once writes stop, the consumer's snapshot becomes and stays what the API *)
(* server holds: coalescing, the ticker and the bootstrap never strand a    *)
(* change in the accumulator.                                               *)
EventuallyConsistent == \A k \in Keys : <>[](snap[k] = Desired(k))
=============================================================================
