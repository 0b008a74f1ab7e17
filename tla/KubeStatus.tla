----------------------------- MODULE KubeStatus -----------------------------
(***************************************************************************)
(* diagd's KubeStatus: the statuses of Mappings and Ingresses that a       *)
(* reconfiguration wants written, what was already asked for, and the pool *)
(* of processes that run the kubestatus command.                           *)
(*                                                                         *)
(* An object is known by its key, kind/name.namespace; a snapshot maps the *)
(* objects that exist to the statuses that k8s_status_updates wants.       *)
(***************************************************************************)
EXTENDS Integers, Sequences, FiniteSets, SequencesExt

CONSTANTS Objects,     \* keys of objects whose status diagd writes
          Marked,      \* those that mark_live names: the Mappings
          Texts,       \* statuses
          Workers,     \* processes of the pool
          MaxPool,     \* bound: updates that wait or run
          MaxFailures  \* bound: updates that fail

NoStatus == "no status"
Absent   == "absent"

ASSUME ObjectAssumption == IsFiniteSet(Objects)
ASSUME MarkedAssumption == Marked \subseteq Objects
ASSUME TextAssumption   == NoStatus \notin Texts /\ Absent \notin Texts
ASSUME WorkerAssumption == Workers \in Nat \ {0} /\ MaxPool \in Nat /\ MaxFailures \in Nat

VARIABLES
  world,           \* the API server: what diagd would make of each object, or Absent
  status,          \* the API server: each object's status
  current_status,  \* what KubeStatus has asked for, or NoStatus
  pool,            \* updates submitted, in order, and not finished
  failures,        \* updates that failed
  seen,            \* history: the objects of the last snapshot that got here
  excused          \* history: objects whose last update failed, was overtaken
                   \* or went to an object that was replaced unnoticed

kubeVars == <<world, status, current_status, pool, failures, seen, excused>>

KubeTypeOK ==
  /\ world \in [Objects -> Texts \cup {Absent}]
  /\ status \in [Objects -> Texts \cup {NoStatus}]
  /\ current_status \in [Objects -> Texts \cup {NoStatus}]
  /\ pool \in Seq([key : Objects, text : Texts])
  /\ Len(pool) <= MaxPool
  /\ failures \in 0 .. MaxFailures
  /\ seen \subseteq Objects /\ excused \subseteq Objects

KubeInit ==
  /\ world \in [Objects -> Texts \cup {Absent}]
  /\ status = [o \in Objects |-> NoStatus]
  /\ current_status = [o \in Objects |-> NoStatus]
  /\ pool = <<>>
  /\ failures = 0
  /\ seen = {} /\ excused = {}

Live(snap) == {o \in Objects : snap[o] # Absent}

-----------------------------------------------------------------------------
(* Mutant: what was asked for is remembered although the object has gone. *)
prune_Never(cur, snap) == cur

(* mark_live and prune: what was asked for an object is forgotten unless    *)
(* the snapshot marks it live.  Ingresses are never marked.                 *)
prune(cur, snap) ==
  [o \in Objects |-> IF o \in Marked \cap Live(snap) THEN cur[o] ELSE NoStatus]

(* post: an update is submitted unless the same one was asked for before;   *)
(* it is assumed to work.                                                   *)
Todo(snap) == {o \in Live(snap) : prune(current_status, snap)[o] # snap[o]}

post(snap, done) ==
  /\ current_status' = [o \in Objects |-> IF o \in done THEN snap[o]
                                           ELSE prune(current_status, snap)[o]]
  /\ seen' = Live(snap)
  /\ UNCHANGED <<world, status, failures>>

(* The end of _load_ir, with the statuses in some order of their names.     *)
PostStatuses(snap) ==
  LET todo == SetToSeq(Todo(snap))
  IN  /\ Len(pool) + Len(todo) <= MaxPool
      /\ post(snap, Todo(snap))
      /\ pool' = pool \o [i \in DOMAIN todo |-> [key |-> todo[i], text |-> snap[todo[i]]]]
      /\ excused' = excused \ Todo(snap)

(* The pool is broken: the first update is remembered and not submitted.    *)
PostFails(snap) ==
  \E o \in Todo(snap) :
    /\ post(snap, {o})
    /\ excused' = excused \cup {o}
    /\ UNCHANGED pool

-----------------------------------------------------------------------------
(* kubestatus_update: the pool starts updates in order but runs several at  *)
(* a time, so any of the first may finish first.                            *)
Running == 1 .. (IF Len(pool) < Workers THEN Len(pool) ELSE Workers)

Overtakes(i) == \E j \in 1 .. i - 1 : pool[j].key = pool[i].key

Update(i) ==
  LET u == pool[i]
  IN  /\ world[u.key] # Absent
      /\ status' = [status EXCEPT ![u.key] = u.text]
      /\ pool' = RemoveAt(pool, i)
      /\ excused' = IF Overtakes(i) THEN excused \cup {u.key} ELSE excused
      /\ UNCHANGED <<world, current_status, failures, seen>>

(* The command fails, times out, or finds no object; nobody looks at the    *)
(* result (kubestatus_update_done).                                         *)
UpdateFails(i) ==
  LET u == pool[i]
  IN  /\ world[u.key] = Absent \/ failures < MaxFailures
      /\ failures' = IF world[u.key] = Absent THEN failures ELSE failures + 1
      /\ pool' = RemoveAt(pool, i)
      /\ excused' = excused \cup {u.key}
      /\ UNCHANGED <<world, status, current_status, seen>>

KubeWorker == \E i \in Running : Update(i) \/ UpdateFails(i)

(* A user creates, changes or deletes an object.  One that is created again *)
(* before diagd has seen that it was gone has been replaced without diagd   *)
(* noticing.                                                                *)
Edit(o, t) ==
  /\ t # world[o]
  /\ world' = [world EXCEPT ![o] = t]
  /\ status' = IF t = Absent THEN [status EXCEPT ![o] = NoStatus] ELSE status
  /\ excused' = IF world[o] = Absent /\ o \in seen THEN excused \cup {o} ELSE excused
  /\ UNCHANGED <<current_status, pool, failures, seen>>

(* When nothing is left to do for an object, it has the status that diagd   *)
(* believes to have written, unless an update failed, two updates of it     *)
(* were run out of order, or it was replaced between two snapshots.         *)
StatusReflected ==
  \A o \in Objects \ excused :
    (/\ world[o] # Absent /\ current_status[o] # NoStatus
     /\ \A i \in DOMAIN pool : pool[i].key # o) => status[o] = current_status[o]
=============================================================================
