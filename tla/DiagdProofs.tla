---------------------------- MODULE DiagdProofs ----------------------------
(***************************************************************************)
(* What the threads of diagd rely on, for any number of web threads and    *)
(* reconfigurations: ambex gets what diagd installs, and diagnostics never *)
(* go back to those of an older configuration.  Then, for any objects,     *)
(* statuses, pool and number of reconfigurations: the state of diagd stays *)
(* within its types and bounds, a poster never has two events in the       *)
(* queue, and an object has the status that KubeStatus believes to have    *)
(* written unless one of the named accidents happened.                     *)
(***************************************************************************)
EXTENDS Diagd, FiniteSetTheorems, SequenceTheorems, TLAPS

WebSteps == {"idle", "check", "lock", "ir", "econf", "store", "return"}

(* The versions that the proof compares. *)
Types ==
  /\ loads \in Nat /\ ads \in Nat /\ newest \in Nat
  /\ DOMAIN aew = {"pc", "from", "ver", "kind", "snap", "tries"} /\ aew.ver \in Nat
  /\ app \in [ir : Nat, econf : Nat, diag : [ir : Nat, econf : Nat]]
  /\ ambex \in [hup : BOOLEAN, loaded : Nat]
  /\ web \in [Handlers -> [pc : WebSteps, ir : Nat, econf : Nat]]

(* Where a reconfiguration is, between renaming the ADS configuration and   *)
(* signalling it.                                                           *)
Loading   == {"load", "validate", "write"}
Written   == {"clustermap", "econf", "diag", "signal", "status", "finish"}
Installed == {"econf", "diag", "signal"}

(* Versions only grow on their way from the event watcher to the disk and   *)
(* to app, and a configuration that is installed is signalled or about to   *)
(* be.                                                                      *)
Handover ==
  /\ app.ir <= ads /\ ads <= loads
  /\ aew.pc \in Loading => aew.ver = loads
  /\ aew.pc \in Written => aew.ver = loads /\ ads = aew.ver
  /\ aew.pc \notin Installed => ambex.hup \/ ambex.loaded >= app.ir

(* One web thread at a time makes diagnostics, from an IR that is no older  *)
(* than those of any diagnostics stored before.                             *)
OneMaker ==
  /\ newest <= app.ir
  /\ \A h \in Handlers :
       /\ web[h].pc \in {"ir", "econf", "store", "return"} => diag_lock = h
       /\ web[h].pc \in {"econf", "store"} => newest <= web[h].ir /\ web[h].ir <= app.ir

IInv == Types /\ Handover /\ OneMaker

-----------------------------------------------------------------------------
(* The initial state satisfies the invariant. *)
LEMMA InitInv == Init => IInv
<1> SUFFICES ASSUME Init PROVE IInv
  OBVIOUS
<1>1. Types
  <2>1. DOMAIN aew = {"pc", "from", "ver", "kind", "snap", "tries"} /\ aew.ver \in Nat
    BY DEF Init, Idle
  <2>2. web \in [Handlers -> [pc : WebSteps, ir : Nat, econf : Nat]]
    BY DEF Init, WebSteps
  <2> QED
    BY <2>1, <2>2 DEF Init, Types, NoDiag
<1>2. Handover
  BY DEF Init, Handover, Loading, Written, Installed, Idle
<1>3. OneMaker
  BY DEF Init, OneMaker
<1> QED
  BY <1>1, <1>2, <1>3 DEF IInv

(* A step that leaves alone what the invariant is about. *)
LEMMA Stutter ==
  ASSUME IInv, UNCHANGED <<aew, loads, ads, ambex, app, diag_lock, web, newest>>
  PROVE  IInv'
BY DEF IInv, Types, Handover, OneMaker, Loading, Written, Installed

(* A step of the event watcher that leaves everything else alone. *)
LEMMA AewOnly ==
  ASSUME IInv, UNCHANGED <<loads, ads, ambex, app, diag_lock, web, newest>>,
         DOMAIN aew' = DOMAIN aew, aew'.ver \in Nat,
         aew'.pc \in Loading => aew.pc \in Loading /\ aew'.ver = aew.ver,
         aew'.pc \in Written => aew.pc \in Written /\ aew'.ver = aew.ver,
         aew.pc \in Installed <=> aew'.pc \in Installed
  PROVE  IInv'
<1>1. Types'
  BY DEF IInv, Types
<1>2. Handover'
  BY DEF IInv, Handover
<1>3. OneMaker'
  BY DEF IInv, OneMaker
<1> QED
  BY <1>1, <1>2, <1>3 DEF IInv

(* Beginning and ending a reconfiguration, validating it and the statuses. *)
LEMMA OrdinaryStep ==
  ASSUME IInv,
         TakeTimer \/ CheckTimers \/ Load \/ Validate \/ ValidateTimesOut \/ Invalid
           \/ Raise \/ Status \/ StatusFails \/ Finish
  PROVE  IInv'
<1> USE DEF Loading, Written, Installed
<1>1. UNCHANGED <<loads, ads, ambex, app, diag_lock, web, newest>>
  BY DEF TakeTimer, CheckTimers, Load, Validate, ValidateTimesOut, Invalid, Raise, Status,
         StatusFails, Finish, diagVars
<1>2. CASE TakeTimer \/ CheckTimers \/ Invalid \/ Raise \/ StatusFails \/ Finish
  <2>1. aew' = Idle \/ aew' = [Idle EXCEPT !.pc = "timers"]
    BY <1>2 DEF TakeTimer, CheckTimers, Invalid, Raise, StatusFails, Finish
  <2>2. DOMAIN aew' = DOMAIN aew /\ aew'.ver \in Nat /\ aew'.pc \in {"idle", "timers"}
    BY <2>1 DEF Idle, IInv, Types
  <2>3. aew.pc \notin Installed
    BY <1>2 DEF TakeTimer, CheckTimers, Invalid, Raise, StatusFails, Finish
  <2> QED
    BY <1>1, <2>2, <2>3, AewOnly
<1>3. CASE Load \/ Validate \/ ValidateTimesOut
  <2>1. aew.pc \in Loading /\ aew'.pc \in Loading /\ aew'.ver = aew.ver
        /\ DOMAIN aew' = DOMAIN aew
    BY <1>3 DEF Load, Validate, ValidateTimesOut, Goto, IInv, Types
  <2> QED
    BY <1>1, <2>1, AewOnly DEF IInv, Types
<1>4. CASE Status
  <2>1. aew.pc = "status" /\ aew'.pc = "finish" /\ aew'.ver = aew.ver
        /\ DOMAIN aew' = DOMAIN aew
    BY <1>4 DEF Status, Goto, IInv, Types
  <2> QED
    BY <1>1, <2>1, AewOnly DEF IInv, Types
<1> QED
  BY <1>2, <1>3, <1>4

(* A reconfiguration begins with a version of its own. *)
LEMMA TakeStep ==
  ASSUME IInv, TakeConfig PROVE IInv'
<1>1. /\ loads' = loads + 1 /\ aew'.pc = "load" /\ aew'.ver = loads + 1
      /\ DOMAIN aew' = DOMAIN aew /\ aew.pc = "idle"
      /\ UNCHANGED <<ads, ambex, app, diag_lock, web, newest>>
  BY DEF TakeConfig, Idle, diagVars, IInv, Types
<1>2. Types'
  BY <1>1 DEF IInv, Types
<1>3. Handover'
  BY <1>1 DEF IInv, Types, Handover, Loading, Written, Installed
<1>4. OneMaker'
  BY <1>1 DEF IInv, OneMaker
<1> QED
  BY <1>2, <1>3, <1>4 DEF IInv

(* The ADS configuration is renamed before anything else is changed. *)
LEMMA WriteStep ==
  ASSUME IInv, WriteFiles PROVE IInv'
<1>1. /\ aew.pc = "write" /\ aew'.pc = "clustermap" /\ aew'.ver = aew.ver /\ ads' = aew.ver
      /\ DOMAIN aew' = DOMAIN aew
      /\ UNCHANGED <<loads, ambex, app, diag_lock, web, newest>>
  BY DEF WriteFiles, Goto, diagVars, IInv, Types
<1>2. Types'
  BY <1>1 DEF IInv, Types
<1>3. Handover'
  BY <1>1 DEF IInv, Types, Handover, Loading, Written, Installed
<1>4. OneMaker'
  BY <1>1 DEF IInv, OneMaker
<1> QED
  BY <1>2, <1>3, <1>4 DEF IInv

(* Installing: app.ir only grows, and the signal follows. *)
LEMMA InstallStep ==
  ASSUME IInv, SetIR \/ SetEconf \/ ResetDiag \/ Signal PROVE IInv'
<1> USE DEF Loading, Written, Installed
<1>0. /\ aew'.ver = aew.ver /\ DOMAIN aew' = DOMAIN aew
      /\ UNCHANGED <<loads, ads, diag_lock, web, newest>>
  BY DEF SetIR, SetEconf, ResetDiag, Signal, Goto, diagVars, IInv, Types
<1>1. CASE SetIR
  <2>1. /\ aew.pc = "clustermap" /\ aew'.pc = "econf" /\ ambex' = ambex
        /\ app'.ir = aew.ver /\ app'.econf = app.econf /\ app'.diag = app.diag
        /\ app' \in [ir : Nat, econf : Nat, diag : [ir : Nat, econf : Nat]]
    BY <1>1 DEF SetIR, Goto, IInv, Types
  <2>2. app.ir <= app'.ir
    BY <2>1 DEF IInv, Types, Handover
  <2>3. Types'
    BY <1>0, <2>1 DEF IInv, Types
  <2>4. Handover'
    BY <1>0, <2>1 DEF IInv, Types, Handover
  <2>5. OneMaker'
    BY <1>0, <2>1, <2>2 DEF IInv, Types, OneMaker
  <2> QED
    BY <2>3, <2>4, <2>5 DEF IInv
<1>2. CASE SetEconf \/ ResetDiag
  <2>1. /\ aew.pc \in {"econf", "diag"} /\ aew'.pc \in {"diag", "signal"} /\ ambex' = ambex
        /\ app'.ir = app.ir
        /\ app' \in [ir : Nat, econf : Nat, diag : [ir : Nat, econf : Nat]]
    BY <1>2 DEF SetEconf, ResetDiag, Goto, NoDiag, IInv, Types
  <2>2. Types'
    BY <1>0, <2>1 DEF IInv, Types
  <2>3. Handover'
    BY <1>0, <2>1 DEF IInv, Types, Handover
  <2>4. OneMaker'
    BY <1>0, <2>1 DEF IInv, OneMaker
  <2> QED
    BY <2>2, <2>3, <2>4 DEF IInv
<1>3. CASE Signal
  <2>1. /\ aew.pc = "signal" /\ aew'.pc = "status" /\ app' = app
        /\ ambex' \in [hup : BOOLEAN, loaded : Nat] /\ ambex'.hup
    BY <1>3 DEF Signal, Goto, diagVars, IInv, Types
  <2>2. Types'
    BY <1>0, <2>1 DEF IInv, Types
  <2>3. Handover'
    BY <1>0, <2>1 DEF IInv, Types, Handover
  <2>4. OneMaker'
    BY <1>0, <2>1 DEF IInv, OneMaker
  <2> QED
    BY <2>2, <2>3, <2>4 DEF IInv
<1> QED
  BY <1>1, <1>2, <1>3

(* ambex loads what is on disk, which is never older than what diagd shows. *)
LEMMA AmbexStep ==
  ASSUME IInv, AmbexLoads PROVE IInv'
<1>1. /\ ambex' = [hup |-> FALSE, loaded |-> ads]
      /\ UNCHANGED <<aew, loads, ads, app, diag_lock, web, newest>>
  BY DEF AmbexLoads, diagVars
<1>2. Types'
  BY <1>1 DEF IInv, Types
<1>3. Handover'
  BY <1>1 DEF IInv, Types, Handover
<1>4. OneMaker'
  BY <1>1 DEF IInv, OneMaker
<1> QED
  BY <1>2, <1>3, <1>4 DEF IInv
-----------------------------------------------------------------------------
(* A web thread that neither stores diagnostics nor reads the IR. *)
LEMMA WebMoves ==
  ASSUME IInv, NEW h \in Handlers, NEW pc \in WebSteps,
         UNCHANGED <<aew, loads, ads, ambex, app, newest>>,
         web' \in [Handlers -> [pc : WebSteps, ir : Nat, econf : Nat]],
         \A g \in Handlers \ {h} : web'[g] = web[g],
         web'[h].pc = pc,
         pc \in {"econf", "store"} => newest <= web'[h].ir /\ web'[h].ir <= app.ir,
         pc \in {"ir", "econf", "store", "return"} => diag_lock' = h,
         \A g \in Handlers \ {h} : diag_lock = g => diag_lock' = g
  PROVE  IInv'
<1>1. Types'
  BY DEF IInv, Types
<1>2. Handover'
  BY DEF IInv, Handover
<1>3. OneMaker'
  <2> SUFFICES ASSUME NEW g \in Handlers
               PROVE  /\ web'[g].pc \in {"ir", "econf", "store", "return"} => diag_lock' = g
                      /\ web'[g].pc \in {"econf", "store"}
                            => newest <= web'[g].ir /\ web'[g].ir <= app.ir
    BY DEF OneMaker, IInv
  <2>1. CASE g = h
    BY <2>1
  <2>2. CASE g # h
    BY <2>2 DEF IInv, OneMaker
  <2> QED
    BY <2>1, <2>2
<1> QED
  BY <1>1, <1>2, <1>3 DEF IInv

(* The steps of a web thread up to the point where it stores diagnostics,   *)
(* and the step that gives the lock back.                                   *)
LEMMA HandlerStep ==
  ASSUME IInv, NEW h \in Handlers,
         Request(h) \/ CheckDiag(h) \/ LockDiag(h) \/ ReadIR(h) \/ ReadEconf(h) \/ ReturnDiag(h)
  PROVE  IInv'
<1> USE DEF WebSteps
<1>0. UNCHANGED <<aew, loads, ads, ambex, app, newest>>
  BY DEF Request, CheckDiag, LockDiag, ReadIR, ReadEconf, ReturnDiag, aewVars
<1>1. web \in [Handlers -> [pc : WebSteps, ir : Nat, econf : Nat]] /\ app.ir \in Nat /\ app.econf \in Nat
  BY DEF IInv, Types
<1>2. CASE Request(h) \/ CheckDiag(h)
  <2>1. /\ web' \in [Handlers -> [pc : WebSteps, ir : Nat, econf : Nat]]
        /\ \A g \in Handlers \ {h} : web'[g] = web[g]
        /\ web'[h].pc \in {"idle", "check", "lock"} /\ diag_lock' = diag_lock
    BY <1>1, <1>2 DEF Request, CheckDiag, Step, Show
  <2> QED
    BY <1>0, <2>1, WebMoves
<1>3. CASE LockDiag(h)
  <2>1. /\ web' \in [Handlers -> [pc : WebSteps, ir : Nat, econf : Nat]]
        /\ \A g \in Handlers \ {h} : web'[g] = web[g]
        /\ web'[h].pc \in {"idle", "ir"}
    BY <1>1, <1>3 DEF LockDiag, Step, Show
  <2>2. web'[h].pc = "ir" => diag_lock' = h
    BY <1>1, <1>3 DEF LockDiag, Step, Show
  <2>3. diag_lock \notin Handlers
    BY <1>3, HandlerAssumption DEF LockDiag, Free, HandlerAssumption
  <2> QED
    BY <1>0, <2>1, <2>2, <2>3, WebMoves
<1>4. CASE ReadIR(h)
  <2>1. diag_lock = h
    BY <1>4 DEF ReadIR, IInv, OneMaker
  <2>2. /\ web' \in [Handlers -> [pc : WebSteps, ir : Nat, econf : Nat]]
        /\ \A g \in Handlers \ {h} : web'[g] = web[g]
    BY <1>1, <1>4 DEF ReadIR
  <2>3. \/ web'[h].pc = "idle"
        \/ web'[h].pc = "econf" /\ web'[h].ir = app.ir /\ diag_lock' = h
    BY <1>1, <1>4, <2>1 DEF ReadIR
  <2>4. newest <= app.ir /\ app.ir <= app.ir
    BY <1>1 DEF IInv, OneMaker
  <2> QED
    BY <1>0, <2>1, <2>2, <2>3, <2>4, WebMoves
<1>5. CASE ReadEconf(h)
  <2>1. diag_lock = h /\ diag_lock' = h /\ newest <= web[h].ir /\ web[h].ir <= app.ir
    BY <1>5 DEF ReadEconf, IInv, OneMaker
  <2>2. /\ web' \in [Handlers -> [pc : WebSteps, ir : Nat, econf : Nat]]
        /\ \A g \in Handlers \ {h} : web'[g] = web[g]
        /\ web'[h].pc = "store" /\ web'[h].ir = web[h].ir
    BY <1>1, <1>5 DEF ReadEconf
  <2> QED
    BY <1>0, <2>1, <2>2, WebMoves
<1>6. CASE ReturnDiag(h)
  <2>1. diag_lock = h
    BY <1>6 DEF ReturnDiag, IInv, OneMaker
  <2>2. /\ web' \in [Handlers -> [pc : WebSteps, ir : Nat, econf : Nat]]
        /\ \A g \in Handlers \ {h} : web'[g] = web[g]
        /\ web'[h].pc = "idle"
    BY <1>1, <1>6 DEF ReturnDiag, Show
  <2> QED
    BY <1>0, <2>1, <2>2, WebMoves
<1> QED
  BY <1>2, <1>3, <1>4, <1>5, <1>6

(* Storing diagnostics: they are of an IR no older than any stored before,  *)
(* and nobody else is making any.                                           *)
LEMMA StoreStep ==
  ASSUME IInv, NEW h \in Handlers, StoreDiag(h)
  PROVE  IInv' /\ app'.diag.ir >= newest
<1> USE DEF WebSteps
<1>0. UNCHANGED <<aew, loads, ads, ambex, diag_lock>>
  BY DEF StoreDiag, aewVars
<1>1. /\ web \in [Handlers -> [pc : WebSteps, ir : Nat, econf : Nat]] /\ app.ir \in Nat
      /\ newest \in Nat /\ web[h].pc = "store" /\ web[h].ir \in Nat /\ web[h].econf \in Nat
  BY DEF IInv, Types, StoreDiag
<1>2. diag_lock = h /\ newest <= web[h].ir /\ web[h].ir <= app.ir
  BY <1>1 DEF IInv, OneMaker
<1>3. /\ app'.ir = app.ir /\ app'.diag.ir = web[h].ir
      /\ app' \in [ir : Nat, econf : Nat, diag : [ir : Nat, econf : Nat]]
  BY <1>1 DEF StoreDiag, IInv, Types
<1>4. newest' = web[h].ir
  BY <1>1, <1>2 DEF StoreDiag
<1>5. /\ web' \in [Handlers -> [pc : WebSteps, ir : Nat, econf : Nat]]
      /\ \A g \in Handlers \ {h} : web'[g] = web[g]
      /\ web'[h].pc = "return"
  BY <1>1 DEF StoreDiag, Step
<1>6. Types'
  BY <1>0, <1>1, <1>3, <1>4, <1>5 DEF IInv, Types
<1>7. Handover'
  BY <1>0, <1>3 DEF IInv, Handover
<1>8. OneMaker'
  <2>1. \A g \in Handlers \ {h} : web'[g].pc \notin {"ir", "econf", "store", "return"}
    BY <1>2, <1>5 DEF IInv, OneMaker
  <2> QED
    BY <1>0, <1>2, <1>3, <1>4, <1>5, <2>1 DEF OneMaker
<1> QED
  BY <1>1, <1>2, <1>3, <1>6, <1>7, <1>8 DEF IInv

-----------------------------------------------------------------------------
(* Every step preserves the invariant. *)
LEMMA StepInv ==
  ASSUME IInv, [Next]_vars PROVE IInv'
<1>1. CASE \/ PostConfig \/ PostCommand \/ PostTimer \/ KubeUpdate \/ UserEdit \/ TakeCommand
           \/ UNCHANGED vars
  <2>1. UNCHANGED <<aew, loads, ads, ambex, app, diag_lock, web, newest>>
    BY <1>1 DEF PostConfig, PostCommand, PostTimer, Post, KubeUpdate, UserEdit, TakeCommand,
                vars, diagVars
  <2> QED
    BY <2>1, Stutter
<1>2. CASE Watch
  BY <1>1, <1>2, TakeStep, OrdinaryStep, WriteStep, InstallStep DEF Watch
<1>3. CASE \E h \in Handlers : Request(h) \/ Handle(h)
  BY <1>3, HandlerStep, StoreStep DEF Handle
<1>4. CASE AmbexLoads
  BY <1>4, AmbexStep
<1> QED
  BY <1>1, <1>2, <1>3, <1>4 DEF Next

(* The invariant holds in every reachable state of diagd. *)
THEOREM DiagdInvariant == Spec => []IInv
<1>1. IInv /\ [Next]_vars => IInv'
  BY StepInv
<1> QED
  BY <1>1, InitInv, PTL DEF Spec

(* ambex never has an older configuration than diagd shows, once diagd is   *)
(* idle and the signals have been received - also when a reconfiguration    *)
(* failed after the ADS configuration was renamed.                          *)
THEOREM InstalledIsDelivered == Spec => []Delivered
<1>1. IInv => Delivered
  BY DEF IInv, Types, Handover, Installed, Delivered
<1> QED
  BY <1>1, DiagdInvariant, PTL

(* Whatever the order in which web threads read the configuration while it  *)
(* is being replaced, diagnostics that are stored are no older than any     *)
(* stored before.                                                           *)
THEOREM DiagnosticsMoveForward == Spec => DiagNeverBackwards
<1>1. ASSUME IInv, [Next]_vars
      PROVE  app'.diag \in {app.diag, NoDiag} \/ app'.diag.ir >= newest
  <2>1. CASE \E h \in Handlers : StoreDiag(h)
    BY <1>1, <2>1, StoreStep
  <2>2. CASE SetIR \/ SetEconf \/ ResetDiag
    BY <1>1, <2>2 DEF SetIR, SetEconf, ResetDiag, IInv, Types
  <2>3. CASE app' = app
    BY <2>3
  <2> QED
    BY <1>1, <2>1, <2>2, <2>3
       DEF Next, PostConfig, PostCommand, PostTimer, Post, KubeUpdate, UserEdit, Watch,
           TakeConfig, TakeCommand, TakeTimer, CheckTimers, Load, Validate, ValidateTimesOut,
           Invalid, WriteFiles, Raise, Signal, Status, StatusFails, Finish, Request, Handle,
           CheckDiag, LockDiag, ReadIR, ReadEconf, ReturnDiag, AmbexLoads, vars, diagVars
<1> QED
  BY <1>1, DiagdInvariant, PTL DEF Spec, DiagNeverBackwards

-----------------------------------------------------------------------------
(* KubeStatus *)

Entries == [key : Objects, text : Texts]

(* The last update in the pool for an object. *)
IsLast(i, o) ==
  /\ i \in DOMAIN pool /\ pool[i].key = o
  /\ \A j \in DOMAIN pool : j > i => pool[j].key # o

(* KubeStatus remembers only objects of the last snapshot.                  *)
Remembered == \A o \in Objects : current_status[o] # NoStatus => o \in seen

(* The last update of an object in the pool is the one that KubeStatus      *)
(* remembers; when there is none, the update has been made.                 *)
Tracks(o) ==
  current_status[o] # NoStatus =>
    /\ \A i \in DOMAIN pool : IsLast(i, o) => pool[i].text = current_status[o]
    /\ (world[o] # Absent /\ \A i \in DOMAIN pool : pool[i].key # o)
         => status[o] = current_status[o]

StatusInv == KubeTypeOK /\ Remembered /\ \A o \in Objects \ excused : Tracks(o)

-----------------------------------------------------------------------------
(* RemoveAt leaves out one element and keeps the others in order. *)
LEMMA RemoveAtFacts ==
  ASSUME NEW S, NEW s \in Seq(S), NEW i \in 1 .. Len(s)
  PROVE  /\ RemoveAt(s, i) \in Seq(S)
         /\ Len(RemoveAt(s, i)) = Len(s) - 1
         /\ \A j \in 1 .. Len(s) - 1 : RemoveAt(s, i)[j] = IF j < i THEN s[j] ELSE s[j + 1]
<1> DEFINE a == SubSeq(s, 1, i - 1)
           b == SubSeq(s, i + 1, Len(s))
<1>0. Len(s) \in Nat /\ i \in Int /\ \A j \in 1 .. Len(s) : s[j] \in S
  BY LenProperties, ElementOfSeq
<1>1. /\ a \in Seq(S) /\ Len(a) = i - 1
      /\ \A j \in 1 .. i - 1 : a[j] = s[j]
  <2>1. 1 \in Int /\ i - 1 \in Int /\ \A j \in 1 .. i - 1 : s[j] \in S
    BY <1>0
  <2>2. /\ a \in Seq(S) /\ Len(a) = IF 1 <= i - 1 THEN (i - 1) - 1 + 1 ELSE 0
        /\ \A j \in 1 .. (i - 1) - 1 + 1 : a[j] = s[1 + j - 1]
    BY <2>1, SubSeqProperties
  <2> QED
    BY <1>0, <2>2
<1>2. /\ b \in Seq(S) /\ Len(b) = Len(s) - i
      /\ \A j \in 1 .. Len(s) - i : b[j] = s[i + j]
  <2>1. i + 1 \in Int /\ Len(s) \in Int /\ \A j \in i + 1 .. Len(s) : s[j] \in S
    BY <1>0
  <2>2. /\ b \in Seq(S) /\ Len(b) = IF i + 1 <= Len(s) THEN Len(s) - (i + 1) + 1 ELSE 0
        /\ \A j \in 1 .. Len(s) - (i + 1) + 1 : b[j] = s[i + 1 + j - 1]
    BY <2>1, SubSeqProperties
  <2>3. \A j \in 1 .. Len(s) - i : i + 1 + j - 1 = i + j
    BY <1>0
  <2> QED
    BY <1>0, <2>2, <2>3
<1> HIDE DEF a, b
<1>3. /\ a \o b \in Seq(S) /\ Len(a \o b) = Len(a) + Len(b)
      /\ \A j \in 1 .. Len(a) + Len(b) : (a \o b)[j] = IF j <= Len(a) THEN a[j] ELSE b[j - Len(a)]
  BY <1>1, <1>2, ConcatProperties
<1>4. \A j \in 1 .. Len(s) - 1 : (a \o b)[j] = IF j < i THEN s[j] ELSE s[j + 1]
  <2> TAKE j \in 1 .. Len(s) - 1
  <2>1. CASE j < i
    BY <1>0, <1>1, <1>2, <1>3, <2>1
  <2>2. CASE ~(j < i)
    <3>1. j - Len(a) \in 1 .. Len(s) - i /\ i + (j - Len(a)) = j + 1 /\ ~(j <= Len(a))
          /\ j \in 1 .. Len(a) + Len(b)
      BY <1>0, <1>1, <1>2, <2>2
    <3> QED
      BY <1>2, <1>3, <2>2, <3>1
  <2> QED
    BY <2>1, <2>2
<1>5. RemoveAt(s, i) = a \o b
  BY DEF RemoveAt, a, b
<1> QED
  BY <1>0, <1>1, <1>2, <1>3, <1>4, <1>5

(* SetToSeq lists every element of a finite set once. *)
LEMMA SetToSeqFacts ==
  ASSUME NEW S, IsFiniteSet(S)
  PROVE  /\ SetToSeq(S) \in Seq(S)
         /\ \A x \in S : \E i \in 1 .. Len(SetToSeq(S)) : SetToSeq(S)[i] = x
         /\ \A i, j \in 1 .. Len(SetToSeq(S)) : SetToSeq(S)[i] = SetToSeq(S)[j] => i = j
<1> DEFINE n == Cardinality(S)
           f == SetToSeq(S)
<1>1. n \in Nat /\ ExistsBijection(1 .. n, S)
  BY FS_CardinalityType
<1>2. \E g \in [1 .. n -> S] : IsInjective(g)
  BY <1>1 DEF ExistsBijection, Bijection, Injection, Surjection, IsInjective
<1>3. f \in [1 .. n -> S] /\ IsInjective(f)
  BY <1>2 DEF SetToSeq
<1> HIDE DEF f
<1>4. f \in Injection(1 .. n, S)
  BY <1>3 DEF Injection, IsInjective
<1>5. IsFiniteSet(1 .. n) /\ Cardinality(1 .. n) = n
  BY <1>1, FS_Interval
<1>6. f \in Surjection(1 .. n, S)
  BY <1>1, <1>4, <1>5, FS_Injection
<1>7. f \in Seq(S) /\ Len(f) = n
  BY <1>1, <1>3
<1> QED
  BY <1>1, <1>3, <1>6, <1>7 DEF Surjection, IsInjective, f

-----------------------------------------------------------------------------
Snaps == [Objects -> Texts \cup {Absent}]

(* What mark_live, prune and post leave of current_status: the new statuses *)
(* of the objects in done, the old ones of others, for live objects only.   *)
LEMMA PostFacts ==
  ASSUME KubeTypeOK, NEW snap \in Snaps, NEW done \in SUBSET Todo(snap), post(snap, done)
  PROVE  /\ current_status' \in [Objects -> Texts \cup {NoStatus}]
         /\ seen' \subseteq Objects /\ Remembered'
         /\ \A o \in done : current_status'[o] = snap[o]
         /\ \A o \in Objects \ done : current_status'[o] \in {current_status[o], NoStatus}
         /\ UNCHANGED <<world, status, failures>>
<1>1. \A o \in done : o \in Objects /\ snap[o] \in Texts /\ o \in Live(snap)
  BY DEF Todo, Live, Snaps
<1>2. \A o \in Objects : current_status'[o] = IF o \in done THEN snap[o]
                                              ELSE prune(current_status, snap)[o]
  BY DEF post
<1>3. \A o \in Objects : prune(current_status, snap)[o] = IF o \in Marked \cap Live(snap)
                                                           THEN current_status[o] ELSE NoStatus
  BY DEF prune
<1>4. current_status' \in [Objects -> Texts \cup {NoStatus}]
  <2>1. \A o \in Objects : (IF o \in done THEN snap[o] ELSE prune(current_status, snap)[o])
                             \in Texts \cup {NoStatus}
    BY <1>1, <1>3 DEF KubeTypeOK
  <2> QED
    BY <2>1 DEF post
<1>5. Remembered'
  BY <1>1, <1>2, <1>3 DEF Remembered, post
<1>6. seen' \subseteq Objects /\ UNCHANGED <<world, status, failures>>
  BY DEF post, Live
<1> QED
  BY <1>1, <1>2, <1>3, <1>4, <1>5, <1>6

(* What post submits comes after what is in the pool, and is an update for  *)
(* every object whose status is new.                                        *)
LEMMA Submitted ==
  ASSUME KubeTypeOK, NEW snap \in Snaps, PostStatuses(snap)
  PROVE  /\ pool' \in Seq(Entries) /\ Len(pool) <= Len(pool') /\ Len(pool') <= MaxPool
         /\ \A i \in 1 .. Len(pool) : pool'[i] = pool[i]
         /\ \A i \in Len(pool) + 1 .. Len(pool') :
              pool'[i].key \in Todo(snap) /\ pool'[i].text = snap[pool'[i].key]
         /\ \A o \in Todo(snap) : \E i \in Len(pool) + 1 .. Len(pool') : pool'[i].key = o
<1> DEFINE todo == SetToSeq(Todo(snap))
           new  == [i \in DOMAIN todo |-> [key |-> todo[i], text |-> snap[todo[i]]]]
<1>1. IsFiniteSet(Todo(snap))
  BY ObjectAssumption, FS_Subset DEF ObjectAssumption, Todo, Live
<1>2. todo \in Seq(Todo(snap)) /\ \A o \in Todo(snap) : \E i \in 1 .. Len(todo) : todo[i] = o
  BY <1>1, SetToSeqFacts
<1>3. /\ Len(pool) + Len(todo) <= MaxPool
      /\ pool' = pool \o new
  BY DEF PostStatuses
<1> HIDE DEF todo
<1>4. Len(todo) \in Nat /\ DOMAIN todo = 1 .. Len(todo)
      /\ \A i \in 1 .. Len(todo) : todo[i] \in Todo(snap)
  BY <1>2, LenProperties, ElementOfSeq
<1>5. \A o \in Todo(snap) : o \in Objects /\ snap[o] \in Texts
  BY DEF Todo, Live, Snaps
<1>6. new \in Seq(Entries) /\ Len(new) = Len(todo)
  <2>1. \A i \in 1 .. Len(todo) : [key |-> todo[i], text |-> snap[todo[i]]] \in Entries
    BY <1>4, <1>5 DEF Entries
  <2> QED
    BY <1>4, <2>1
<1>7. \A i \in 1 .. Len(todo) : new[i] = [key |-> todo[i], text |-> snap[todo[i]]]
  BY <1>4
<1> HIDE DEF new
<1>8. pool \in Seq(Entries) /\ Len(pool) \in Nat
  BY LenProperties DEF KubeTypeOK, Entries
<1>9. /\ pool' \in Seq(Entries) /\ Len(pool') = Len(pool) + Len(todo)
      /\ \A i \in 1 .. Len(pool) + Len(todo) :
           pool'[i] = IF i <= Len(pool) THEN pool[i] ELSE new[i - Len(pool)]
  <2>1. /\ pool \o new \in Seq(Entries) /\ Len(pool \o new) = Len(pool) + Len(new)
        /\ \A i \in 1 .. Len(pool) + Len(new) :
             (pool \o new)[i] = IF i <= Len(pool) THEN pool[i] ELSE new[i - Len(pool)]
    BY <1>6, <1>8, ConcatProperties
  <2> QED
    BY <1>3, <1>6, <2>1
<1>10. \A i \in Len(pool) + 1 .. Len(pool') :
        i - Len(pool) \in 1 .. Len(todo) /\ pool'[i] = new[i - Len(pool)]
  BY <1>4, <1>8, <1>9
<1>11. \A i \in Len(pool) + 1 .. Len(pool') :
         pool'[i].key \in Todo(snap) /\ pool'[i].text = snap[pool'[i].key]
  <2> TAKE i \in Len(pool) + 1 .. Len(pool')
  <2> DEFINE k == i - Len(pool)
  <2>1. k \in 1 .. Len(todo) /\ pool'[i] = new[k]
    BY <1>10
  <2> HIDE DEF k
  <2>2. pool'[i] = [key |-> todo[k], text |-> snap[todo[k]]] /\ todo[k] \in Todo(snap)
    BY <1>4, <1>7, <2>1
  <2> QED
    BY <2>2
<1>12. ASSUME NEW o \in Todo(snap)
       PROVE  \E i \in Len(pool) + 1 .. Len(pool') : pool'[i].key = o
  <2>1. PICK k \in 1 .. Len(todo) : todo[k] = o
    BY <1>2
  <2>2. Len(pool) + k \in Len(pool) + 1 .. Len(pool') /\ (Len(pool) + k) - Len(pool) = k
    BY <1>4, <1>8, <1>9
  <2>3. pool'[Len(pool) + k] = new[k]
    BY <1>10, <2>2
  <2>4. pool'[Len(pool) + k] = [key |-> o, text |-> snap[o]]
    BY <1>7, <2>1, <2>3
  <2> QED
    BY <2>2, <2>4
<1>13. Len(pool) <= Len(pool') /\ Len(pool') <= MaxPool
  BY <1>3, <1>4, <1>8, <1>9
<1>14. \A i \in 1 .. Len(pool) : pool'[i] = pool[i]
  BY <1>4, <1>8, <1>9
<1> QED
  BY <1>9, <1>11, <1>12, <1>13, <1>14

(* An object whose updates in the pool stay what they are, and whose status *)
(* and place in KubeStatus's memory do too (or which is forgotten).         *)
LEMMA TracksStays ==
  ASSUME StatusInv, NEW o \in Objects \ excused,
         status'[o] = status[o], world'[o] = world[o] \/ world'[o] = Absent,
         current_status'[o] \in {current_status[o], NoStatus},
         pool' = pool
  PROVE  Tracks(o)'
BY DEF StatusInv, Tracks, IsLast

(* The end of _load_ir. *)
LEMMA PostStep ==
  ASSUME StatusInv, NEW snap \in Snaps, PostStatuses(snap)
  PROVE  StatusInv'
<1>0. KubeTypeOK /\ Remembered /\ Todo(snap) \in SUBSET Objects
      /\ excused' = excused \ Todo(snap) /\ post(snap, Todo(snap))
  BY DEF StatusInv, PostStatuses, Todo, Live
<1>1. /\ current_status' \in [Objects -> Texts \cup {NoStatus}]
      /\ seen' \subseteq Objects /\ Remembered'
      /\ \A o \in Todo(snap) : current_status'[o] = snap[o]
      /\ \A o \in Objects \ Todo(snap) : current_status'[o] \in {current_status[o], NoStatus}
      /\ UNCHANGED <<world, status, failures>>
  BY <1>0, PostFacts
<1>2. /\ pool' \in Seq(Entries) /\ Len(pool) <= Len(pool') /\ Len(pool') <= MaxPool
      /\ \A i \in 1 .. Len(pool) : pool'[i] = pool[i]
      /\ \A i \in Len(pool) + 1 .. Len(pool') :
           pool'[i].key \in Todo(snap) /\ pool'[i].text = snap[pool'[i].key]
      /\ \A o \in Todo(snap) : \E i \in Len(pool) + 1 .. Len(pool') : pool'[i].key = o
  BY <1>0, Submitted
<1>3. KubeTypeOK'
  BY <1>0, <1>1, <1>2 DEF KubeTypeOK, Entries
<1>4. DOMAIN pool = 1 .. Len(pool) /\ DOMAIN pool' = 1 .. Len(pool')
      /\ Len(pool) \in Nat /\ Len(pool') \in Nat
  BY <1>0, <1>2, LenProperties DEF KubeTypeOK
<1>5. ASSUME NEW o \in Objects, o \notin excused' PROVE Tracks(o)'
  <2>1. CASE o \in Todo(snap)
    <3>1. PICK k \in Len(pool) + 1 .. Len(pool') : pool'[k].key = o
      BY <1>2, <2>1
    <3>2. k \in DOMAIN pool'
      BY <1>4, <3>1
    <3>3. ASSUME NEW i \in DOMAIN pool', IsLast(i, o)' PROVE pool'[i].text = current_status'[o]
      <4>1. pool'[i].key = o /\ ~(k > i)
        BY <3>1, <3>2, <3>3 DEF IsLast
      <4>2. i \in Len(pool) + 1 .. Len(pool')
        BY <1>4, <3>1, <3>3, <4>1
      <4> QED
        BY <1>1, <1>2, <2>1, <4>1, <4>2
    <3> QED
      BY <3>1, <3>2, <3>3 DEF Tracks
  <2>2. CASE o \notin Todo(snap)
    <3>1. Tracks(o)
      BY <1>0, <2>2, <1>5 DEF StatusInv
    <3>2. \A i \in DOMAIN pool' : pool'[i].key = o => i \in DOMAIN pool /\ pool[i] = pool'[i]
      BY <1>2, <1>4, <2>2
    <3>3. \A i \in DOMAIN pool : i \in DOMAIN pool' /\ pool'[i] = pool[i]
      BY <1>2, <1>4
    <3>4. \A i \in DOMAIN pool' : IsLast(i, o)' => IsLast(i, o)
      BY <3>2, <3>3 DEF IsLast
    <3> SUFFICES ASSUME current_status'[o] # NoStatus
                 PROVE  /\ \A i \in DOMAIN pool' : IsLast(i, o)' => pool'[i].text = current_status'[o]
                        /\ (world'[o] # Absent /\ \A i \in DOMAIN pool' : pool'[i].key # o)
                             => status'[o] = current_status'[o]
      BY DEF Tracks
    <3>5. current_status'[o] = current_status[o] /\ world' = world /\ status' = status
      BY <1>1, <2>2
    <3>6. \A i \in DOMAIN pool' : IsLast(i, o)' => pool'[i].text = current_status'[o]
      BY <3>1, <3>2, <3>4, <3>5 DEF Tracks, IsLast
    <3>7. (\A i \in DOMAIN pool' : pool'[i].key # o) => \A i \in DOMAIN pool : pool[i].key # o
      BY <3>3
    <3> QED
      BY <3>1, <3>5, <3>6, <3>7 DEF Tracks
  <2> QED
    BY <2>1, <2>2
<1> QED
  BY <1>1, <1>3, <1>5 DEF StatusInv

(* The pool is broken: only the object that was remembered in vain is lost. *)
LEMMA PostFailsStep ==
  ASSUME StatusInv, NEW snap \in Snaps, PostFails(snap)
  PROVE  StatusInv'
<1>1. PICK x \in Todo(snap) : post(snap, {x}) /\ excused' = excused \cup {x} /\ pool' = pool
  BY DEF PostFails
<1>2. {x} \in SUBSET Todo(snap) /\ x \in Objects /\ KubeTypeOK
  BY <1>1 DEF StatusInv, Todo, Live
<1>3. /\ current_status' \in [Objects -> Texts \cup {NoStatus}]
      /\ seen' \subseteq Objects /\ Remembered'
      /\ \A o \in Objects \ {x} : current_status'[o] \in {current_status[o], NoStatus}
      /\ UNCHANGED <<world, status, failures>>
  BY <1>1, <1>2, PostFacts
<1>4. KubeTypeOK'
  BY <1>1, <1>2, <1>3 DEF KubeTypeOK
<1>5. ASSUME NEW o \in Objects, o \notin excused' PROVE Tracks(o)'
  BY <1>1, <1>2, <1>3, <1>5, TracksStays
<1> QED
  BY <1>3, <1>4, <1>5 DEF StatusInv

-----------------------------------------------------------------------------
(* What is left of the pool when one update has finished. *)
LEMMA Removed ==
  ASSUME KubeTypeOK, NEW i \in Running, pool' = RemoveAt(pool, i)
  PROVE  /\ i \in DOMAIN pool /\ pool[i] \in Entries
         /\ pool' \in Seq(Entries) /\ Len(pool') <= MaxPool
         /\ \A o \in Objects, j \in DOMAIN pool' :
              (IsLast(j, o)' /\ (pool[i].key = o => ~Overtakes(i)))
                => \E k \in DOMAIN pool : IsLast(k, o) /\ pool[k] = pool'[j]
         /\ \A o \in Objects :
              (\A j \in DOMAIN pool' : pool'[j].key # o)
                => \A k \in DOMAIN pool : k # i => pool[k].key # o
<1>0. pool \in Seq(Entries) /\ Len(pool) \in Nat /\ DOMAIN pool = 1 .. Len(pool)
      /\ Workers \in Nat /\ MaxPool \in Nat /\ Len(pool) <= MaxPool
  BY LenProperties, WorkerAssumption DEF KubeTypeOK, Entries, WorkerAssumption
<1>1. i \in 1 .. Len(pool)
  BY <1>0 DEF Running
<1>2. /\ pool' \in Seq(Entries) /\ Len(pool') = Len(pool) - 1
      /\ \A j \in 1 .. Len(pool) - 1 : pool'[j] = IF j < i THEN pool[j] ELSE pool[j + 1]
  BY <1>0, <1>1, RemoveAtFacts
<1>3. DOMAIN pool' = 1 .. Len(pool) - 1
  BY <1>0, <1>1, <1>2, LenProperties
<1>4. pool[i] \in Entries
  BY <1>0, <1>1, ElementOfSeq
<1>5. \A k \in 1 .. Len(pool) : k < i => k \in DOMAIN pool' /\ pool'[k] = pool[k]
  BY <1>0, <1>1, <1>2, <1>3
<1>6. \A k \in 1 .. Len(pool) : k > i => k - 1 \in DOMAIN pool' /\ pool'[k - 1] = pool[k]
  <2> SUFFICES ASSUME NEW k \in 1 .. Len(pool), k > i
               PROVE  k - 1 \in DOMAIN pool' /\ pool'[k - 1] = pool[k]
    OBVIOUS
  <2>1. k - 1 \in 1 .. Len(pool) - 1 /\ ~(k - 1 < i) /\ (k - 1) + 1 = k
    BY <1>0, <1>1
  <2> QED
    BY <1>2, <1>3, <2>1
<1>7. ASSUME NEW o \in Objects, NEW j \in DOMAIN pool', IsLast(j, o)',
             pool[i].key = o => ~Overtakes(i)
      PROVE  \E k \in DOMAIN pool : IsLast(k, o) /\ pool[k] = pool'[j]
  <2>1. pool'[j].key = o /\ \A m \in DOMAIN pool' : m > j => pool'[m].key # o
    BY <1>7 DEF IsLast
  <2>2. j \in 1 .. Len(pool) - 1
    BY <1>3
  <2>3. CASE j < i
    <3>1. j \in DOMAIN pool /\ pool[j] = pool'[j] /\ j \in 1 .. i - 1
      BY <1>0, <1>1, <1>2, <2>2, <2>3
    <3>2. pool[i].key # o
      BY <1>7, <2>1, <3>1 DEF Overtakes
    <3>3. ASSUME NEW m \in DOMAIN pool, m > j PROVE pool[m].key # o
      <4>1. CASE m < i
        BY <1>0, <1>5, <2>1, <3>3, <4>1
      <4>2. CASE m = i
        BY <3>2, <4>2
      <4>3. CASE m > i
        <5>1. m - 1 \in DOMAIN pool' /\ pool'[m - 1] = pool[m] /\ m - 1 > j
          BY <1>0, <1>1, <1>6, <2>2, <2>3, <3>3, <4>3
        <5> QED
          BY <2>1, <5>1
      <4> QED
        BY <1>0, <1>1, <4>1, <4>2, <4>3
    <3>4. IsLast(j, o)
      BY <2>1, <3>1, <3>3 DEF IsLast
    <3> QED
      BY <3>1, <3>4
  <2>4. CASE ~(j < i)
    <3>1. j + 1 \in DOMAIN pool /\ pool[j + 1] = pool'[j] /\ j + 1 > i
      BY <1>0, <1>1, <1>2, <2>2, <2>4
    <3>2. ASSUME NEW m \in DOMAIN pool, m > j + 1 PROVE pool[m].key # o
      <4>1. m - 1 \in DOMAIN pool' /\ pool'[m - 1] = pool[m] /\ m - 1 > j
        BY <1>0, <1>1, <1>6, <2>2, <3>1, <3>2
      <4> QED
        BY <2>1, <4>1
    <3>3. IsLast(j + 1, o)
      BY <2>1, <3>1, <3>2 DEF IsLast
    <3> QED
      BY <3>1, <3>3
  <2> QED
    BY <2>3, <2>4
<1>8. ASSUME NEW o \in Objects, \A j \in DOMAIN pool' : pool'[j].key # o,
             NEW k \in DOMAIN pool, k # i
      PROVE  pool[k].key # o
  <2>1. CASE k < i
    BY <1>0, <1>5, <1>8, <2>1
  <2>2. CASE k > i
    BY <1>0, <1>6, <1>8, <2>2
  <2> QED
    BY <1>0, <1>1, <1>8, <2>1, <2>2
<1> QED
  BY <1>0, <1>1, <1>2, <1>4, <1>7, <1>8

(* The other objects do not notice when an update finishes, and neither     *)
(* does the object itself when a later update of it is still to come.       *)
LEMMA TracksWhenRemoved ==
  ASSUME StatusInv, NEW i \in Running, pool' = RemoveAt(pool, i),
         UNCHANGED <<world, current_status>>, NEW o \in Objects \ excused,
         pool[i].key = o => ~Overtakes(i) /\ status'[o] = pool[i].text,
         pool[i].key # o => status'[o] = status[o]
  PROVE  Tracks(o)'
<1>1. KubeTypeOK /\ Tracks(o)
  BY DEF StatusInv
<1> SUFFICES ASSUME current_status[o] # NoStatus
             PROVE  /\ \A j \in DOMAIN pool' : IsLast(j, o)' => pool'[j].text = current_status[o]
                    /\ (world[o] # Absent /\ \A j \in DOMAIN pool' : pool'[j].key # o)
                         => status'[o] = current_status[o]
  BY DEF Tracks
<1>2. \A k \in DOMAIN pool : IsLast(k, o) => pool[k].text = current_status[o]
  BY <1>1 DEF Tracks
<1>3. \A j \in DOMAIN pool' : IsLast(j, o)' => pool'[j].text = current_status[o]
  BY <1>1, <1>2, Removed
<1>4. ASSUME world[o] # Absent, \A j \in DOMAIN pool' : pool'[j].key # o
      PROVE  status'[o] = current_status[o]
  <2>1. i \in DOMAIN pool /\ \A k \in DOMAIN pool : k # i => pool[k].key # o
    BY <1>1, <1>4, Removed
  <2>2. DOMAIN pool \subseteq Int
    BY <1>1, LenProperties DEF KubeTypeOK
  <2>3. CASE pool[i].key = o
    <3>1. IsLast(i, o)
      BY <2>1, <2>2, <2>3 DEF IsLast
    <3> QED
      BY <1>2, <2>1, <2>3, <3>1
  <2>4. CASE pool[i].key # o
    BY <1>1, <1>4, <2>1, <2>4 DEF Tracks
  <2> QED
    BY <2>3, <2>4
<1> QED
  BY <1>3, <1>4

(* The pool of processes. *)
LEMMA WorkerStep ==
  ASSUME StatusInv, KubeWorker
  PROVE  StatusInv'
<1>1. PICK i \in Running : Update(i) \/ UpdateFails(i)
  BY DEF KubeWorker
<1>2. KubeTypeOK /\ Remembered /\ pool' = RemoveAt(pool, i)
      /\ UNCHANGED <<world, current_status, seen>>
  BY <1>1 DEF StatusInv, Update, UpdateFails
<1>3. /\ i \in DOMAIN pool /\ pool[i] \in Entries
      /\ pool' \in Seq(Entries) /\ Len(pool') <= MaxPool
  BY <1>2, Removed
<1>4. pool[i].key \in Objects /\ pool[i].text \in Texts
  BY <1>3 DEF Entries
<1>5. Remembered'
  BY <1>2 DEF Remembered
<1>6. CASE Update(i)
  <2>1. /\ status' = [status EXCEPT ![pool[i].key] = pool[i].text]
        /\ excused' = IF Overtakes(i) THEN excused \cup {pool[i].key} ELSE excused
        /\ failures' = failures
    BY <1>6 DEF Update
  <2>2. /\ status' \in [Objects -> Texts \cup {NoStatus}] /\ excused' \subseteq Objects
        /\ \A o \in Objects : status'[o] = IF o = pool[i].key THEN pool[i].text ELSE status[o]
    BY <1>2, <1>4, <2>1 DEF KubeTypeOK
  <2>3. KubeTypeOK'
    BY <1>2, <1>3, <2>1, <2>2 DEF KubeTypeOK, Entries
  <2>4. ASSUME NEW o \in Objects, o \notin excused' PROVE Tracks(o)'
    <3>1. o \notin excused /\ (pool[i].key = o => ~Overtakes(i))
      BY <2>1, <2>4
    <3> QED
      BY <1>2, <2>2, <3>1, TracksWhenRemoved
  <2> QED
    BY <1>5, <2>3, <2>4 DEF StatusInv
<1>7. CASE UpdateFails(i)
  <2>1. /\ status' = status /\ excused' = excused \cup {pool[i].key}
        /\ world[pool[i].key] = Absent \/ failures < MaxFailures
        /\ failures' = IF world[pool[i].key] = Absent THEN failures ELSE failures + 1
    BY <1>7 DEF UpdateFails
  <2>2. failures' \in 0 .. MaxFailures
    BY <1>2, <2>1, WorkerAssumption DEF KubeTypeOK, WorkerAssumption
  <2>3. KubeTypeOK'
    BY <1>2, <1>3, <1>4, <2>1, <2>2 DEF KubeTypeOK, Entries
  <2>4. ASSUME NEW o \in Objects, o \notin excused' PROVE Tracks(o)'
    BY <1>2, <2>1, <2>4, TracksWhenRemoved
  <2> QED
    BY <1>5, <2>3, <2>4 DEF StatusInv
<1> QED
  BY <1>1, <1>6, <1>7

(* An object that is created anew while KubeStatus remembers one of its     *)
(* name is one that it had seen.                                            *)
LEMMA EditStep ==
  ASSUME StatusInv, NEW x \in Objects, NEW t \in Texts \cup {Absent}, Edit(x, t)
  PROVE  StatusInv'
<1>1. /\ KubeTypeOK /\ Remembered /\ UNCHANGED <<current_status, pool, failures, seen>>
      /\ world' = [world EXCEPT ![x] = t]
      /\ status' = IF t = Absent THEN [status EXCEPT ![x] = NoStatus] ELSE status
      /\ excused' = IF world[x] = Absent /\ x \in seen THEN excused \cup {x} ELSE excused
  BY DEF StatusInv, Edit
<1>2. KubeTypeOK'
  <2>1. world' \in [Objects -> Texts \cup {Absent}]
    BY <1>1 DEF KubeTypeOK
  <2>2. status' \in [Objects -> Texts \cup {NoStatus}]
    BY <1>1 DEF KubeTypeOK
  <2> QED
    BY <1>1, <2>1, <2>2 DEF KubeTypeOK
<1>3. Remembered'
  BY <1>1 DEF Remembered
<1>4. ASSUME NEW o \in Objects, o \notin excused' PROVE Tracks(o)'
  <2>0. o \notin excused /\ Tracks(o)
    BY <1>1, <1>4 DEF StatusInv
  <2>1. CASE o # x \/ t = Absent \/ current_status[o] = NoStatus
    <3>1. world'[o] = Absent \/ (world'[o] = world[o] /\ status'[o] = status[o])
          \/ current_status[o] = NoStatus
      BY <1>1, <2>1 DEF KubeTypeOK
    <3> QED
      BY <1>1, <2>0, <3>1 DEF Tracks, IsLast
  <2>2. CASE o = x /\ t # Absent /\ current_status[o] # NoStatus
    <3>1. world[o] # Absent
      BY <1>1, <1>4, <2>2 DEF Remembered
    <3>2. status' = status
      BY <1>1, <2>2
    <3> QED
      BY <1>1, <2>0, <3>1, <3>2 DEF Tracks, IsLast
  <2> QED
    BY <2>1, <2>2
<1> QED
  BY <1>2, <1>3, <1>4 DEF StatusInv

-----------------------------------------------------------------------------
(* The conjuncts of TypeOK, by who changes them. *)
Posted == [cmd : Events, from : Posters]

QueueType ==
  /\ events \in Seq(Posted) /\ waiting \subseteq Posters
  /\ loads \in Versions /\ commands \in 0 .. MaxCommands

AewType ==
  aew \in [pc : Steps \cup {"idle", "timers"}, from : Posters \cup {Nobody}, ver : Versions,
           kind : {"complete", "incremental"}, snap : Snaps, tries : 0 .. Retries]

OutputType ==
  /\ app \in [ir : Versions, econf : Versions, diag : Diags]
  /\ config_lock \in {Free, "aew"} /\ ads \in Versions /\ newest \in Versions
  /\ ambex \in [hup : BOOLEAN, loaded : Versions]

WebType ==
  /\ diag_lock \in {Free} \cup Handlers
  /\ web \in [Handlers -> [pc : WebSteps, ir : Versions, econf : Versions]]

StatsType ==
  /\ reconf_stats \in [last : {"none", "complete", "incremental"}, completed : BOOLEAN,
                       checked : BOOLEAN, incrementals : 0 .. MaxLoads]
  /\ env \in [chimed : BOOLEAN, last_chime : BOOLEAN, env_good : BOOLEAN]

(* What is in the queue, or being handled, is of posters that wait, and of  *)
(* none twice: so nobody posts beyond the bounds on loads and commands.     *)
OneAtATime ==
  /\ \A i \in DOMAIN events :
       /\ events[i].from \in waiting
       /\ events[i].cmd = "CONFIG" => events[i].from = "watt" /\ loads < MaxLoads
       /\ events[i].cmd \notin {"CONFIG", "TIMER"}
            => events[i].from = "fs" /\ commands < MaxCommands
       /\ aew.pc \in Steps => events[i].from # "watt"
  /\ \A i, j \in DOMAIN events : events[i].from = events[j].from => i = j
  /\ aew.pc \in Steps => aew.from = "watt" /\ "watt" \in waiting

(* Of the reconfigurations started, those that were incremental. *)
Counted ==
  /\ reconf_stats.incrementals <= loads
  /\ aew.pc \in Steps => reconf_stats.incrementals < loads

DiagdInv ==
  /\ StatusInv
  /\ QueueType /\ AewType /\ OutputType /\ WebType /\ StatsType
  /\ OneAtATime /\ Counted

(* The initial state satisfies the invariant. *)
LEMMA InitDiagd == Init => DiagdInv
<1> SUFFICES ASSUME Init PROVE DiagdInv
  OBVIOUS
<1> USE LoadAssumption, WorkerAssumption, RetryAssumption
    DEF LoadAssumption, WorkerAssumption, RetryAssumption, Versions
<1>1. KubeTypeOK
  BY DEF Init, KubeInit, KubeTypeOK
<1>2. StatusInv
  BY <1>1 DEF Init, KubeInit, StatusInv, Remembered, Tracks
<1>3. QueueType
  BY DEF Init, QueueType
<1>4. AewType
  BY DEF Init, AewType, Idle, Snaps, NoSnap, Steps
<1>5. OutputType
  BY DEF Init, OutputType, NoDiag, Diags
<1>6. WebType
  BY DEF Init, WebType, WebSteps
<1>7. StatsType
  BY DEF Init, StatsType
<1>8. OneAtATime /\ Counted
  BY DEF Init, OneAtATime, Counted, Idle, Steps
<1> QED
  BY <1>2, <1>3, <1>4, <1>5, <1>6, <1>7, <1>8 DEF DiagdInv

(* A step that changes nothing but the statuses. *)
LEMMA KubeOnly ==
  ASSUME DiagdInv, StatusInv',
         UNCHANGED <<events, waiting, aew, loads, commands, ads, ambex, reconf_stats, env,
                     diagVars>>
  PROVE  DiagdInv'
BY DEF DiagdInv, diagVars, QueueType, AewType, OutputType, WebType, StatsType, OneAtATime,
       Counted

(* StatusInv is about the variables of KubeStatus only. *)
LEMMA KubeStutter ==
  ASSUME StatusInv, UNCHANGED kubeVars PROVE StatusInv'
BY DEF StatusInv, kubeVars, KubeTypeOK, Remembered, Tracks, IsLast

(* A poster that does not wait has nothing in the queue. *)
LEMMA PostingStep ==
  ASSUME DiagdInv, NEW p \in Posters, NEW cmd \in Events, Post(p, cmd),
         cmd = "CONFIG" => p = "watt" /\ loads < MaxLoads,
         cmd \notin {"CONFIG", "TIMER"} => p = "fs" /\ commands < MaxCommands
  PROVE  DiagdInv'
<1> DEFINE e == [cmd |-> cmd, from |-> p]
<1>1. /\ p \notin waiting /\ events' = Append(events, e) /\ waiting' = waiting \cup {p}
      /\ UNCHANGED <<kubeVars, aew, loads, commands, ads, ambex, reconf_stats, env, diagVars>>
  BY DEF Post
<1>2. StatusInv'
  BY <1>1, KubeStutter DEF DiagdInv
<1>3. events \in Seq(Posted) /\ e \in Posted /\ Len(events) \in Nat
      /\ DOMAIN events = 1 .. Len(events)
  BY LenProperties DEF DiagdInv, QueueType, Posted
<1>4. /\ events' \in Seq(Posted) /\ Len(events') = Len(events) + 1
      /\ \A i \in 1 .. Len(events) : events'[i] = events[i]
      /\ events'[Len(events) + 1] = e
  BY <1>1, <1>3, AppendProperties
<1>5. DOMAIN events' = DOMAIN events \cup {Len(events) + 1}
  <2>1. DOMAIN events' = 1 .. Len(events) + 1
    BY <1>4, LenProperties
  <2> QED
    BY <1>3, <2>1
<1>6. QueueType'
  BY <1>1, <1>4 DEF DiagdInv, QueueType
<1>7. e.from = p /\ e.cmd = cmd
  OBVIOUS
<1> HIDE DEF e
<1>8. \A i \in DOMAIN events : events'[i] = events[i] /\ events[i].from \in waiting
  BY <1>3, <1>4 DEF DiagdInv, OneAtATime
<1>9. OneAtATime'
  <2>1. ASSUME NEW i \in DOMAIN events'
        PROVE  /\ events'[i].from \in waiting'
               /\ events'[i].cmd = "CONFIG" => events'[i].from = "watt" /\ loads' < MaxLoads
               /\ events'[i].cmd \notin {"CONFIG", "TIMER"}
                    => events'[i].from = "fs" /\ commands' < MaxCommands
               /\ aew'.pc \in Steps => events'[i].from # "watt"
    <3>1. CASE i \in DOMAIN events
      BY <1>1, <1>8, <3>1 DEF DiagdInv, OneAtATime
    <3>2. CASE i = Len(events) + 1
      <4>1. events'[i].from = p /\ events'[i].cmd = cmd /\ p \in waiting'
        BY <1>1, <1>4, <1>7, <3>2
      <4>2. aew.pc \in Steps => p # "watt"
        BY <1>1 DEF DiagdInv, OneAtATime
      <4> QED
        BY <1>1, <4>1, <4>2
    <3> QED
      BY <1>5, <3>1, <3>2
  <2>2. ASSUME NEW i \in DOMAIN events', NEW j \in DOMAIN events',
               events'[i].from = events'[j].from
        PROVE  i = j
    <3>1. \A k \in DOMAIN events : events[k].from # p
      BY <1>1, <1>8
    <3>2. CASE i \in DOMAIN events /\ j \in DOMAIN events
      BY <1>8, <2>2, <3>2 DEF DiagdInv, OneAtATime
    <3> QED
      BY <1>4, <1>5, <1>7, <1>8, <2>2, <3>1, <3>2
  <2>3. aew'.pc \in Steps => aew'.from = "watt" /\ "watt" \in waiting'
    BY <1>1 DEF DiagdInv, OneAtATime
  <2> QED
    BY <2>1, <2>2, <2>3 DEF OneAtATime
<1>10. AewType' /\ OutputType' /\ WebType' /\ StatsType' /\ Counted'
  BY <1>1 DEF DiagdInv, AewType, OutputType, WebType, StatsType, Counted, diagVars
<1> QED
  BY <1>2, <1>6, <1>9, <1>10 DEF DiagdInv

(* The posters, with the bounds that their guards keep. *)
LEMMA PostersStep ==
  ASSUME DiagdInv, PostConfig \/ PostCommand \/ PostTimer PROVE DiagdInv'
<1>1. CASE PostConfig
  <2>1. DOMAIN events = 1 .. Len(events) /\ Len(events) \in Nat
    BY LenProperties DEF DiagdInv, QueueType
  <2>2. IsFiniteSet(DOMAIN events)
    BY <2>1, FS_Interval
  <2>3. {i \in DOMAIN events : events[i].cmd = "CONFIG"} \in SUBSET DOMAIN events
    OBVIOUS
  <2>4. Queued("CONFIG") \in Nat
    BY <2>2, <2>3, FS_Subset, FS_CardinalityType DEF Queued
  <2>5. loads < MaxLoads
    BY <1>1, <2>4, LoadAssumption DEF PostConfig, DiagdInv, QueueType, Versions, LoadAssumption
  <2>6. "watt" \in Posters /\ "CONFIG" \in Events
    BY DEF Posters, Events
  <2> QED
    BY <1>1, <2>5, <2>6, PostingStep DEF PostConfig
<1>2. CASE PostCommand
  <2>1. PICK c \in Events \ {"CONFIG", "TIMER"} : Post("fs", c)
    BY <1>2 DEF PostCommand
  <2>2. "fs" \in Posters /\ commands < MaxCommands
    BY <1>2 DEF Posters, PostCommand
  <2> QED
    BY <2>1, <2>2, PostingStep
<1>3. CASE PostTimer
  <2>1. "timer" \in Posters /\ "TIMER" \in Events
    BY DEF Posters, Events
  <2> QED
    BY <1>3, <2>1, PostingStep DEF PostTimer
<1> QED
  BY <1>1, <1>2, <1>3

(* What is left of the queue when its first event is taken. *)
LEMMA Taken ==
  ASSUME DiagdInv, events # <<>>, events' = Tail(events)
  PROVE  /\ Head(events) \in Posted /\ Head(events) = events[1] /\ 1 \in DOMAIN events
         /\ events' \in Seq(Posted)
         /\ \A i \in DOMAIN events' :
              i + 1 \in DOMAIN events /\ events'[i] = events[i + 1] /\ i \in Nat
         /\ \A i \in DOMAIN events' : events'[i].from # Head(events).from
         /\ \A i, j \in DOMAIN events' : events'[i].from = events'[j].from => i = j
<1>1. events \in Seq(Posted) /\ Len(events) \in Nat /\ DOMAIN events = 1 .. Len(events)
  BY LenProperties DEF DiagdInv, QueueType
<1>2. Len(events) # 0
  BY <1>1, EmptySeq
<1>3. /\ Head(events) \in Posted /\ Tail(events) \in Seq(Posted)
      /\ Len(Tail(events)) = Len(events) - 1
      /\ \A i \in 1 .. Len(Tail(events)) : Tail(events)[i] = events[i + 1]
  BY <1>1, HeadTailProperties
<1>4. Head(events) = events[1] /\ 1 \in DOMAIN events
  BY <1>1, <1>2
<1>5. DOMAIN events' = 1 .. Len(events) - 1
  BY <1>3, LenProperties
<1>6. \A i \in DOMAIN events' : i + 1 \in DOMAIN events /\ events'[i] = events[i + 1] /\ i \in Nat
  BY <1>1, <1>3, <1>5
<1>7. \A i, j \in DOMAIN events : events[i].from = events[j].from => i = j
  BY DEF DiagdInv, OneAtATime
<1>8. \A i \in DOMAIN events' : events'[i].from # Head(events).from
  <2> TAKE i \in DOMAIN events'
  <2>1. i + 1 \in DOMAIN events /\ i + 1 # 1 /\ events'[i] = events[i + 1]
    BY <1>5, <1>6
  <2> QED
    BY <1>4, <1>7, <2>1
<1>9. ASSUME NEW i \in DOMAIN events', NEW j \in DOMAIN events', events'[i].from = events'[j].from
      PROVE  i = j
  <2>1. i + 1 = j + 1
    BY <1>6, <1>7, <1>9
  <2> QED
    BY <1>5, <2>1
<1> QED
  BY <1>3, <1>4, <1>6, <1>8, <1>9

(* A step of the event watcher that takes no event: what it does to the     *)
(* queue is to answer watt when a reconfiguration is over.                  *)
LEMMA AnswerStep ==
  ASSUME DiagdInv, UNCHANGED <<events, loads, commands>>, waiting' \subseteq waiting,
         \/ aew'.pc \in Steps /\ aew.pc \in Steps /\ aew'.from = aew.from /\ waiting' = waiting
         \/ aew'.pc \notin Steps /\ aew.pc \in Steps /\ waiting' = waiting \ {aew.from}
         \/ aew'.pc \notin Steps /\ waiting' = waiting
  PROVE  QueueType' /\ OneAtATime'
<1>1. QueueType'
  BY DEF DiagdInv, QueueType
<1>2. aew.pc \in Steps => aew.from = "watt" /\ "watt" \in waiting
  BY DEF DiagdInv, OneAtATime
<1>3. \A i \in DOMAIN events : events[i].from \in waiting'
  BY <1>2 DEF DiagdInv, OneAtATime
<1>4. OneAtATime'
  BY <1>2, <1>3 DEF DiagdInv, OneAtATime
<1> QED
  BY <1>1, <1>4

(* A reconfiguration begins: watt had no other one in the queue. *)
LEMMA TakeConfigStep ==
  ASSUME DiagdInv, TakeConfig PROVE DiagdInv'
<1>1. /\ aew.pc = "idle" /\ events # <<>> /\ Head(events).cmd = "CONFIG"
      /\ loads' = loads + 1 /\ events' = Tail(events)
      /\ aew' = [Idle EXCEPT !.pc = "load", !.from = Head(events).from, !.ver = loads + 1]
      /\ UNCHANGED <<kubeVars, waiting, commands, ads, ambex, reconf_stats, env, diagVars>>
  BY DEF TakeConfig
<1>2. /\ Head(events) = events[1] /\ 1 \in DOMAIN events
      /\ events' \in Seq(Posted)
      /\ \A i \in DOMAIN events' : i + 1 \in DOMAIN events /\ events'[i] = events[i + 1]
      /\ \A i \in DOMAIN events' : events'[i].from # Head(events).from
      /\ \A i, j \in DOMAIN events' : events'[i].from = events'[j].from => i = j
  BY <1>1, Taken
<1>3. Head(events).from = "watt" /\ loads < MaxLoads /\ "watt" \in waiting
  BY <1>1, <1>2 DEF DiagdInv, OneAtATime
<1>4. loads' \in Versions /\ loads + 1 \in Versions
  BY <1>1, <1>3, LoadAssumption DEF DiagdInv, QueueType, Versions, LoadAssumption
<1>5. /\ aew'.pc = "load" /\ aew'.from = "watt" /\ AewType'
  <2>1. NoSnap \in Snaps /\ 0 \in 0 .. Retries
    BY RetryAssumption DEF NoSnap, Snaps, RetryAssumption
  <2>2. aew' = [pc |-> "load", from |-> "watt", ver |-> loads + 1, kind |-> "complete",
                snap |-> NoSnap, tries |-> 0]
    BY <1>1, <1>3 DEF Idle
  <2> QED
    BY <1>4, <2>1, <2>2 DEF AewType, Steps, Posters
<1>6. StatusInv'
  BY <1>1, KubeStutter DEF DiagdInv
<1>7. QueueType'
  BY <1>1, <1>2, <1>4 DEF DiagdInv, QueueType
<1>8. OneAtATime'
  <2>1. ASSUME NEW i \in DOMAIN events'
        PROVE  /\ events'[i].from \in waiting' /\ events'[i].from # "watt"
               /\ events'[i].cmd # "CONFIG"
               /\ events'[i].cmd \notin {"CONFIG", "TIMER"}
                    => events'[i].from = "fs" /\ commands' < MaxCommands
    BY <1>1, <1>2, <1>3 DEF DiagdInv, OneAtATime
  <2> QED
    BY <1>1, <1>2, <1>3, <1>5, <2>1 DEF OneAtATime
<1>9. Counted'
  BY <1>1, <1>4 DEF DiagdInv, QueueType, StatsType, Counted, Versions
<1>10. OutputType' /\ WebType' /\ StatsType'
  BY <1>1 DEF DiagdInv, OutputType, WebType, StatsType, diagVars
<1> QED
  BY <1>5, <1>6, <1>7, <1>8, <1>9, <1>10 DEF DiagdInv

(* A test command or the timer: the poster is answered. *)
LEMMA TakeOtherStep ==
  ASSUME DiagdInv, TakeCommand \/ TakeTimer PROVE DiagdInv'
<1>1. /\ aew.pc = "idle" /\ events # <<>> /\ Head(events).cmd # "CONFIG"
      /\ events' = Tail(events) /\ waiting' = waiting \ {Head(events).from}
      /\ UNCHANGED <<kubeVars, loads, ads, ambex, reconf_stats, diagVars>>
  BY DEF TakeCommand, TakeTimer, _respond
<1>2. /\ Head(events) = events[1] /\ 1 \in DOMAIN events
      /\ events' \in Seq(Posted)
      /\ \A i \in DOMAIN events' : i + 1 \in DOMAIN events /\ events'[i] = events[i + 1]
      /\ \A i \in DOMAIN events' : events'[i].from # Head(events).from
      /\ \A i, j \in DOMAIN events' : events'[i].from = events'[j].from => i = j
  BY <1>1, Taken
<1>3. aew' = aew \/ aew' = [Idle EXCEPT !.pc = "timers"]
  BY DEF TakeCommand, TakeTimer
<1>4. aew'.pc \notin Steps /\ AewType'
  <2>1. CASE aew' = aew
    BY <1>1, <2>1 DEF DiagdInv, AewType, Steps
  <2>2. CASE aew' = [Idle EXCEPT !.pc = "timers"]
    <3>1. NoSnap \in Snaps /\ 0 \in 0 .. Retries /\ 0 \in Versions
      BY RetryAssumption, LoadAssumption
         DEF NoSnap, Snaps, Versions, RetryAssumption, LoadAssumption
    <3>2. aew' = [pc |-> "timers", from |-> Nobody, ver |-> 0, kind |-> "complete",
                  snap |-> NoSnap, tries |-> 0]
      BY <2>2 DEF Idle
    <3> QED
      BY <3>1, <3>2 DEF AewType, Steps
  <2> QED
    BY <1>3, <2>1, <2>2
<1>5. commands' \in 0 .. MaxCommands /\ env' \in [chimed : BOOLEAN, last_chime : BOOLEAN, env_good : BOOLEAN]
      /\ (commands' = commands \/ Head(events).from = "fs")
  <2>1. CASE TakeTimer
    BY <2>1 DEF TakeTimer, DiagdInv, QueueType, StatsType
  <2>2. CASE TakeCommand
    <3>1. Head(events).from = "fs" /\ commands < MaxCommands /\ commands' = commands + 1
      BY <1>2, <2>2 DEF TakeCommand, DiagdInv, OneAtATime
    <3>2. commands' \in 0 .. MaxCommands
      BY <3>1, LoadAssumption DEF DiagdInv, QueueType, LoadAssumption
    <3>3. env' \in [chimed : BOOLEAN, last_chime : BOOLEAN, env_good : BOOLEAN]
      BY <2>2 DEF TakeCommand, command, chime, DiagdInv, StatsType
    <3> QED
      BY <3>1, <3>2, <3>3
  <2> QED
    BY <2>1, <2>2
<1>6. StatusInv'
  BY <1>1, KubeStutter DEF DiagdInv
<1>7. QueueType'
  BY <1>1, <1>2, <1>5 DEF DiagdInv, QueueType
<1>8. OneAtATime'
  <2>1. ASSUME NEW i \in DOMAIN events'
        PROVE  /\ events'[i].from \in waiting'
               /\ events'[i].cmd = "CONFIG" => events'[i].from = "watt" /\ loads' < MaxLoads
               /\ events'[i].cmd \notin {"CONFIG", "TIMER"}
                    => events'[i].from = "fs" /\ commands' < MaxCommands
    BY <1>1, <1>2, <1>5 DEF DiagdInv, OneAtATime
  <2> QED
    BY <1>2, <1>4, <2>1 DEF OneAtATime
<1>9. Counted'
  BY <1>1, <1>4 DEF DiagdInv, Counted
<1>10. OutputType' /\ WebType' /\ StatsType'
  BY <1>1, <1>5 DEF DiagdInv, OutputType, WebType, StatsType, diagVars
<1> QED
  BY <1>4, <1>6, <1>7, <1>8, <1>9, <1>10 DEF DiagdInv

-----------------------------------------------------------------------------
(* The steps of a reconfiguration before it is over. *)
LEMMA MovingStep ==
  ASSUME DiagdInv,
         Load \/ Validate \/ ValidateTimesOut \/ WriteFiles \/ SetIR \/ SetEconf \/ ResetDiag
           \/ Signal \/ Status
  PROVE  DiagdInv'
<1>0. AewType /\ aew.ver \in Versions /\ aew.snap \in Snaps
  BY DEF DiagdInv, AewType
<1>1. /\ aew.pc \in Steps /\ aew'.pc \in Steps /\ aew'.from = aew.from
      /\ UNCHANGED <<events, waiting, loads, commands, reconf_stats, env, diag_lock, web, newest>>
  BY <1>0 DEF Load, Validate, ValidateTimesOut, WriteFiles, SetIR, SetEconf, ResetDiag, Signal,
              Status, Goto, Steps, diagVars, AewType
<1>2. QueueType' /\ OneAtATime'
  BY <1>1, AnswerStep
<1>3. WebType' /\ StatsType' /\ Counted'
  BY <1>1 DEF DiagdInv, WebType, StatsType, Counted
<1>4. AewType'
  <2>1. CASE Load
    <3>1. world \in Snaps /\ Retries \in 0 .. Retries
      BY RetryAssumption DEF DiagdInv, StatusInv, KubeTypeOK, Snaps, RetryAssumption
    <3> QED
      BY <1>0, <2>1, <3>1 DEF Load, AewType, Steps
  <2>2. CASE ValidateTimesOut
    <3>1. aew.tries - 1 \in 0 .. Retries
      BY <1>0, <2>2, RetryAssumption DEF ValidateTimesOut, AewType, RetryAssumption
    <3> QED
      BY <1>0, <2>2, <3>1 DEF ValidateTimesOut, AewType
  <2>3. CASE Validate \/ WriteFiles \/ SetIR \/ SetEconf \/ ResetDiag \/ Signal \/ Status
    <3>1. PICK q \in Steps : aew' = [aew EXCEPT !.pc = q]
      BY <2>3 DEF Validate, WriteFiles, SetIR, SetEconf, ResetDiag, Signal, Status, Goto, Steps
    <3> QED
      BY <1>0, <3>1 DEF AewType
  <2> QED
    BY <2>1, <2>2, <2>3
<1>5. OutputType'
  <2>1. OutputType /\ NoDiag \in Diags
    BY LoadAssumption DEF DiagdInv, NoDiag, Diags, Versions, LoadAssumption
  <2>2. CASE Load \/ Validate \/ ValidateTimesOut \/ Status
    BY <2>1, <2>2 DEF Load, Validate, ValidateTimesOut, Status, OutputType, diagVars
  <2>3. CASE WriteFiles
    BY <1>0, <2>1, <2>3 DEF WriteFiles, OutputType, diagVars
  <2>4. CASE SetIR
    BY <1>0, <2>1, <2>4 DEF SetIR, OutputType
  <2>5. CASE SetEconf
    BY <1>0, <2>1, <2>5 DEF SetEconf, OutputType
  <2>6. CASE ResetDiag
    BY <1>0, <2>1, <2>6 DEF ResetDiag, OutputType
  <2>7. CASE Signal
    BY <1>0, <2>1, <2>7 DEF Signal, OutputType, diagVars
  <2> QED
    BY <2>2, <2>3, <2>4, <2>5, <2>6, <2>7
<1>6. StatusInv'
  <2>1. CASE Status
    BY <1>0, <2>1, PostStep DEF Status, DiagdInv
  <2>2. CASE UNCHANGED kubeVars
    BY <2>2, KubeStutter DEF DiagdInv
  <2> QED
    BY <2>1, <2>2 DEF Load, Validate, ValidateTimesOut, WriteFiles, SetIR, SetEconf, ResetDiag,
                      Signal
<1> QED
  BY <1>2, <1>3, <1>4, <1>5, <1>6 DEF DiagdInv

(* A reconfiguration ends, well or not, or the timers have been looked at. *)
LEMMA EndingStep ==
  ASSUME DiagdInv, Invalid \/ Raise \/ StatusFails \/ Finish \/ CheckTimers PROVE DiagdInv'
<1>1. /\ aew' = Idle /\ UNCHANGED <<events, loads, commands, ads, ambex, diagVars>>
      /\ \/ aew.pc \in Steps /\ waiting' = waiting \ {aew.from}
         \/ waiting' = waiting
  BY DEF Invalid, Raise, StatusFails, Finish, CheckTimers, _respond, Steps
<1>2. aew'.pc \notin Steps /\ AewType'
  <2>1. NoSnap \in Snaps /\ 0 \in 0 .. Retries /\ 0 \in Versions
    BY RetryAssumption, LoadAssumption
       DEF NoSnap, Snaps, Versions, RetryAssumption, LoadAssumption
  <2> QED
    BY <1>1, <2>1 DEF AewType, Steps, Idle
<1>3. QueueType' /\ OneAtATime'
  BY <1>1, <1>2, AnswerStep
<1>4. OutputType' /\ WebType'
  BY <1>1 DEF DiagdInv, OutputType, WebType, diagVars
<1>5. /\ reconf_stats \in [last : {"none", "complete", "incremental"}, completed : BOOLEAN,
                           checked : BOOLEAN, incrementals : 0 .. MaxLoads]
      /\ env \in [chimed : BOOLEAN, last_chime : BOOLEAN, env_good : BOOLEAN]
      /\ loads \in 0 .. MaxLoads /\ MaxLoads \in Nat /\ reconf_stats.incrementals <= loads
      /\ aew.kind \in {"complete", "incremental"}
  BY LoadAssumption
     DEF DiagdInv, StatsType, QueueType, AewType, Counted, Versions, LoadAssumption
<1>6. StatsType' /\ Counted'
  <2>1. CASE UNCHANGED <<reconf_stats, env>>
    BY <1>1, <1>2, <1>5, <2>1 DEF StatsType, Counted
  <2>2. CASE Finish
    <3>1. env' \in [chimed : BOOLEAN, last_chime : BOOLEAN, env_good : BOOLEAN]
      BY <1>5, <2>2 DEF Finish, chime
    <3>2. reconf_stats.incrementals < loads
      BY <2>2 DEF Finish, DiagdInv, Counted, Steps
    <3>3. reconf_stats' = mark(reconf_stats, aew.kind)
      BY <2>2 DEF Finish
    <3>4. CASE aew.kind = "incremental" /\ reconf_stats.completed
      <4>1. reconf_stats' = [reconf_stats EXCEPT !.last = "incremental",
                                                 !.incrementals = reconf_stats.incrementals + 1]
        BY <3>3, <3>4 DEF mark
      <4>2. /\ reconf_stats.incrementals + 1 \in 0 .. MaxLoads
            /\ reconf_stats.incrementals + 1 <= loads
        BY <1>5, <3>2
      <4>3. reconf_stats'.incrementals <= loads'
        BY <1>1, <1>5, <4>1, <4>2
      <4>4. reconf_stats' \in [last : {"none", "complete", "incremental"}, completed : BOOLEAN,
                               checked : BOOLEAN, incrementals : 0 .. MaxLoads]
        BY <1>5, <4>1, <4>2
      <4> QED
        BY <1>2, <3>1, <4>3, <4>4 DEF StatsType, Counted
    <3>5. CASE ~(aew.kind = "incremental" /\ reconf_stats.completed)
      <4>1. reconf_stats' = [last |-> "complete", completed |-> TRUE, checked |-> TRUE,
                             incrementals |-> 0]
        BY <3>3, <3>5 DEF mark
      <4> QED
        BY <1>1, <1>2, <1>5, <3>1, <4>1 DEF StatsType, Counted
    <3> QED
      BY <3>4, <3>5
  <2>3. CASE CheckTimers
    <3>1. env' = env /\ reconf_stats' \in {reconf_stats, mark_checked(reconf_stats)}
      BY <2>3 DEF CheckTimers
    <3>2. CASE reconf_stats' = reconf_stats
      BY <2>1, <3>1, <3>2
    <3>3. CASE reconf_stats' = [reconf_stats EXCEPT !.incrementals = 0, !.checked = TRUE]
      <4>1. reconf_stats' \in [last : {"none", "complete", "incremental"}, completed : BOOLEAN,
                               checked : BOOLEAN, incrementals : 0 .. MaxLoads]
        <5>1. 0 \in 0 .. MaxLoads /\ TRUE \in BOOLEAN
          BY <1>5
        <5> QED
          BY <1>5, <3>3, <5>1, ZenonT(30)
      <4>2. reconf_stats'.incrementals = 0
        BY <1>5, <3>3
      <4>3. StatsType'
        BY <1>5, <3>1, <4>1 DEF StatsType
      <4>4. Counted'
        BY <1>1, <1>2, <1>5, <4>2 DEF Counted
      <4> QED
        BY <4>3, <4>4
    <3> QED
      BY <3>1, <3>2, <3>3 DEF mark_checked
  <2> QED
    BY <2>1, <2>2, <2>3 DEF Invalid, Raise, StatusFails
<1>7. StatusInv'
  <2>1. CASE StatusFails
    BY <2>1, PostFailsStep DEF StatusFails, DiagdInv, AewType
  <2>2. CASE UNCHANGED kubeVars
    BY <2>2, KubeStutter DEF DiagdInv
  <2> QED
    BY <2>1, <2>2 DEF Invalid, Raise, Finish, CheckTimers
<1> QED
  BY <1>2, <1>3, <1>4, <1>6, <1>7 DEF DiagdInv

(* The web threads, and ambex. *)
LEMMA WebStep ==
  ASSUME DiagdInv, NEW h \in Handlers, Request(h) \/ Handle(h) PROVE DiagdInv'
<1> USE DEF Handle
<1>0. /\ OutputType /\ WebType /\ 0 \in Versions /\ web[h].ir \in Versions
      /\ web[h].econf \in Versions /\ app.ir \in Versions /\ app.econf \in Versions
  BY LoadAssumption DEF DiagdInv, OutputType, WebType, Versions, LoadAssumption
<1>1. UNCHANGED <<kubeVars, events, waiting, aew, loads, commands, ads, ambex, reconf_stats, env,
                  config_lock>>
  BY DEF Request, CheckDiag, LockDiag, ReadIR, ReadEconf, StoreDiag, ReturnDiag, aewVars
<1>2. diag_lock' \in {Free} \cup Handlers
  BY <1>0 DEF Request, CheckDiag, LockDiag, ReadIR, ReadEconf, StoreDiag, ReturnDiag, WebType
<1>3. web' \in [Handlers -> [pc : WebSteps, ir : Versions, econf : Versions]]
  <2>1. CASE Request(h) \/ CheckDiag(h) \/ LockDiag(h) \/ ReturnDiag(h)
    BY <1>0, <2>1 DEF Request, CheckDiag, LockDiag, ReturnDiag, Step, Show, WebType, WebSteps
  <2>2. CASE ReadIR(h)
    BY <1>0, <2>2 DEF ReadIR, WebType, WebSteps
  <2>3. CASE ReadEconf(h)
    BY <1>0, <2>3 DEF ReadEconf, WebType, WebSteps
  <2>4. CASE StoreDiag(h)
    BY <1>0, <2>4 DEF StoreDiag, Step, WebType, WebSteps
  <2> QED
    BY <2>1, <2>2, <2>3, <2>4
<1>4. OutputType'
  <2>1. CASE StoreDiag(h)
    <3>1. [ir |-> web[h].ir, econf |-> web[h].econf] \in Diags
      BY <1>0 DEF Diags
    <3>2. app' \in [ir : Versions, econf : Versions, diag : Diags]
      <4> DEFINE d == [ir |-> web[h].ir, econf |-> web[h].econf]
      <4>1. app' = [app EXCEPT !.diag = d] /\ d \in Diags
        BY <2>1, <3>1 DEF StoreDiag
      <4> HIDE DEF d
      <4> QED
        BY <1>0, <4>1 DEF OutputType
    <3>3. newest' \in Versions
      BY <1>0, <2>1 DEF StoreDiag, OutputType
    <3> QED
      BY <1>0, <1>1, <3>2, <3>3 DEF OutputType
  <2>2. CASE UNCHANGED <<app, newest>>
    BY <1>0, <1>1, <2>2 DEF OutputType
  <2> QED
    BY <2>1, <2>2 DEF Request, CheckDiag, LockDiag, ReadIR, ReadEconf, ReturnDiag
<1>5. StatusInv'
  BY <1>1, KubeStutter DEF DiagdInv
<1>6. QueueType' /\ AewType' /\ StatsType' /\ OneAtATime' /\ Counted'
  BY <1>1 DEF DiagdInv, QueueType, AewType, StatsType, OneAtATime, Counted
<1> QED
  BY <1>2, <1>3, <1>4, <1>5, <1>6 DEF DiagdInv, WebType

(* Every step preserves the invariant. *)
LEMMA StepDiagd ==
  ASSUME DiagdInv, [Next]_vars PROVE DiagdInv'
<1>1. CASE PostConfig \/ PostCommand \/ PostTimer
  BY <1>1, PostersStep
<1>2. CASE Watch
  BY <1>2, TakeConfigStep, TakeOtherStep, MovingStep, EndingStep DEF Watch
<1>3. CASE \E h \in Handlers : Request(h) \/ Handle(h)
  BY <1>3, WebStep
<1>4. CASE AmbexLoads
  <2>1. ambex' \in [hup : BOOLEAN, loaded : Versions]
        /\ UNCHANGED <<kubeVars, events, waiting, aew, loads, commands, ads, reconf_stats, env,
                       diagVars>>
    BY <1>4 DEF AmbexLoads, DiagdInv, OutputType
  <2>2. StatusInv'
    BY <2>1, KubeStutter DEF DiagdInv
  <2> QED
    BY <2>1, <2>2 DEF DiagdInv, diagVars, QueueType, AewType, OutputType, WebType, StatsType,
                      OneAtATime, Counted
<1>5. CASE KubeUpdate
  BY <1>5, WorkerStep, KubeOnly DEF KubeUpdate, DiagdInv
<1>6. CASE UserEdit
  BY <1>6, EditStep, KubeOnly DEF UserEdit, DiagdInv
<1>7. CASE UNCHANGED vars
  BY <1>7, KubeStutter, KubeOnly DEF vars, DiagdInv
<1> QED
  BY <1>1, <1>2, <1>3, <1>4, <1>5, <1>6, <1>7 DEF Next

(* The invariant holds in every reachable state of diagd. *)
THEOREM DiagdStatusInvariant == Spec => []DiagdInv
<1>1. DiagdInv /\ [Next]_vars => DiagdInv'
  BY StepDiagd
<1> QED
  BY <1>1, InitDiagd, PTL DEF Spec

(* The state of diagd stays within its types and bounds: no more            *)
(* reconfigurations, commands or updates than allowed, and a count of       *)
(* incremental reconfigurations that never exceeds those that were started. *)
THEOREM DiagdTypes == Spec => []TypeOK
<1>1. DiagdInv => TypeOK
  BY DEF DiagdInv, StatusInv, QueueType, AewType, OutputType, WebType, StatsType, TypeOK, Posted,
         Snaps, WebSteps
<1> QED
  BY <1>1, DiagdStatusInvariant, PTL

(* An object that exists, that KubeStatus remembers and for which nothing   *)
(* is in the pool has the status that KubeStatus remembers, unless its last *)
(* update failed, was overtaken by an earlier one, or went to an object     *)
(* that has been replaced since the last snapshot.                          *)
THEOREM StatusIsReflected == Spec => []StatusReflected
<1>1. DiagdInv => StatusReflected
  BY DEF DiagdInv, StatusInv, Tracks, StatusReflected
<1> QED
  BY <1>1, DiagdStatusInvariant, PTL
=============================================================================
