-------------------------------- MODULE Acp --------------------------------
(***************************************************************************)
(* The health of the control plane (pkg/acp): the AmbassadorWatcher with   *)
(* its DiagdWatcher and EnvoyWatcher, the goroutine that posts snapshots to *)
(* diagd, and the liveness and readiness probes that are served            *)
(* concurrently.                                                           *)
(*                                                                         *)
(* Time is counted in units; several steps may happen within one, but      *)
(* diagd's answer has a later timestamp than the post it answers.          *)
(***************************************************************************)
EXTENDS Integers

CONSTANTS AliveProbes,   \* requests to check_alive that run concurrently
          ReadyProbes,   \* requests to check_ready that run concurrently
          DiagdGrace,    \* ten minutes
          EnvoyGrace,    \* thirty seconds
          MaxTime        \* bound: the clock

Probes == AliveProbes \cup ReadyProbes

ASSUME ProbeAssumption == AliveProbes \cap ReadyProbes = {}
ASSUME TimeAssumption ==
  DiagdGrace \in Nat \ {0} /\ EnvoyGrace \in Nat \ {0} /\ MaxTime \in Nat

VARIABLES
  now,
  LastSent, LastProcessed, diagdGraceEnd,   \* DiagdWatcher
  LastSucceeded,                            \* EnvoyWatcher
  state, envoyGraceEnd,                     \* AmbassadorWatcher
  posting,    \* the webhook of a snapshot has not returned
  envoyHUP,   \* diagd has written a configuration, and Envoy is started
  envoy,      \* Envoy would answer /ready with 200
  ppc,        \* pc of each probe: "idle", "fetching" or "fetched"
  answer,     \* the last answer of each probe
  began,      \* history: when each running probe started its fetch
  upAt,       \* history: when a fetch last found Envoy ready
  firstDone   \* history: when diagd had processed its first snapshot

diagd   == <<LastSent, LastProcessed, diagdGraceEnd>>
starts  == <<state, envoyGraceEnd, firstDone>>
outside == <<posting, envoyHUP, envoy>>
fetched == <<LastSucceeded, upAt>>
probes  == <<ppc, answer, began>>
vars == <<now, diagd, fetched, starts, outside, probes>>

-----------------------------------------------------------------------------
Zero  == -1    \* the zero time
Time0 == Nat \cup {Zero}

TypeOK ==
  /\ now \in Nat /\ diagdGraceEnd \in Nat
  /\ LastSent \in Time0 /\ LastProcessed \in Time0 /\ envoyGraceEnd \in Time0
  /\ upAt \in Time0 /\ firstDone \in Time0
  /\ state \in {"envoyNotStarted", "envoyStarting", "envoyRunning"}
  /\ LastSucceeded \in BOOLEAN
  /\ posting \in BOOLEAN /\ envoyHUP \in BOOLEAN /\ envoy \in BOOLEAN
  /\ ppc \in [Probes -> {"idle", "fetching", "fetched"}]
  /\ answer \in [Probes -> BOOLEAN]
  /\ began \in [Probes -> Nat]

(* NewAmbassadorWatcher and NewDiagdWatcher, with the grace of the boot. *)
Init ==
  /\ now = 0
  /\ LastSent = Zero /\ LastProcessed = Zero /\ diagdGraceEnd = DiagdGrace
  /\ LastSucceeded = FALSE
  /\ state = "envoyNotStarted" /\ envoyGraceEnd = Zero
  /\ posting = FALSE /\ envoyHUP = FALSE /\ envoy = FALSE
  /\ ppc = [p \in Probes |-> "idle"]
  /\ answer = [p \in Probes |-> FALSE]
  /\ began = [p \in Probes |-> 0]
  /\ upAt = Zero /\ firstDone = Zero

(* AmbassadorWatcher.mutex: a probe holds it while it talks to Envoy, and   *)
(* every other operation needs it for the length of its step.               *)
Unlocked == \A p \in Probes : ppc[p] # "fetching"

-----------------------------------------------------------------------------
Tick ==
  /\ now < MaxTime
  /\ now' = now + 1
  /\ UNCHANGED <<diagd, fetched, starts, outside, probes>>

(* Mutant: every snapshot that is sent extends the grace period. *)
NoteSnapshotSent_Always ==
  /\ Unlocked
  /\ ~posting
  /\ posting' = TRUE
  /\ LastSent' = now
  /\ diagdGraceEnd' = now + DiagdGrace
  /\ UNCHANGED <<now, LastProcessed, fetched, starts, envoyHUP, envoy, probes>>

(* Mutant: only the boot has a grace period. *)
NoteSnapshotSent_Never ==
  /\ Unlocked
  /\ ~posting
  /\ posting' = TRUE
  /\ LastSent' = now
  /\ UNCHANGED <<now, LastProcessed, diagdGraceEnd, fetched, starts, envoyHUP, envoy, probes>>

(* notifyReconfigWebhooks notes the snapshot before it posts it, once       *)
(* however often the connection is refused.                                 *)
NoteSnapshotSent ==
  /\ Unlocked
  /\ ~posting
  /\ posting' = TRUE
  /\ LastSent' = now
  /\ diagdGraceEnd' = IF LastProcessed # Zero THEN now + DiagdGrace ELSE diagdGraceEnd
  /\ UNCHANGED <<now, LastProcessed, fetched, starts, envoyHUP, envoy, probes>>

(* Mutant: each processed snapshot gives Envoy time to come up. *)
NoteSnapshotProcessed_Again ==
  /\ Unlocked
  /\ posting /\ LastSent < now
  /\ posting' = FALSE
  /\ LastProcessed' = now
  /\ state' = IF state = "envoyNotStarted" THEN "envoyStarting" ELSE state
  /\ envoyGraceEnd' = now + EnvoyGrace
  /\ firstDone' = IF state = "envoyNotStarted" THEN now ELSE firstDone
  /\ UNCHANGED <<now, LastSent, diagdGraceEnd, fetched, envoyHUP, envoy, probes>>

(* The webhook has returned, with whatever status.  The first time, Envoy   *)
(* gets its grace period.                                                   *)
NoteSnapshotProcessed ==
  /\ Unlocked
  /\ posting /\ LastSent < now
  /\ posting' = FALSE
  /\ LastProcessed' = now
  /\ IF state = "envoyNotStarted"
     THEN state' = "envoyStarting" /\ envoyGraceEnd' = now + EnvoyGrace /\ firstDone' = now
     ELSE UNCHANGED starts
  /\ UNCHANGED <<now, LastSent, diagdGraceEnd, fetched, envoyHUP, envoy, probes>>

(* diagd signals its first configuration while it processes a snapshot (it  *)
(* never does if that fails), runEnvoy starts Envoy, and Envoy then becomes *)
(* ready or unready by itself.                                              *)
runEnvoy ==
  /\ posting /\ ~envoyHUP
  /\ envoyHUP' = TRUE
  /\ UNCHANGED <<now, diagd, fetched, starts, posting, envoy, probes>>

EnvoyChange ==
  /\ envoyHUP
  /\ envoy' = ~envoy
  /\ UNCHANGED <<now, diagd, fetched, starts, posting, envoyHUP, probes>>

-----------------------------------------------------------------------------
(* Mutant: readiness takes the result of the last fetch. *)
FetchBegin_Skip(p) ==
  /\ Unlocked /\ ppc[p] = "idle"
  /\ ppc' = [ppc EXCEPT ![p] = IF p \in ReadyProbes THEN "fetched" ELSE "fetching"]
  /\ began' = [began EXCEPT ![p] = now]
  /\ UNCHANGED <<now, diagd, fetched, starts, outside, answer>>

(* handleCheckAlive and handleCheckReady first fetch /ready from Envoy ...  *)
FetchBegin(p) ==
  /\ Unlocked /\ ppc[p] = "idle"
  /\ ppc' = [ppc EXCEPT ![p] = "fetching"]
  /\ began' = [began EXCEPT ![p] = now]
  /\ UNCHANGED <<now, diagd, fetched, starts, outside, answer>>

(* ... which may fail in any case: a timeout, or a caller that gave up.     *)
FetchEnd(p, succeeded) ==
  /\ ppc[p] = "fetching"
  /\ succeeded => envoy
  /\ ppc' = [ppc EXCEPT ![p] = "fetched"]
  /\ LastSucceeded' = succeeded
  /\ upAt' = IF succeeded THEN now ELSE upAt
  /\ UNCHANGED <<now, diagd, starts, outside, answer, began>>

-----------------------------------------------------------------------------
(* DiagdWatcher.IsAlive and IsReady *)
withinGracePeriod == now < diagdGraceEnd

Processed == LastSent # Zero /\ LastProcessed # Zero /\ LastSent < LastProcessed

diagdIsAlive == Processed \/ withinGracePeriod

diagdIsReady ==
  /\ LastSent # Zero /\ LastProcessed # Zero
  /\ LastSent < LastProcessed \/ withinGracePeriod

(* AmbassadorWatcher.IsAlive and IsReady *)
IsAlive ==
  /\ diagdIsAlive
  /\ \/ state = "envoyNotStarted"
     \/ state = "envoyStarting" /\ (LastSucceeded \/ now < envoyGraceEnd)
     \/ state = "envoyRunning" /\ LastSucceeded

IsReady == diagdIsReady /\ LastSucceeded

CheckAlive(p) ==
  /\ p \in AliveProbes
  /\ Unlocked /\ ppc[p] = "fetched"
  /\ ppc' = [ppc EXCEPT ![p] = "idle"]
  /\ answer' = [answer EXCEPT ![p] = IsAlive]
  /\ state' = IF state = "envoyStarting" /\ diagdIsAlive /\ LastSucceeded
              THEN "envoyRunning" ELSE state
  /\ began' = [began EXCEPT ![p] = 0]
  /\ UNCHANGED <<now, diagd, fetched, envoyGraceEnd, firstDone, outside>>

CheckReady(p) ==
  /\ p \in ReadyProbes
  /\ Unlocked /\ ppc[p] = "fetched"
  /\ ppc' = [ppc EXCEPT ![p] = "idle"]
  /\ answer' = [answer EXCEPT ![p] = IsReady]
  /\ began' = [began EXCEPT ![p] = 0]
  /\ UNCHANGED <<now, diagd, fetched, starts, outside>>

-----------------------------------------------------------------------------
Next ==
  \/ Tick
  \/ NoteSnapshotSent \/ NoteSnapshotProcessed
  \/ runEnvoy \/ EnvoyChange
  \/ \E p \in Probes : \/ FetchBegin(p)
                       \/ \E succeeded \in BOOLEAN : FetchEnd(p, succeeded)
                       \/ CheckAlive(p) \/ CheckReady(p)

Spec == Init /\ [][Next]_vars

-----------------------------------------------------------------------------
(* A diagd that hangs is found out: it is neither alive nor ready once a    *)
(* snapshot has been with it for the grace period, nor is it alive if it    *)
(* has not processed anything within the grace period of the boot, however  *)
(* often snapshots are sent.                                                *)
HungDiagdNoticed ==
  /\ posting /\ now >= LastSent + DiagdGrace => ~diagdIsAlive /\ ~diagdIsReady
  /\ LastProcessed = Zero /\ now >= DiagdGrace => ~diagdIsAlive

(* A diagd that works is kept: after its first snapshot it stays alive and  *)
(* ready as long as no snapshot takes it the whole grace period.            *)
WorkingDiagdKept ==
  LastProcessed # Zero /\ (posting => now < LastSent + DiagdGrace)
    => diagdIsAlive /\ diagdIsReady

(* Envoy must start: if no fetch has found it ready, the control plane is   *)
(* not alive beyond Envoy's grace period after the first snapshot, whatever *)
(* snapshots are processed meanwhile.                                       *)
EnvoyMustStart ==
  upAt = Zero /\ firstDone # Zero /\ now >= firstDone + EnvoyGrace => ~IsAlive

(* A probe that answers "alive" of a running Envoy, or "ready", can vouch   *)
(* for it: Envoy answered some fetch that ended after this probe's began,   *)
(* although other probes overwrite LastSucceeded meanwhile.                 *)
AnswerVouched ==
  [][\A p \in Probes :
       /\ ppc[p] = "fetched" /\ ppc'[p] = "idle" /\ answer'[p]
       /\ p \in ReadyProbes \/ state' = "envoyRunning"
       => upAt >= began[p]]_vars
=============================================================================
