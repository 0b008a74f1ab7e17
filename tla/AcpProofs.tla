----------------------------- MODULE AcpProofs -----------------------------
(***************************************************************************)
(* What the health probes promise, for any number of concurrent probes and *)
(* any grace periods, proved from an inductive invariant of Acp.           *)
(***************************************************************************)
EXTENDS Acp, TLAPS

(* LastSent and LastProcessed tell whether diagd has a snapshot, and the    *)
(* grace period is the boot's until diagd has processed one.                *)
DiagdTimes ==
  /\ LastSent <= now /\ LastProcessed <= now
  /\ LastProcessed # Zero => LastSent # Zero
  /\ posting => LastSent # Zero /\ LastProcessed <= LastSent
  /\ ~posting /\ LastSent # Zero => LastSent < LastProcessed
  /\ LastProcessed = Zero => diagdGraceEnd = DiagdGrace
  /\ posting /\ LastProcessed # Zero => diagdGraceEnd = LastSent + DiagdGrace

(* Envoy's grace period starts with the first processed snapshot, and Envoy *)
(* is taken as running only if a fetch has found it ready.                  *)
EnvoyTimes ==
  /\ upAt = Zero => ~LastSucceeded /\ state # "envoyRunning"
  /\ state = "envoyNotStarted" <=> firstDone = Zero
  /\ firstDone # Zero => envoyGraceEnd = firstDone + EnvoyGrace

(* A result that a probe is about to use is not older than the probe. *)
Vouched ==
  \A p \in Probes :
    /\ began[p] <= now
    /\ ppc[p] = "fetched" /\ LastSucceeded => upAt >= began[p]

IInv == TypeOK /\ DiagdTimes /\ EnvoyTimes /\ Vouched

-----------------------------------------------------------------------------
(* The initial state satisfies the invariant. *)
LEMMA InitInv == Init => IInv
<1> SUFFICES ASSUME Init PROVE IInv
  OBVIOUS
<1> USE TimeAssumption DEF TimeAssumption, Zero, Time0
<1>1. TypeOK
  BY DEF Init, TypeOK
<1>2. DiagdTimes
  BY DEF Init, DiagdTimes
<1>3. EnvoyTimes
  BY DEF Init, EnvoyTimes
<1>4. Vouched
  BY DEF Init, Vouched
<1> QED
  BY <1>1, <1>2, <1>3, <1>4 DEF IInv

(* Every step keeps the types. *)
LEMMA NextType == ASSUME TypeOK, [Next]_vars PROVE TypeOK'
<1> USE TimeAssumption DEF TimeAssumption, Zero, Time0, TypeOK
<1>1. CASE Tick
  BY <1>1 DEF Tick, diagd, fetched, starts, outside, probes
<1>2. CASE NoteSnapshotSent
  BY <1>2 DEF NoteSnapshotSent, fetched, starts, probes
<1>3. CASE NoteSnapshotProcessed
  <2>1. now + EnvoyGrace \in Nat
    OBVIOUS
  <2>2. /\ state' \in {"envoyNotStarted", "envoyStarting", "envoyRunning"}
        /\ envoyGraceEnd' \in Time0 /\ firstDone' \in Time0
    BY <1>3, <2>1 DEF NoteSnapshotProcessed, starts
  <2> QED
    BY <1>3, <2>2 DEF NoteSnapshotProcessed, fetched, probes
<1>4. CASE runEnvoy \/ EnvoyChange
  BY <1>4 DEF runEnvoy, EnvoyChange, diagd, fetched, starts, probes
<1>5. CASE \E p \in Probes : FetchBegin(p)
  BY <1>5 DEF FetchBegin, diagd, fetched, starts, outside
<1>6. CASE \E p \in Probes, succeeded \in BOOLEAN : FetchEnd(p, succeeded)
  BY <1>6 DEF FetchEnd, diagd, starts, outside
<1>7. CASE \E p \in Probes : CheckAlive(p)
  <2> PICK p \in Probes : CheckAlive(p)
    BY <1>7
  <2>1. IsAlive \in BOOLEAN
    BY DEF IsAlive
  <2>2. answer' \in [Probes -> BOOLEAN] /\ ppc' \in [Probes -> {"idle", "fetching", "fetched"}]
    BY <2>1 DEF CheckAlive
  <2>3. began' \in [Probes -> Nat]
    BY DEF CheckAlive
  <2> QED
    BY <2>2, <2>3 DEF CheckAlive, diagd, fetched, outside
<1>8. CASE \E p \in Probes : CheckReady(p)
  <2> PICK p \in Probes : CheckReady(p)
    BY <1>8
  <2>1. IsReady \in BOOLEAN
    BY DEF IsReady
  <2>2. answer' \in [Probes -> BOOLEAN] /\ ppc' \in [Probes -> {"idle", "fetching", "fetched"}]
    BY <2>1 DEF CheckReady
  <2>3. began' \in [Probes -> Nat]
    BY DEF CheckReady
  <2> QED
    BY <2>2, <2>3 DEF CheckReady, diagd, fetched, starts, outside
<1>9. CASE UNCHANGED vars
  BY <1>9 DEF vars, diagd, fetched, starts, outside, probes
<1> QED
  BY <1>1, <1>2, <1>3, <1>4, <1>5, <1>6, <1>7, <1>8, <1>9 DEF Next

(* Every step keeps the two ends of diagd's grace period in place. *)
LEMMA NextDiagd == ASSUME TypeOK, DiagdTimes, [Next]_vars PROVE DiagdTimes'
<1> USE TimeAssumption DEF TimeAssumption, Zero, Time0
<1>1. CASE Tick
  BY <1>1 DEF Tick, diagd, outside, TypeOK, DiagdTimes
<1>2. CASE NoteSnapshotSent
  BY <1>2 DEF NoteSnapshotSent, TypeOK, DiagdTimes
<1>3. CASE NoteSnapshotProcessed
  BY <1>3 DEF NoteSnapshotProcessed, TypeOK, DiagdTimes
<1>4. CASE UNCHANGED <<now, diagd, posting>>
  BY <1>4 DEF diagd, DiagdTimes
<1>5. ASSUME NEW p \in Probes,
             \/ FetchBegin(p) \/ \E succeeded \in BOOLEAN : FetchEnd(p, succeeded)
             \/ CheckAlive(p) \/ CheckReady(p)
      PROVE  UNCHANGED <<now, diagd, posting>>
  BY <1>5 DEF FetchBegin, FetchEnd, CheckAlive, CheckReady, outside
<1>6. ASSUME runEnvoy \/ EnvoyChange \/ UNCHANGED vars
      PROVE  UNCHANGED <<now, diagd, posting>>
  BY <1>6 DEF runEnvoy, EnvoyChange, vars, outside
<1> QED
  BY <1>1, <1>2, <1>3, <1>4, <1>5, <1>6 DEF Next

(* Every step keeps Envoy's grace period and the state machine in step. *)
LEMMA NextEnvoy == ASSUME TypeOK, EnvoyTimes, [Next]_vars PROVE EnvoyTimes'
<1> USE TimeAssumption DEF TimeAssumption, Zero, Time0
<1>1. CASE NoteSnapshotProcessed
  BY <1>1 DEF NoteSnapshotProcessed, starts, fetched, TypeOK, EnvoyTimes
<1>2. CASE \E p \in Probes, succeeded \in BOOLEAN : FetchEnd(p, succeeded)
  BY <1>2 DEF FetchEnd, starts, TypeOK, EnvoyTimes
<1>3. CASE \E p \in Probes : CheckAlive(p)
  BY <1>3 DEF CheckAlive, fetched, TypeOK, EnvoyTimes
<1>4. CASE UNCHANGED <<fetched, starts>>
  BY <1>4 DEF fetched, starts, EnvoyTimes
<1>5. ASSUME NEW p \in Probes, FetchBegin(p) \/ CheckReady(p)
      PROVE  UNCHANGED <<fetched, starts>>
  BY <1>5 DEF FetchBegin, CheckReady
<1>6. ASSUME Tick \/ NoteSnapshotSent \/ runEnvoy \/ EnvoyChange \/ UNCHANGED vars
      PROVE  UNCHANGED <<fetched, starts>>
  BY <1>6 DEF Tick, NoteSnapshotSent, runEnvoy, EnvoyChange, vars
<1> QED
  BY <1>1, <1>2, <1>3, <1>4, <1>5, <1>6 DEF Next

(* Every step keeps the fetched results as young as the probes. *)
LEMMA NextVouched == ASSUME TypeOK, Vouched, [Next]_vars PROVE Vouched'
<1> USE DEF Zero, Time0
<1>1. CASE Tick
  BY <1>1 DEF Tick, fetched, probes, TypeOK, Vouched
<1>2. CASE \E p \in Probes : FetchBegin(p)
  BY <1>2 DEF FetchBegin, fetched, TypeOK, Vouched
<1>3. CASE \E p \in Probes, succeeded \in BOOLEAN : FetchEnd(p, succeeded)
  BY <1>3 DEF FetchEnd, TypeOK, Vouched
<1>4. CASE \E p \in Probes : CheckAlive(p) \/ CheckReady(p)
  BY <1>4 DEF CheckAlive, CheckReady, fetched, TypeOK, Vouched
<1>5. CASE UNCHANGED <<now, fetched, probes>>
  BY <1>5 DEF fetched, probes, Vouched
<1>6. ASSUME NoteSnapshotSent \/ NoteSnapshotProcessed \/ runEnvoy \/ EnvoyChange \/ UNCHANGED vars
      PROVE  UNCHANGED <<now, fetched, probes>>
  BY <1>6 DEF NoteSnapshotSent, NoteSnapshotProcessed, runEnvoy, EnvoyChange, vars
<1> QED
  BY <1>1, <1>2, <1>3, <1>4, <1>5, <1>6 DEF Next

(* The invariant holds in every reachable state of the health watchers. *)
THEOREM AcpInvariant == Spec => []IInv
<1>1. IInv /\ [Next]_vars => IInv'
  BY NextType, NextDiagd, NextEnvoy, NextVouched DEF IInv
<1> QED
  BY InitInv, <1>1, PTL DEF Spec

-----------------------------------------------------------------------------
(* Every reachable state of the health watchers is well typed. *)
THEOREM AcpTypeCorrect == Spec => []TypeOK
<1>1. IInv => TypeOK
  BY DEF IInv
<1> QED
  BY AcpInvariant, <1>1, PTL

(* NoteSnapshotSent never extends the grace period of a diagd that hangs. *)
THEOREM HungDiagdIsNoticed == Spec => []HungDiagdNoticed
<1>1. IInv => HungDiagdNoticed
  <2> SUFFICES ASSUME IInv PROVE HungDiagdNoticed
    OBVIOUS
  <2> USE TimeAssumption DEF TimeAssumption, Zero, Time0, IInv, TypeOK, DiagdTimes
  <2>1. posting /\ now >= LastSent + DiagdGrace => ~withinGracePeriod /\ ~(LastSent < LastProcessed)
    BY DEF withinGracePeriod
  <2>2. LastProcessed = Zero /\ now >= DiagdGrace => ~withinGracePeriod
    BY DEF withinGracePeriod
  <2> QED
    BY <2>1, <2>2 DEF HungDiagdNoticed, diagdIsAlive, diagdIsReady, Processed
<1> QED
  BY AcpInvariant, <1>1, PTL

(* NoteSnapshotSent extends it for every snapshot of a diagd that works. *)
THEOREM WorkingDiagdIsKept == Spec => []WorkingDiagdKept
<1>1. IInv => WorkingDiagdKept
  BY TimeAssumption DEF TimeAssumption, Zero, Time0, IInv, TypeOK, DiagdTimes, WorkingDiagdKept,
     diagdIsAlive, diagdIsReady, Processed, withinGracePeriod
<1> QED
  BY AcpInvariant, <1>1, PTL

(* IsAlive gives up on an Envoy that never answers. *)
THEOREM EnvoyHasToStart == Spec => []EnvoyMustStart
<1>1. IInv => EnvoyMustStart
  BY TimeAssumption DEF TimeAssumption, Zero, Time0, IInv, TypeOK, EnvoyTimes, EnvoyMustStart,
     IsAlive
<1> QED
  BY AcpInvariant, <1>1, PTL

(* handleCheckAlive and handleCheckReady answer for the Envoy of now. *)
THEOREM ProbesVouch == Spec => AnswerVouched
<1>1. ASSUME IInv, [Next]_vars, NEW p \in Probes,
             ppc[p] = "fetched", ppc'[p] = "idle", answer'[p],
             p \in ReadyProbes \/ state' = "envoyRunning"
      PROVE  upAt >= began[p]
  <2>1. CheckAlive(p) \/ CheckReady(p)
    <3>1. ASSUME UNCHANGED ppc PROVE FALSE
      BY <1>1, <3>1
    <3>2. ASSUME NEW q \in Probes, q # p,
                 \/ FetchBegin(q) \/ \E succeeded \in BOOLEAN : FetchEnd(q, succeeded)
                 \/ CheckAlive(q) \/ CheckReady(q)
          PROVE  FALSE
      BY <1>1, <3>2 DEF IInv, TypeOK, FetchBegin, FetchEnd, CheckAlive, CheckReady
    <3>3. ASSUME FetchBegin(p) \/ \E succeeded \in BOOLEAN : FetchEnd(p, succeeded)
          PROVE  FALSE
      BY <1>1, <3>3 DEF FetchBegin, FetchEnd
    <3>4. ASSUME \/ Tick \/ NoteSnapshotSent \/ NoteSnapshotProcessed
                 \/ runEnvoy \/ EnvoyChange \/ UNCHANGED vars
          PROVE  UNCHANGED ppc
      BY <3>4 DEF Tick, NoteSnapshotSent, NoteSnapshotProcessed, runEnvoy, EnvoyChange, vars, probes
    <3> QED
      BY <1>1, <3>1, <3>2, <3>3, <3>4 DEF Next
  <2>2. CASE CheckAlive(p)
    <3>1. p \notin ReadyProbes
      BY <2>2, ProbeAssumption DEF CheckAlive, ProbeAssumption
    <3>2. IsAlive /\ state' = "envoyRunning"
      BY <1>1, <2>2, <3>1 DEF CheckAlive, IInv, TypeOK
    <3>3. LastSucceeded
      BY <2>2, <3>2 DEF CheckAlive, IsAlive
    <3> QED
      BY <1>1, <3>3 DEF IInv, Vouched
  <2>3. CASE CheckReady(p)
    <3>1. LastSucceeded
      BY <1>1, <2>3 DEF CheckReady, IsReady, IInv, TypeOK
    <3> QED
      BY <1>1, <3>1 DEF IInv, Vouched
  <2> QED
    BY <2>1, <2>2, <2>3
<1>2. IInv /\ [Next]_vars =>
        [\A p \in Probes :
           /\ ppc[p] = "fetched" /\ ppc'[p] = "idle" /\ answer'[p]
           /\ p \in ReadyProbes \/ state' = "envoyRunning"
           => upAt >= began[p]]_vars
  BY <1>1
<1> QED
  BY AcpInvariant, <1>2, PTL DEF Spec, AnswerVouched
=============================================================================
