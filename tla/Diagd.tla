------------------------------- MODULE Diagd -------------------------------
(***************************************************************************)
(* diagd as a process: the event watcher thread that reconfigures, the web *)
(* threads that show diagnostics made on demand, the timer thread, and the *)
(* file and the signal that hand a configuration to ambex.                 *)
(*                                                                         *)
(* Configurations are versions, one for each reconfiguration attempted;    *)
(* how one is compiled is the subject of Fetch, Compiler and Reconfigure.  *)
(* The steps of _load_ir are separate where another thread can see the     *)
(* difference.  What is only displayed (notices, timers, log levels) is    *)
(* left out.                                                               *)
(***************************************************************************)
EXTENDS KubeStatus

CONSTANTS Handlers,     \* web threads
          MaxLoads,     \* bound: reconfigurations
          MaxCommands,  \* bound: test commands of CONFIG_FS
          Retries,      \* validation_retries
          MaxIncr       \* max_incr_between_checks

ASSUME LoadAssumption == MaxLoads \in Nat /\ MaxCommands \in Nat
ASSUME HandlerAssumption == "free" \notin Handlers
ASSUME RetryAssumption == Retries \in Nat \ {0} /\ MaxIncr \in Nat \ {0}

VARIABLES
  events,    \* the queue: who posted and what
  waiting,   \* the posters that wait for an answer
  aew,       \* the event watcher: [pc, from, ver, kind, snap, tries]
  loads,     \* reconfigurations started
  commands,  \* commands handled
  app,       \* [ir, econf, diag]: app.ir, app.econf, app._diag
  config_lock, diag_lock,
  ads,       \* the ADS configuration on disk
  ambex,     \* [hup, loaded]: a signal is pending; what ambex has loaded
  web,       \* handler -> [pc, ir, econf]
  newest,    \* history: newest IR of any diagnostics stored
  reconf_stats,
  env        \* [chimed, last_chime, env_good]

diagVars == <<app, config_lock, diag_lock, web, newest>>
vars == <<kubeVars, events, waiting, aew, loads, commands, ads, ambex,
          reconf_stats, env, diagVars>>

Posters  == {"watt", "fs", "timer"}
Versions == 0 .. MaxLoads
NoDiag   == [ir |-> 0, econf |-> 0]
Diags    == [ir : Versions, econf : Versions]
Free     == "free"
Nobody   == "nobody"
NoSnap   == [o \in Objects |-> Absent]
Idle     == [pc |-> "idle", from |-> Nobody, ver |-> 0, kind |-> "complete",
             snap |-> NoSnap, tries |-> 0]

Events == {"CONFIG", "TIMER", "CHIME", "CHIME_RESET", "ENV_OK", "ENV_BAD", "BAD"}
Steps  == {"load", "validate", "write", "clustermap", "econf", "diag",
           "signal", "status", "finish"}

TypeOK ==
  /\ KubeTypeOK
  /\ events \in Seq([cmd : Events, from : Posters])
  /\ waiting \subseteq Posters
  /\ aew \in [pc : Steps \cup {"idle", "timers"}, from : Posters \cup {Nobody}, ver : Versions,
              kind : {"complete", "incremental"}, snap : [Objects -> Texts \cup {Absent}],
              tries : 0 .. Retries]
  /\ loads \in Versions /\ commands \in 0 .. MaxCommands
  /\ app \in [ir : Versions, econf : Versions, diag : Diags]
  /\ config_lock \in {Free, "aew"} /\ diag_lock \in {Free} \cup Handlers
  /\ ads \in Versions
  /\ ambex \in [hup : BOOLEAN, loaded : Versions]
  /\ web \in [Handlers -> [pc : {"idle", "check", "lock", "ir", "econf", "store", "return"},
                           ir : Versions, econf : Versions]]
  /\ newest \in Versions
  /\ reconf_stats \in [last : {"none", "complete", "incremental"}, completed : BOOLEAN,
                       checked : BOOLEAN, incrementals : 0 .. MaxLoads]
  /\ env \in [chimed : BOOLEAN, last_chime : BOOLEAN, env_good : BOOLEAN]

(* DiagApp.setup, AmbassadorEventWatcher.__init__ and ReconfigStats.__init__ *)
Init ==
  /\ KubeInit
  /\ events = <<>>
  /\ waiting = {}
  /\ aew = Idle
  /\ loads = 0 /\ commands = 0
  /\ app = [ir |-> 0, econf |-> 0, diag |-> NoDiag]
  /\ config_lock = Free /\ diag_lock = Free
  /\ ads = 0
  /\ ambex = [hup |-> FALSE, loaded |-> 0]
  /\ web = [h \in Handlers |-> [pc |-> "idle", ir |-> 0, econf |-> 0]]
  /\ newest = 0
  /\ reconf_stats = [last |-> "none", completed |-> FALSE, checked |-> FALSE,
                     incrementals |-> 0]
  /\ env = [chimed |-> FALSE, last_chime |-> FALSE, env_good |-> FALSE]

-----------------------------------------------------------------------------
(* ReconfigStats.mark: the first reconfiguration counts as a complete one.  *)
mark(rs, what) ==
  IF what = "incremental" /\ rs.completed
  THEN [rs EXCEPT !.last = what, !.incrementals = @ + 1]
  ELSE [last |-> "complete", completed |-> TRUE, checked |-> TRUE, incrementals |-> 0]

(* ReconfigStats.needs_check: enough incrementals, or too long a time.      *)
needs_check(rs, late) ==
  /\ rs.last = "incremental"
  /\ rs.incrementals > 0
  /\ rs.incrementals >= MaxIncr \/ late

(* Mutant: the incrementals are still outstanding after a check. *)
mark_checked_Keep(rs) == [rs EXCEPT !.checked = TRUE]

(* ReconfigStats.mark_checked *)
mark_checked(rs) == [rs EXCEPT !.incrementals = 0, !.checked = TRUE]

(* AmbassadorEventWatcher.chime *)
chime(e) == [e EXCEPT !.chimed = TRUE, !.last_chime = e.env_good]

(* The test commands of load_config_fs. *)
command(e, cmd) ==
  CASE cmd = "CHIME"       -> chime(e)
    [] cmd = "CHIME_RESET" -> [chimed |-> FALSE, last_chime |-> FALSE, env_good |-> FALSE]
    [] cmd = "ENV_OK"      -> [e EXCEPT !.env_good = TRUE]
    [] cmd = "ENV_BAD"     -> [e EXCEPT !.env_good = FALSE]
    [] OTHER               -> e

-----------------------------------------------------------------------------
(* AmbassadorEventWatcher.post, called by handle_watt_update, handle_fs and *)
(* the timer thread: each waits for its answer before it posts again.       *)
Post(p, cmd) ==
  /\ p \notin waiting
  /\ events' = Append(events, [cmd |-> cmd, from |-> p])
  /\ waiting' = waiting \cup {p}
  /\ UNCHANGED <<kubeVars, aew, loads, commands, ads, ambex, reconf_stats, env, diagVars>>

_respond(p) == waiting' = waiting \ {p}

Queued(cmd) == Cardinality({i \in DOMAIN events : events[i].cmd = cmd})

PostConfig ==
  /\ loads + Queued("CONFIG") < MaxLoads
  /\ Post("watt", "CONFIG")

PostCommand ==
  /\ commands < MaxCommands
  /\ \E c \in Events \ {"CONFIG", "TIMER"} : Post("fs", c)

PostTimer == Post("timer", "TIMER")

(* run: the next event.  A reconfiguration begins ... *)
TakeConfig ==
  /\ aew.pc = "idle" /\ events # <<>> /\ Head(events).cmd = "CONFIG"
  /\ loads' = loads + 1
  /\ aew' = [Idle EXCEPT !.pc = "load", !.from = Head(events).from, !.ver = loads + 1]
  /\ events' = Tail(events)
  /\ UNCHANGED <<kubeVars, waiting, commands, ads, ambex, reconf_stats, env, diagVars>>

(* ... a command is obeyed at once ... *)
TakeCommand ==
  /\ aew.pc = "idle" /\ events # <<>> /\ Head(events).cmd \notin {"CONFIG", "TIMER"}
  /\ env' = command(env, Head(events).cmd)
  /\ commands' = commands + 1
  /\ events' = Tail(events)
  /\ _respond(Head(events).from)
  /\ UNCHANGED <<kubeVars, aew, loads, ads, ambex, reconf_stats, diagVars>>

(* ... and the timer is answered before the timers are looked at.           *)
TakeTimer ==
  /\ aew.pc = "idle" /\ events # <<>> /\ Head(events).cmd = "TIMER"
  /\ events' = Tail(events)
  /\ _respond(Head(events).from)
  /\ aew' = [Idle EXCEPT !.pc = "timers"]
  /\ UNCHANGED <<kubeVars, loads, commands, ads, ambex, reconf_stats, env, diagVars>>

(* check_timers and check_cache.  A failing check is an error that is       *)
(* counted, nothing more.                                                   *)
CheckTimers ==
  /\ aew.pc = "timers"
  /\ \E late \in BOOLEAN :
       reconf_stats' = IF needs_check(reconf_stats, late)
                       THEN mark_checked(reconf_stats) ELSE reconf_stats
  /\ aew' = Idle
  /\ UNCHANGED <<kubeVars, events, waiting, loads, commands, ads, ambex, env, diagVars>>

-----------------------------------------------------------------------------
Goto(from, to) == aew.pc = from /\ aew' = [aew EXCEPT !.pc = to]

(* load_config_watt, load_config_fs and the first half of _load_ir: the     *)
(* snapshot is read and compiled.  Without listeners nothing is validated.  *)
Load ==
  /\ aew.pc = "load"
  /\ \E k \in {"complete", "incremental"}, next \in {"validate", "write"} :
       aew' = [aew EXCEPT !.pc = next, !.kind = k, !.snap = world, !.tries = Retries]
  /\ UNCHANGED <<kubeVars, events, waiting, loads, commands, ads, ambex, reconf_stats, env,
                 diagVars>>

(* validate_envoy_config: Envoy accepts the configuration ... *)
Validate ==
  /\ Goto("validate", "write")
  /\ UNCHANGED <<kubeVars, events, waiting, loads, commands, ads, ambex, reconf_stats, env,
                 diagVars>>

(* Mutant: the tries are never used up. *)
ValidateTimesOut_Endless ==
  /\ aew.pc = "validate"
  /\ aew' = [aew EXCEPT !.tries = @ - 1]
  /\ UNCHANGED <<kubeVars, events, waiting, loads, commands, ads, ambex, reconf_stats, env,
                 diagVars>>

(* ... or takes too long and is tried again ... *)
ValidateTimesOut ==
  /\ aew.pc = "validate" /\ aew.tries > 1
  /\ aew' = [aew EXCEPT !.tries = @ - 1]
  /\ UNCHANGED <<kubeVars, events, waiting, loads, commands, ads, ambex, reconf_stats, env,
                 diagVars>>

(* ... or rejects it, or has timed out too often: nothing is updated.       *)
Invalid ==
  /\ aew.pc = "validate"
  /\ _respond(aew.from)
  /\ aew' = Idle
  /\ UNCHANGED <<kubeVars, events, loads, commands, ads, ambex, reconf_stats, env, diagVars>>

(* Mutant: the new ADS configuration is not renamed. *)
WriteFiles_NoRename ==
  /\ Goto("write", "clustermap")
  /\ UNCHANGED <<kubeVars, events, waiting, loads, commands, ads, ambex, reconf_stats, env,
                 diagVars>>

(* The snapshots are rotated, the bootstrap configuration is written, and   *)
(* the ADS configuration, first beside the old one and then renamed.        *)
WriteFiles ==
  /\ Goto("write", "clustermap")
  /\ ads' = aew.ver
  /\ UNCHANGED <<kubeVars, events, waiting, loads, commands, ambex, reconf_stats, env, diagVars>>

(* Mutant: the handler of exceptions does not answer. *)
Raise_Silent ==
  /\ aew.pc \in {"load", "validate", "write", "clustermap"}
  /\ aew' = Idle
  /\ UNCHANGED <<kubeVars, events, waiting, loads, commands, ads, ambex, reconf_stats, env,
                 diagVars>>

(* An exception, caught by run: 500 whatever was done so far.  Exceptions   *)
(* come from loading and compiling, from the file system, from a validator  *)
(* that cannot be run; ambex lives in the process that started diagd, so    *)
(* kill finds it.                                                           *)
Raise ==
  /\ aew.pc \in {"load", "validate", "write", "clustermap"}
  /\ _respond(aew.from)
  /\ aew' = Idle
  /\ UNCHANGED <<kubeVars, events, loads, commands, ads, ambex, reconf_stats, env, diagVars>>

(* The clustermap is written; then, under config_lock: app.ir, app.econf    *)
(* and app.diag, one after the other for a thread without the lock.         *)
SetIR ==
  /\ config_lock = Free /\ Goto("clustermap", "econf")
  /\ config_lock' = "aew"
  /\ app' = [app EXCEPT !.ir = aew.ver]
  /\ UNCHANGED <<kubeVars, events, waiting, loads, commands, ads, ambex, reconf_stats, env,
                 diag_lock, web, newest>>

SetEconf ==
  /\ Goto("econf", "diag")
  /\ app' = [app EXCEPT !.econf = aew.ver]
  /\ UNCHANGED <<kubeVars, events, waiting, loads, commands, ads, ambex, reconf_stats, env,
                 config_lock, diag_lock, web, newest>>

ResetDiag ==
  /\ Goto("diag", "signal")
  /\ app' = [app EXCEPT !.diag = NoDiag]
  /\ config_lock' = Free
  /\ UNCHANGED <<kubeVars, events, waiting, loads, commands, ads, ambex, reconf_stats, env,
                 diag_lock, web, newest>>

(* os.kill(ambex_pid, SIGHUP) *)
Signal ==
  /\ Goto("signal", "status")
  /\ ambex' = [ambex EXCEPT !.hup = TRUE]
  /\ UNCHANGED <<kubeVars, events, waiting, loads, commands, ads, reconf_stats, env, diagVars>>

(* mark_live, prune and post for k8s_status_updates *)
Status ==
  /\ Goto("status", "finish")
  /\ PostStatuses(aew.snap)
  /\ UNCHANGED <<events, waiting, loads, commands, ads, ambex, reconf_stats, env, diagVars>>

StatusFails ==
  /\ aew.pc = "status"
  /\ PostFails(aew.snap)
  /\ _respond(aew.from)
  /\ aew' = Idle
  /\ UNCHANGED <<events, loads, commands, ads, ambex, reconf_stats, env, diagVars>>

(* The answer, reconf_stats.mark, check_environment and chime.              *)
Finish ==
  /\ aew.pc = "finish"
  /\ aew' = Idle
  /\ _respond(aew.from)
  /\ reconf_stats' = mark(reconf_stats, aew.kind)
  /\ \E good \in BOOLEAN : env' = chime([env EXCEPT !.env_good = good])
  /\ UNCHANGED <<kubeVars, events, loads, commands, ads, ambex, diagVars>>

-----------------------------------------------------------------------------
Step(h, pc) == web' = [web EXCEPT ![h].pc = pc]

(* What is in app.diag is shown; without it, the request fails.             *)
Show(h) == web' = [web EXCEPT ![h] = [pc |-> "idle", ir |-> 0, econf |-> 0]]

aewVars == <<kubeVars, events, waiting, aew, loads, commands, ads, ambex, reconf_stats, env>>

(* show_overview and show_intermediate, once there is an IR.                *)
Request(h) ==
  /\ web[h].pc = "idle" /\ app.ir # 0
  /\ Step(h, "check")
  /\ UNCHANGED <<aewVars, app, config_lock, diag_lock, newest>>

(* The diag property: under config_lock, the diagnostics if there are any.  *)
CheckDiag(h) ==
  /\ web[h].pc = "check" /\ config_lock = Free
  /\ IF app.diag # NoDiag THEN Show(h) ELSE Step(h, "lock")
  /\ UNCHANGED <<aewVars, app, config_lock, diag_lock, newest>>

(* Mutant: no diag_lock. *)
LockDiag_No(h) ==
  /\ web[h].pc = "lock"
  /\ IF app.diag # NoDiag THEN Show(h) ELSE Step(h, "ir")
  /\ UNCHANGED <<aewVars, app, config_lock, diag_lock, newest>>

(* Under diag_lock: somebody else's diagnostics, or our own.                *)
LockDiag(h) ==
  /\ web[h].pc = "lock" /\ diag_lock = Free
  /\ IF app.diag # NoDiag THEN Show(h) /\ UNCHANGED diag_lock
     ELSE Step(h, "ir") /\ diag_lock' = h
  /\ UNCHANGED <<aewVars, app, config_lock, newest>>

(* _generate_diagnostics: app.ir and app.econf, without config_lock.  There *)
(* may be no econf yet; then there are no diagnostics.                      *)
ReadIR(h) ==
  /\ web[h].pc = "ir"
  /\ IF app.econf = 0
     THEN /\ web' = [web EXCEPT ![h] = [pc |-> "idle", ir |-> 0, econf |-> 0]]
          /\ diag_lock' = Free
     ELSE web' = [web EXCEPT ![h] = [pc |-> "econf", ir |-> app.ir, econf |-> 0]]
          /\ UNCHANGED diag_lock
  /\ UNCHANGED <<aewVars, app, config_lock, newest>>

ReadEconf(h) ==
  /\ web[h].pc = "econf"
  /\ web' = [web EXCEPT ![h].pc = "store", ![h].econf = app.econf]
  /\ UNCHANGED <<aewVars, app, config_lock, diag_lock, newest>>

(* app._diag = _diag, under config_lock *)
StoreDiag(h) ==
  /\ web[h].pc = "store" /\ config_lock = Free
  /\ app' = [app EXCEPT !.diag = [ir |-> web[h].ir, econf |-> web[h].econf]]
  /\ newest' = IF web[h].ir > newest THEN web[h].ir ELSE newest
  /\ Step(h, "return")
  /\ UNCHANGED <<aewVars, config_lock, diag_lock>>

(* Mutant: diag_lock is not released. *)
ReturnDiag_Keep(h) ==
  /\ web[h].pc = "return"
  /\ Show(h)
  /\ UNCHANGED <<aewVars, app, config_lock, diag_lock, newest>>

(* return app._diag, which may have been reset: then show_overview asserts. *)
ReturnDiag(h) ==
  /\ web[h].pc = "return"
  /\ Show(h)
  /\ diag_lock' = Free
  /\ UNCHANGED <<aewVars, app, config_lock, newest>>

(* ambex gets the signal and reads the ADS configuration.                   *)
AmbexLoads ==
  /\ ambex.hup
  /\ ambex' = [hup |-> FALSE, loaded |-> ads]
  /\ UNCHANGED <<kubeVars, events, waiting, aew, loads, commands, ads, reconf_stats, env,
                 diagVars>>

KubeUpdate ==
  /\ KubeWorker
  /\ UNCHANGED <<events, waiting, aew, loads, commands, ads, ambex, reconf_stats, env, diagVars>>

UserEdit ==
  /\ loads < MaxLoads
  /\ \E o \in Objects, t \in Texts \cup {Absent} : Edit(o, t)
  /\ UNCHANGED <<events, waiting, aew, loads, commands, ads, ambex, reconf_stats, env, diagVars>>

Watch ==
  \/ TakeConfig \/ TakeCommand \/ TakeTimer \/ CheckTimers
  \/ Load \/ Validate \/ ValidateTimesOut \/ Invalid \/ WriteFiles \/ Raise
  \/ SetIR \/ SetEconf \/ ResetDiag \/ Signal \/ Status \/ StatusFails \/ Finish

Handle(h) ==
  CheckDiag(h) \/ LockDiag(h) \/ ReadIR(h) \/ ReadEconf(h) \/ StoreDiag(h) \/ ReturnDiag(h)

Next ==
  \/ PostConfig \/ PostCommand \/ PostTimer
  \/ Watch
  \/ \E h \in Handlers : Request(h) \/ Handle(h)
  \/ AmbexLoads \/ KubeUpdate \/ UserEdit

Spec == Init /\ [][Next]_vars

(* The threads run; diagd's timer keeps firing; nobody has to ask for       *)
(* anything else.                                                           *)
FairSpec ==
  /\ Spec
  /\ WF_vars(Watch) /\ WF_vars(PostTimer)
  /\ \A h \in Handlers : WF_vars(Handle(h))
  /\ WF_vars(AmbexLoads) /\ WF_vars(KubeUpdate)

-----------------------------------------------------------------------------
(* Once diagd is idle and its signals have been received, ambex has the     *)
(* configuration that diagd shows, or a newer one that diagd failed to      *)
(* install: never an older one.                                             *)
Delivered ==
  (aew.pc = "idle" /\ ~ambex.hup) => ambex.loaded >= app.ir /\ ads >= app.ir

(* The locks keep a slow web thread from replacing diagnostics by ones of   *)
(* an older configuration.                                                  *)
DiagNeverBackwards ==
  [][app'.diag \in {app.diag, NoDiag} \/ app'.diag.ir >= newest]_vars

(* Resetting app.diag makes the diagnostics those of the configuration:     *)
(* "Force app.diag to None so that it'll be regenerated on-demand."         *)
DiagFresh ==
  (config_lock = Free /\ app.diag # NoDiag) => app.diag = [ir |-> app.ir, econf |-> app.econf]

(* Every post is answered, by the handler of the event or by the handler of *)
(* its exception.                                                           *)
EveryPostAnswered == \A p \in Posters : p \in waiting ~> p \notin waiting

(* Nobody waits for a lock for ever: a request is shown something.          *)
EveryRequestShown == \A h \in Handlers : web[h].pc # "idle" ~> web[h].pc = "idle"

(* Once enough incremental reconfigurations are outstanding, the cache is   *)
(* checked or built anew.                                                   *)
ChecksHappen == reconf_stats.incrementals >= MaxIncr ~> reconf_stats.incrementals = 0
=============================================================================
