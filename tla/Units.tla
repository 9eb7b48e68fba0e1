------------------------------- MODULE Units --------------------------------
(***************************************************************************)
(* QEMU and swtpm of one VM as transient systemd units: the launcher       *)
(* (proc.SystemdExec), the runtimes on top of it (qemu.Runtime,            *)
(* tpm.Manager) and the service that drives them, one systemctl call or    *)
(* one wait per step.  Each unit has one name, so every watcher, every     *)
(* start and every restarted vm-manager speaks of "the unit" while the     *)
(* process behind it changes.                                              *)
(***************************************************************************)
EXTENDS Naturals

CONSTANTS
    MaxRuns,       \* bound: processes started per unit
    MaxRestarts,   \* bound: restarts of vm-manager
    MaxFaults      \* bound: systemctl calls that fail

ASSUME RunsAssumption ==
    MaxRuns \in Nat /\ MaxRestarts \in Nat /\ MaxFaults \in Nat

Role == {"qemu", "swtpm"}
Run == 1..MaxRuns
NoRun == 0

VARIABLES
    os,         \* the processes
    killed,     \* processes that got SIGKILL and still run
    unit,       \* systemd: the process of the loaded unit, and whether it is reaped
    sock,       \* the QEMU that listens at the path of the QMP socket
    w,          \* unitProcess: the goroutine that watches each process
    status,     \* unitProcess.status: the process whose exit status it is
    pidfd,      \* pidfd_open works on this host
    abandoned,  \* history: processes whose holder returned without waiting
    blind,      \* history: processes settled on a failed systemctl show
    drv,        \* the service: a start, the supervisor or a reattachment
    cur,        \* the processes it holds
    proc,       \* entry.proc, by its QEMU
    stp,        \* a Stop: where it is, and the QEMU it stops
    rec,        \* the record: its state, and whether it has the handles
    mgr,        \* vm-manager: "up", "down"
    restarts, faults

hostVars == <<os, killed, unit, sock, pidfd>>
watchVars == <<w, status, abandoned, blind>>
vars == <<hostVars, watchVars, drv, cur, proc, stp, rec, mgr, restarts, faults>>

NoUnit == [proc |-> NoRun, reaped |-> FALSE]
PerRun(x) == [r \in Role |-> [n \in Run |-> x]]
NoneHeld == [r \in Role |-> NoRun]
IdleDriver == [pc |-> "idle", role |-> "none"]
IdleStop == [pc |-> "idle", qemu |-> NoRun]

\* The record of a VM without a process, stopped or failed: Start accepts it.
Stopped == [state |-> "stopped", handles |-> FALSE]

Init ==
    /\ os = PerRun("unused") /\ killed = {} /\ pidfd \in BOOLEAN
    /\ unit = [r \in Role |-> NoUnit] /\ sock = NoRun
    /\ w = PerRun("none") /\ status = PerRun(NoRun)
    /\ abandoned = {} /\ blind = {}
    /\ drv = IdleDriver /\ cur = NoneHeld /\ proc = NoRun
    /\ stp = IdleStop /\ rec = Stopped
    /\ mgr = "up" /\ restarts = 0 /\ faults = 0

Fault == faults < MaxFaults /\ faults' = faults + 1
Works == UNCHANGED faults

Loaded(r) == unit[r].proc # NoRun
HasMainPID(r) == Loaded(r) /\ ~unit[r].reaped
Running(r, n) == n # NoRun /\ os[r][n] = "running"
Exited(r, n) == n # NoRun /\ w[r][n] = "done"

SigKill(r, n) == killed' = IF Running(r, n) THEN killed \cup {<<r, n>>} ELSE killed
Goto(label) == drv' = [drv EXCEPT !.pc = label]
Abandon(r, n) == abandoned' = abandoned \cup {<<r, n>>}

-----------------------------------------------------------------------------
(* The host.                                                               *)

\* A process ends: on its own, on SIGTERM or on SIGKILL.
ProcessExits(r, n) ==
    /\ os[r][n] = "running"
    /\ os' = [os EXCEPT ![r][n] = "dead"]
    /\ killed' = killed \ {<<r, n>>}
    /\ UNCHANGED <<unit, sock, pidfd, watchVars, drv, cur, proc, stp, rec, mgr, restarts, faults>>

\* systemd reaps it and keeps the unit loaded (RemainAfterExit).
Reap(r) ==
    /\ HasMainPID(r) /\ os[r][unit[r].proc] = "dead"
    /\ unit' = [unit EXCEPT ![r].reaped = TRUE]
    /\ UNCHANGED <<os, killed, sock, pidfd, watchVars, drv, cur, proc, stp, rec, mgr, restarts, faults>>

\* release: systemctl stop ends what still runs in the unit and unloads it.
Release(r) ==
    \/ /\ Works
       /\ os' = [os EXCEPT ![r] = [n \in Run |->
                   IF n = unit[r].proc /\ @[n] = "running" THEN "dead" ELSE @[n]]]
       /\ killed' = killed \ {<<r, unit[r].proc>>}
       /\ unit' = [unit EXCEPT ![r] = NoUnit]
    \/ Fault /\ UNCHANGED <<os, killed, unit>>

-----------------------------------------------------------------------------
(* unitProcess.                                                            *)

\* Mutant: without a pidfd the process is taken to be gone.
WatcherNoPoll(r, n) ==
    w' = [w EXCEPT ![r][n] = IF HasMainPID(r) /\ unit[r].proc = n /\ pidfd THEN "watch"
                             ELSE "status"]

\* process: a main process is watched through a pidfd, or polled when there
\* is none; one that has been reaped is settled at once.
Watcher(r, n) ==
    w' = [w EXCEPT ![r][n] = IF ~HasMainPID(r) \/ unit[r].proc # n THEN "status"
                             ELSE IF pidfd THEN "watch" ELSE "poll"]

\* watch: the pidfd is readable.
Watch(r, n) ==
    /\ w[r][n] = "watch" /\ os[r][n] = "dead"
    /\ w' = [w EXCEPT ![r][n] = "status"]
    /\ UNCHANGED <<hostVars, status, abandoned, blind, drv, cur, proc, stp, rec, mgr, restarts, faults>>

\* poll: the unit has no main process, or cannot be asked.
Poll(r, n) ==
    /\ w[r][n] = "poll"
    /\ \/ ~HasMainPID(r) /\ Works /\ UNCHANGED blind
       \/ Fault /\ blind' = blind \cup {<<r, n>>}
    /\ w' = [w EXCEPT ![r][n] = "status"]
    /\ UNCHANGED <<hostVars, status, abandoned, drv, cur, proc, stp, rec, mgr, restarts>>

Settle(r, n, st, next) ==
    /\ status' = [status EXCEPT ![r][n] = st]
    /\ w' = [w EXCEPT ![r][n] = next]

\* exitStatus: what the unit says of its process; unknown when the unit
\* cannot be asked or is gone, or when time runs out, and then there is no
\* time left for release either.
ExitStatus(r, n) ==
    /\ w[r][n] = "status"
    /\ \/ Fault /\ Settle(r, n, NoRun, "release")
       \/ ~Loaded(r) /\ Works /\ Settle(r, n, NoRun, "release")
       \/ Loaded(r) /\ unit[r].reaped /\ Works
          /\ Settle(r, n, unit[r].proc, "release")
       \/ HasMainPID(r) /\ Works /\ Settle(r, n, NoRun, "done")
    /\ UNCHANGED <<hostVars, abandoned, blind, drv, cur, proc, stp, rec, mgr, restarts>>

\* settle: release, then done is closed.
SettleRelease(r, n) ==
    /\ w[r][n] = "release"
    /\ Release(r)
    /\ w' = [w EXCEPT ![r][n] = "done"]
    /\ UNCHANGED <<sock, pidfd, status, abandoned, blind, drv, cur, proc, stp, rec, mgr, restarts>>

-----------------------------------------------------------------------------
(* startProcess: swtpm, then QEMU.                                         *)

Used(r) == {n \in Run : os[r][n] # "unused"}
Fresh(r) == CHOOSE n \in Run : n \notin Used(r)

\* Start for a VM without a process.
Begin ==
    /\ mgr = "up" /\ drv.pc = "idle" /\ rec.state = "stopped"
    /\ \A r \in Role : Used(r) # Run
    /\ drv' = [pc |-> "show", role |-> "swtpm"]
    /\ UNCHANGED <<hostVars, watchVars, cur, proc, stp, rec, mgr, restarts, faults>>

\* What startProcess does when swtpm or QEMU does not start: swtpm is stopped
\* again when it was QEMU.
StartFailed == IF drv.role = "qemu" THEN Goto("tterm") ELSE Goto("settle")

\* Mutant: every start has a unit name of its own.
NameTakenNot(r) == FALSE

\* UnitName: every start of a role uses the same name, and systemd-run refuses
\* the name of a loaded unit.
NameTaken(r) == Loaded(r)

\* SystemdExec.Start: the first look at the unit; one whose process runs is a
\* conflict, one whose process is gone is stale.
Show ==
    LET r == drv.role IN
    /\ drv.pc = "show"
    /\ \/ Fault /\ StartFailed
       \/ Works /\ NameTaken(r) /\ HasMainPID(r) /\ StartFailed
       \/ Works /\ NameTaken(r) /\ ~HasMainPID(r) /\ Goto("clean")
       \/ Works /\ ~NameTaken(r) /\ Goto("run")
    /\ UNCHANGED <<hostVars, watchVars, cur, proc, stp, rec, mgr, restarts>>

\* SystemdExec.Start: the stale unit is released.
Clean ==
    /\ drv.pc = "clean"
    /\ Release(drv.role)
    /\ Goto("run")
    /\ UNCHANGED <<sock, pidfd, watchVars, cur, proc, stp, rec, mgr, restarts>>

\* SystemdExec.Start: systemd-run.
RunUnit ==
    LET r == drv.role
        n == Fresh(r) IN
    /\ drv.pc = "run"
    /\ \/ /\ \/ Fault
             \/ NameTaken(r) /\ Works
          /\ StartFailed
          /\ UNCHANGED <<os, unit, sock, cur>>
       \/ /\ ~NameTaken(r) /\ Works
          /\ os' = [os EXCEPT ![r][n] = "running"]
          /\ unit' = [unit EXCEPT ![r] = [proc |-> n, reaped |-> FALSE]]
          /\ sock' = IF r = "qemu" THEN n ELSE sock
          /\ cur' = [cur EXCEPT ![r] = n]
          /\ Goto("look")
    /\ UNCHANGED <<killed, pidfd, watchVars, proc, stp, rec, mgr, restarts>>

\* SystemdExec.Start: the second look at the unit.
Look ==
    LET r == drv.role IN
    /\ drv.pc = "look"
    /\ \/ Fault /\ StartFailed /\ cur' = [cur EXCEPT ![r] = NoRun] /\ UNCHANGED w
       \/ Works /\ Watcher(r, cur[r]) /\ Goto("ready") /\ UNCHANGED cur
    /\ UNCHANGED <<hostVars, status, abandoned, blind, proc, stp, rec, mgr, restarts>>

\* waitReady and what tpm.Manager.Start does after it: a swtpm that does not
\* answer is killed and not waited for.
TPMReady ==
    LET n == cur["swtpm"] IN
    /\ drv.pc = "ready" /\ drv.role = "swtpm"
    /\ \/ Running("swtpm", n) /\ Works /\ Goto("prepare") /\ UNCHANGED <<killed, cur, abandoned>>
       \/ /\ IF Exited("swtpm", n) THEN Works /\ UNCHANGED killed
             ELSE \/ Works /\ SigKill("swtpm", n)
                  \/ Fault /\ UNCHANGED killed
          /\ Abandon("swtpm", n)
          /\ cur' = [cur EXCEPT !["swtpm"] = NoRun]
          /\ Goto("settle")
    /\ UNCHANGED <<os, unit, sock, pidfd, w, status, blind, proc, stp, rec, mgr, restarts>>

\* qemu.Runtime.prepare removes the QMP socket at the path.
Prepare ==
    /\ drv.pc = "prepare"
    /\ sock' = NoRun
    /\ drv' = [pc |-> "show", role |-> "qemu"]
    /\ UNCHANGED <<os, killed, unit, pidfd, watchVars, cur, proc, stp, rec, mgr, restarts, faults>>

\* connectQMP, and the commit of the process by the service.
QEMUReady ==
    LET n == cur["qemu"] IN
    /\ drv.pc = "ready" /\ drv.role = "qemu"
    /\ \/ /\ Running("qemu", n) /\ sock = n
          /\ proc' = n /\ rec' = [state |-> "live", handles |-> TRUE]
          /\ Goto("up")
       \/ Goto("kill") /\ UNCHANGED <<proc, rec>>
    /\ UNCHANGED <<hostVars, watchVars, cur, stp, mgr, restarts, faults>>

\* Mutant: Kill returns when the signal is sent.
ReapedNot(r, n) == TRUE

\* Kill waits until the process is reaped.
Reaped(r, n) == Exited(r, n)

\* Instance.Kill of a QEMU that did not answer; without the kill there is no
\* wait.
KillQEMU ==
    LET n == cur["qemu"] IN
    /\ drv.pc = "kill"
    /\ \/ Exited("qemu", n) /\ Works /\ Goto("tterm") /\ UNCHANGED <<killed, abandoned>>
       \/ ~Exited("qemu", n) /\ Works /\ SigKill("qemu", n) /\ Goto("killwait")
          /\ UNCHANGED abandoned
       \/ ~Exited("qemu", n) /\ Fault /\ Abandon("qemu", n) /\ Goto("tterm") /\ UNCHANGED killed
    /\ UNCHANGED <<os, unit, sock, pidfd, w, status, blind, cur, proc, stp, rec, mgr, restarts>>

KillWait ==
    /\ drv.pc = "killwait" /\ Reaped("qemu", cur["qemu"])
    /\ Goto("tterm")
    /\ UNCHANGED <<hostVars, watchVars, cur, proc, stp, rec, mgr, restarts, faults>>

-----------------------------------------------------------------------------
(* The supervisor: onExit stops swtpm and settles the record.              *)

\* Mutant: the supervisor also takes a closed QMP connection for the exit.
ExitSeenEarly(n) == TRUE

\* The supervisor hears of the exit through Wait.
ExitSeen(n) == Exited("qemu", n)

OnExit ==
    /\ drv.pc = "up" /\ ExitSeen(proc)
    /\ Goto("tterm")
    /\ UNCHANGED <<hostVars, watchVars, cur, proc, stp, rec, mgr, restarts, faults>>

\* tpm.Instance.Stop: SIGTERM, and the exit or the end of the grace period; a
\* swtpm that was not reattached is let be.
TPMTerm ==
    LET n == cur["swtpm"] IN
    /\ drv.pc = "tterm"
    /\ Goto(IF n = NoRun \/ Exited("swtpm", n) THEN "settle" ELSE "tkill")
    /\ UNCHANGED <<hostVars, watchVars, cur, proc, stp, rec, mgr, restarts, faults>>

TPMKill ==
    LET n == cur["swtpm"] IN
    /\ drv.pc = "tkill"
    /\ \/ Works /\ SigKill("swtpm", n) /\ Goto("tkwait") /\ UNCHANGED abandoned
       \/ Fault /\ Abandon("swtpm", n) /\ Goto("settle") /\ UNCHANGED killed
    /\ UNCHANGED <<os, unit, sock, pidfd, w, status, blind, cur, proc, stp, rec, mgr, restarts>>

TPMKillWait ==
    /\ drv.pc = "tkwait" /\ Reaped("swtpm", cur["swtpm"])
    /\ Goto("settle")
    /\ UNCHANGED <<hostVars, watchVars, cur, proc, stp, rec, mgr, restarts, faults>>

\* The record is settled; p.done is closed.
SettleRecord ==
    /\ drv.pc = "settle"
    /\ drv' = IdleDriver /\ cur' = NoneHeld /\ proc' = NoRun /\ rec' = Stopped
    /\ UNCHANGED <<hostVars, watchVars, stp, mgr, restarts, faults>>

-----------------------------------------------------------------------------
(* Stop: qemu.Instance.Stop with its escalation, then the wait for the     *)
(* supervisor.                                                             *)

StopGoto(label) == stp' = [stp EXCEPT !.pc = label]
StopUnchanged == UNCHANGED <<os, unit, sock, pidfd, watchVars, drv, cur, proc, mgr, restarts>>

Stop ==
    /\ mgr = "up" /\ stp.pc = "idle" /\ proc # NoRun /\ rec.state = "live"
    /\ rec' = [rec EXCEPT !.state = "stopping"]
    /\ stp' = [pc |-> "powerdown", qemu |-> proc]
    /\ Works /\ UNCHANGED killed /\ StopUnchanged

\* A request and the wait that follows it end with the exit or with a timeout:
\* system_powerdown over QMP, acknowledged or not, then SIGTERM, sent or not.
StopStep(from, next) ==
    /\ stp.pc = from
    /\ StopGoto(IF Exited("qemu", stp.qemu) THEN "done" ELSE next)
    /\ Works /\ UNCHANGED <<killed, rec>> /\ StopUnchanged

Powerdown == StopStep("powerdown", "term")
Term == StopStep("term", "kill")

\* SIGKILL through systemctl kill.
StopKill(from, failed) ==
    /\ stp.pc = from
    /\ IF Exited("qemu", stp.qemu)
       THEN StopGoto("done") /\ Works /\ UNCHANGED killed
       ELSE \/ Works /\ SigKill("qemu", stp.qemu) /\ StopGoto("killwait")
            \/ Fault /\ StopGoto(failed) /\ UNCHANGED killed
    /\ UNCHANGED rec /\ StopUnchanged

\* Mutant: Instance.Kill waits although the signal was not sent.
KillUnchecked == StopKill("kill", "killwait")

\* Instance.Kill; stopProcess tries a failed one again, once.
Kill == StopKill("kill", "killagain")

KillAgain == StopKill("killagain", "done")

StopKillWait ==
    /\ stp.pc = "killwait" /\ Reaped("qemu", stp.qemu)
    /\ StopGoto("done")
    /\ Works /\ UNCHANGED <<killed, rec>> /\ StopUnchanged

\* stopProcess: <-p.done.
StopReturn ==
    /\ stp.pc = "done" /\ proc # stp.qemu
    /\ stp' = IdleStop
    /\ Works /\ UNCHANGED <<killed, rec>> /\ StopUnchanged

-----------------------------------------------------------------------------
(* Restarts.                                                               *)

\* vm-manager ends; the units stay.
Restart ==
    /\ mgr = "up" /\ restarts < MaxRestarts
    /\ mgr' = "down" /\ restarts' = restarts + 1
    /\ w' = PerRun("none") /\ status' = PerRun(NoRun)
    /\ abandoned' = {}
    /\ drv' = IdleDriver /\ cur' = NoneHeld /\ proc' = NoRun /\ stp' = IdleStop
    /\ UNCHANGED <<hostVars, blind, rec, faults>>

\* Load: a VM recorded live with its handles is reattached.
Load ==
    /\ mgr = "down" /\ mgr' = "up"
    /\ IF rec.handles THEN Goto("atpm") /\ UNCHANGED rec
       ELSE rec' = Stopped /\ UNCHANGED drv
    /\ UNCHANGED <<hostVars, watchVars, cur, proc, stp, restarts, faults>>

\* SystemdExec.Attach of the unit of r, or not: gone or not to be asked.
Attach(r, attached, failed) ==
    \/ /\ Loaded(r) /\ Works
       /\ cur' = [cur EXCEPT ![r] = unit[r].proc]
       /\ Watcher(r, unit[r].proc)
       /\ Goto(attached)
    \/ /\ (~Loaded(r) /\ Works) \/ Fault
       /\ Goto(failed)
       /\ UNCHANGED <<cur, w>>

AttachTPM ==
    /\ drv.pc = "atpm" /\ Attach("swtpm", "aqemu", "aqemu")
    /\ UNCHANGED <<hostVars, status, abandoned, blind, proc, stp, rec, mgr, restarts>>

AttachQEMU ==
    /\ drv.pc = "aqemu" /\ Attach("qemu", "aready", "tterm")
    /\ UNCHANGED <<hostVars, status, abandoned, blind, proc, stp, rec, mgr, restarts>>

\* Runtime.Attach: QMP answers, or QEMU had exited, or it is left running
\* and swtpm stopped.  A stop in flight is resumed.
AttachReady ==
    LET n == cur["qemu"] IN
    /\ drv.pc = "aready"
    /\ \/ /\ (Running("qemu", n) /\ sock = n) \/ Exited("qemu", n)
          /\ proc' = n /\ Goto("up")
          /\ stp' = IF rec.state = "stopping" THEN [pc |-> "powerdown", qemu |-> n] ELSE stp
          /\ UNCHANGED abandoned
       \/ /\ ~Exited("qemu", n)
          /\ Abandon("qemu", n) /\ Goto("tterm")
          /\ UNCHANGED <<proc, stp>>
    /\ UNCHANGED <<hostVars, w, status, blind, cur, rec, mgr, restarts, faults>>

-----------------------------------------------------------------------------
WatcherStep(r, n) == Watch(r, n) \/ Poll(r, n) \/ ExitStatus(r, n) \/ SettleRelease(r, n)

DriverStep ==
    \/ Show \/ Clean \/ RunUnit \/ Look \/ TPMReady \/ Prepare \/ QEMUReady
    \/ KillQEMU \/ KillWait \/ OnExit
    \/ TPMTerm \/ TPMKill \/ TPMKillWait \/ SettleRecord
    \/ AttachTPM \/ AttachQEMU \/ AttachReady

StopperStep ==
    Powerdown \/ Term \/ Kill \/ KillAgain \/ StopKillWait \/ StopReturn

Next ==
    \/ \E r \in Role : Reap(r)
    \/ \E r \in Role, n \in Run : ProcessExits(r, n) \/ WatcherStep(r, n)
    \/ Begin \/ DriverStep \/ Stop \/ StopperStep
    \/ Restart \/ Load

Spec == Init /\ [][Next]_vars

-----------------------------------------------------------------------------
(* Properties.                                                             *)

\* Whatever start, stop or restart failed half-way, one process per unit runs:
\* an orphan keeps the next start from succeeding.
OnePerUnit ==
    \A r \in Role, n, m \in Run : os[r][n] = "running" /\ os[r][m] = "running" => n = m

\* Wait delivers after the process has ended, unless poll could not ask the
\* unit: onExit never settles a VM whose QEMU runs.
DoneMeansDead ==
    \A r \in Role, n \in Run :
        w[r][n] = "done" /\ <<r, n>> \notin blind => os[r][n] = "dead"

\* The unit that settle releases, and the status it read, are those of its own
\* process, as long as whoever held the process waited for it.
SettlesOwn ==
    \A r \in Role, n \in Run :
        <<r, n>> \notin abandoned \cup blind =>
            /\ w[r][n] = "release" => unit[r].proc \in {NoRun, n}
            /\ status[r][n] \in {NoRun, n}

\* The swtpm of a supervised VM is stopped after its QEMU has ended: a guest
\* never loses its TPM to its own vm-manager.
TPMAfterQEMU ==
    drv.pc \in {"tterm", "tkill", "tkwait"} /\ Running("qemu", proc) =>
        <<"qemu", proc>> \in blind

\* Whoever waits for an exit without a timeout (a Kill, the end of a Stop)
\* waits for a process that is dead or was killed, and that a watcher reports,
\* so every wait ends.
WaitsEnd ==
    LET Ends(r, n) == w[r][n] # "none" /\ (os[r][n] = "dead" \/ <<r, n>> \in killed) IN
    /\ drv.pc = "killwait" => Ends("qemu", cur["qemu"])
    /\ drv.pc = "tkwait" => Ends("swtpm", cur["swtpm"])
    /\ stp.pc = "killwait" => Ends("qemu", stp.qemu)
    /\ stp.pc = "done" /\ proc = stp.qemu => Exited("qemu", proc) \/ faults >= 2
=============================================================================
