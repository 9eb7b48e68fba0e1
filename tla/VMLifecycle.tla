---------------------------- MODULE VMLifecycle ----------------------------
(***************************************************************************)
(* The VM service of vm-manager (internal/vm): the lifecycle of a VM       *)
(* record, the QEMU processes started for it, and what becomes of both     *)
(* when vm-manager is closed, crashes and starts again.                    *)
(*                                                                         *)
(* Threads are the API calls (Call), the supervisor goroutine of every     *)
(* QEMU run (the run itself), and the per-entry part of Close (the VM      *)
(* itself).  A block of code under the service mutex s.mu is one step; the *)
(* long-held entry mutex opMu is a variable.  A QEMU start takes three     *)
(* steps (guards checked, process up, record updated), because a crash, an *)
(* exit or another call may fall between them.                             *)
(***************************************************************************)
EXTENDS Naturals

CONSTANTS
    VM,                  \* VM ids; a random id is never handed out twice
    Call,                \* API and metadata requests in flight at once
    Ops,                 \* the operations clients issue
    MaxRuns,             \* bound: QEMU runs per VM
    MaxCrashes,          \* bound: crashes of vm-manager
    Systemd,             \* launcher: transient units (TRUE), children (FALSE)
    DetachOnClose,       \* Options.DetachOnClose
    RequireAttestation,  \* Spec.RequireAttestation
    Preexisting,         \* VMs installed and stopped by an earlier vm-manager
    Free,                \* opMu is not held
    NoRun                \* e.proc = nil

Run == VM \X (1..MaxRuns)
Thread == VM \cup Run \cup Call

ASSUME BoundsAssumption == MaxRuns \in Nat /\ MaxCrashes \in Nat

ASSUME OptionsAssumption ==
    /\ Systemd \in BOOLEAN
    /\ DetachOnClose \in BOOLEAN
    /\ RequireAttestation \in BOOLEAN
    /\ Preexisting \subseteq VM

\* Thread identities are told apart, and from the two null values.
ASSUME IdentityAssumption ==
    /\ VM \cap Run = {} /\ VM \cap Call = {} /\ Run \cap Call = {}
    /\ Free \notin Thread /\ NoRun \notin Thread

VARIABLES
    svc,       \* the Service: down, loading, serving, visiting, draining, closed
    unloaded,  \* records Load has yet to read
    crashes,   \* crashes so far
    present,   \* the id is a key of s.vms
    rec,       \* entry.rec
    disk,      \* vms/<id>/vm.json
    opMu,      \* the holder of entry.opMu
    proc,      \* entry.proc
    qemu,      \* a QEMU run: unused, running, ended (status kept), released
    code,      \* its exit status: none, zero, nonzero
    phase,     \* process.phase: install or boot
    asked,     \* a running QEMU was told to end (Stop or Kill)
    watched,   \* a proc.Process of this vm-manager follows the run
    due,       \* the supervisor's timer is armed
    timedOut,  \* process.timedOut
    done,      \* process.done is closed
    pc,        \* where a thread is
    op,        \* the operation of a call
    tgt,       \* the entry of a call
    arg        \* the process a thread holds on to

svcVars == <<svc, unloaded, crashes>>
entryVars == <<present, rec, disk, opMu, proc>>
runVars == <<qemu, code, phase, asked, watched, due, timedOut, done>>
threadVars == <<pc, op, tgt, arg>>
vars == <<svcVars, entryVars, runVars, threadVars>>

State == {"none", "creating", "installing", "booting", "attesting", "ready",
          "running", "stopping", "stopped", "failed", "deleting"}
Live == {"installing", "booting", "attesting", "ready", "running", "stopping"}
Record == [state : State, phase : {"none", "install", "boot"},
           handles : BOOLEAN, installed : BOOLEAN]
NoRecord == [state |-> "none", phase |-> "none",
             handles |-> FALSE, installed |-> FALSE]

up == svc # "down"
closing == svc \in {"visiting", "draining", "closed"}
ctxDone == svc \in {"draining", "closed"}
VMOf(t) == IF t \in VM THEN t ELSE IF t \in Run THEN t[1] ELSE tgt[t]

RunsOf(v) == {r \in Run : r[1] = v}
Running(v) == {r \in RunsOf(v) : qemu[r] = "running"}
FreshRun(v, r) ==
    /\ r \in RunsOf(v)
    /\ qemu[r] = "unused"
    /\ \A q \in RunsOf(v) : q[2] < r[2] => qemu[q] # "unused"

\* An id random enough to be new: no entry, no record, no run.
FreshID(v) ==
    /\ rec[v] = NoRecord /\ disk[v] = NoRecord
    /\ \A r \in RunsOf(v) : qemu[r] = "unused"

Init ==
    /\ svc = "down" /\ unloaded = {} /\ crashes = 0
    /\ present = [v \in VM |-> FALSE]
    /\ rec = [v \in VM |-> NoRecord]
    /\ disk = [v \in VM |->
                 IF v \in Preexisting
                 THEN [state |-> "stopped", phase |-> "boot",
                       handles |-> FALSE, installed |-> TRUE]
                 ELSE NoRecord]
    /\ opMu = [v \in VM |-> Free]
    /\ proc = [v \in VM |-> NoRun]
    /\ qemu = [r \in Run |-> "unused"]
    /\ code = [r \in Run |-> "none"]
    /\ phase = [r \in Run |-> "none"]
    /\ asked = [r \in Run |-> FALSE]
    /\ watched = {}
    /\ due = [r \in Run |-> FALSE]
    /\ timedOut = [r \in Run |-> FALSE]
    /\ done = [r \in Run |-> FALSE]
    /\ pc = [t \in Thread |-> "idle"]
    /\ op = [t \in Thread |-> "none"]
    /\ tgt = [t \in Thread |-> Free]
    /\ arg = [t \in Thread |-> NoRun]

\* Every transition of a record is written to vm.json under the same s.mu.
Save(v, new) ==
    /\ rec' = [rec EXCEPT ![v] = new]
    /\ disk' = [disk EXCEPT ![v] = new]

Goto(t, label) ==
    /\ pc' = [pc EXCEPT ![t] = label]
    /\ UNCHANGED <<op, tgt, arg>>

Hold(t, label, r) ==
    /\ pc' = [pc EXCEPT ![t] = label]
    /\ arg' = [arg EXCEPT ![t] = r]
    /\ UNCHANGED <<op, tgt>>

Return(t) ==
    /\ pc' = [pc EXCEPT ![t] = "idle"]
    /\ op' = [op EXCEPT ![t] = "none"]
    /\ tgt' = [tgt EXCEPT ![t] = Free]
    /\ arg' = [arg EXCEPT ![t] = NoRun]

Enter(c, o, v, label) ==
    /\ pc' = [pc EXCEPT ![c] = label]
    /\ op' = [op EXCEPT ![c] = o]
    /\ tgt' = [tgt EXCEPT ![c] = v]
    /\ UNCHANGED arg

-----------------------------------------------------------------------------
(* Create: allocate, then launch under opMu.                               *)

\* allocate: refused once Close has begun; the entry appears as creating.
Allocate(c, v) ==
    /\ svc = "serving" /\ "Create" \in Ops
    /\ pc[c] = "idle" /\ FreshID(v)
    /\ present' = [present EXCEPT ![v] = TRUE]
    /\ Save(v, [NoRecord EXCEPT !.state = "creating"])
    /\ Enter(c, "Create", v, "launch")
    /\ UNCHANGED <<svcVars, opMu, proc, runVars>>

\* Mutant: launch does not take opMu.
LaunchUnlocked(c) ==
    /\ pc[c] = "launch"
    /\ Goto(c, "provision")
    /\ UNCHANGED <<svcVars, entryVars, runVars>>

\* launch takes opMu and looks at nothing else before it provisions.
Launch(c) ==
    /\ pc[c] = "launch" /\ opMu[tgt[c]] = Free
    /\ opMu' = [opMu EXCEPT ![tgt[c]] = c]
    /\ Goto(c, "provision")
    /\ UNCHANGED <<svcVars, present, rec, disk, proc, runVars>>

\* provision: key, user-data, volume, lease, record; a failure is discarded.
Provision(c) ==
    /\ pc[c] = "provision"
    /\ \/ Save(tgt[c], rec[tgt[c]]) /\ Goto(c, "start")
       \/ Goto(c, "teardown") /\ UNCHANGED <<rec, disk>>
    /\ UNCHANGED <<svcVars, present, opMu, proc, runVars>>

-----------------------------------------------------------------------------
(* startProcess and its three callers: launch, Start and the handoff.      *)

PhaseOf(t) == IF t \in Call /\ op[t] = "Create" THEN "install" ELSE "boot"

\* SystemdExec.Start refuses a unit that is loaded with a main process.
UnitFree(v) == Systemd => Running(v) = {}

\* Runtime.Start succeeds: the launcher refuses a unit name that still runs
\* and drops one that has ended, status included.
StartQEMU(t, r) ==
    LET v == VMOf(t) IN
    /\ pc[t] = "start" /\ FreshRun(v, r)
    /\ UnitFree(v)
    /\ qemu' = [q \in Run |-> IF q = r THEN "running"
                              ELSE IF q[1] = v /\ qemu[q] = "ended"
                              THEN "released" ELSE qemu[q]]
    /\ phase' = [phase EXCEPT ![r] = PhaseOf(t)]
    /\ watched' = watched \cup {r}
    /\ Hold(t, "commit", r)
    /\ UNCHANGED <<svcVars, entryVars, code, asked, due, timedOut, done>>

\* swtpm or QEMU did not come up: Create is discarded, a boot fails the VM.
StartFails(t) ==
    LET v == VMOf(t) IN
    /\ pc[t] = "start"
    /\ IF PhaseOf(t) = "install"
       THEN Goto(t, "teardown") /\ UNCHANGED <<rec, disk, opMu>>
       ELSE /\ Save(v, [rec[v] EXCEPT !.state = "failed"])
            /\ opMu' = [opMu EXCEPT ![v] = Free]
            /\ Return(t)
    /\ UNCHANGED <<svcVars, present, proc, runVars>>

\* The record takes the process over and its supervisor starts.
Commit(t) ==
    LET v == VMOf(t)
        r == arg[t]
        ph == PhaseOf(t) IN
    /\ pc[t] = "commit"
    /\ proc' = [proc EXCEPT ![v] = r]
    /\ Save(v, [rec[v] EXCEPT
                  !.state = IF ph = "install" THEN "installing" ELSE "booting",
                  !.phase = ph, !.handles = TRUE])
    /\ opMu' = [opMu EXCEPT ![v] = Free]
    /\ due' = [due EXCEPT ![r] = TRUE]
    /\ pc' = [pc EXCEPT ![t] = "idle", ![r] = "select"]
    /\ op' = [op EXCEPT ![t] = "none"]
    /\ tgt' = [tgt EXCEPT ![t] = Free]
    /\ arg' = [arg EXCEPT ![t] = NoRun]
    /\ UNCHANGED <<svcVars, present, qemu, code, phase, asked, watched,
                   timedOut, done>>

-----------------------------------------------------------------------------
(* The other requests.  A request accepted before shutdown may reach the   *)
(* service while Close runs; the entry is looked up first.                 *)

Begin(c, v, o) ==
    /\ svc \in {"serving", "visiting", "draining"}
    /\ o \in Ops \cap {"Start", "Stop", "Reboot", "Delete"}
    /\ pc[c] = "idle" /\ present[v]
    /\ Enter(c, o, v, IF o = "Reboot" THEN "Stop" ELSE o)
    /\ UNCHANGED <<svcVars, entryVars, runVars>>

\* Mutants: Start forgets a check.
StartRefusedNoProcess(v) == closing \/ rec[v].state = "deleting" \/ ~rec[v].installed
StartRefusedNoClosing(v) ==
    rec[v].state = "deleting" \/ proc[v] # NoRun \/ ~rec[v].installed

StartRefused(v) ==
    \/ closing
    \/ rec[v].state = "deleting"
    \/ proc[v] # NoRun
    \/ ~rec[v].installed

\* Start under opMu: refused, or the volume does not open, or phase B starts.
Start(c) ==
    LET v == tgt[c] IN
    /\ pc[c] = "Start" /\ opMu[v] = Free
    /\ \/ Return(c) /\ UNCHANGED opMu
       \/ /\ ~StartRefused(v)
          /\ opMu' = [opMu EXCEPT ![v] = c]
          /\ Goto(c, "start")
    /\ UNCHANGED <<svcVars, present, rec, disk, proc, runVars>>

StopRefused(v) == rec[v].state = "deleting" \/ proc[v] = NoRun

\* Stop, without opMu for a call, under it for Close's visit (t is the VM):
\* refused, or the record is stopping and the process told to end.
Stop(t) ==
    LET v == VMOf(t) IN
    /\ pc[t] = "Stop"
    /\ IF StopRefused(v) \/ (t \in VM /\ ~present[v])
       THEN /\ Return(t)
            /\ opMu' = IF t \in VM THEN [opMu EXCEPT ![v] = Free] ELSE opMu
            /\ UNCHANGED <<rec, disk, asked>>
       ELSE /\ Save(v, [rec[v] EXCEPT !.state = "stopping"])
            /\ asked' = [asked EXCEPT ![proc[v]] = TRUE]
            /\ Hold(t, "stopping", proc[v])
            /\ UNCHANGED opMu
    /\ UNCHANGED <<svcVars, present, proc, qemu, code, phase, watched, due,
                   timedOut, done>>

\* stopProcess returns with <-p.done; Reboot goes on with Start's lookup.
StopReturns(t) ==
    LET v == VMOf(t) IN
    /\ pc[t] = "stopping" /\ done[arg[t]]
    /\ IF t \in Call /\ op[t] = "Reboot" /\ present[v]
       THEN Goto(t, "Start") ELSE Return(t)
    /\ opMu' = IF t \in VM THEN [opMu EXCEPT ![v] = Free] ELSE opMu
    /\ UNCHANGED <<svcVars, present, rec, disk, proc, runVars>>

\* Delete under opMu: the record moves to deleting before anything else.
Delete(c) ==
    LET v == tgt[c]
        p == proc[v] IN
    /\ pc[c] = "Delete" /\ opMu[v] = Free
    /\ IF ~present[v] \/ rec[v].state = "deleting"
       THEN Return(c) /\ UNCHANGED <<rec, disk, opMu, asked>>
       ELSE /\ opMu' = [opMu EXCEPT ![v] = c]
            /\ Save(v, [rec[v] EXCEPT !.state = "deleting"])
            /\ asked' = IF p = NoRun THEN asked ELSE [asked EXCEPT ![p] = TRUE]
            /\ Hold(c, IF p = NoRun THEN "teardown" ELSE "deleting", p)
    /\ UNCHANGED <<svcVars, present, proc, qemu, code, phase, watched, due,
                   timedOut, done>>

\* Mutant: Delete does not wait for the supervisor.
DeleteHurries(c) ==
    /\ pc[c] = "deleting"
    /\ Goto(c, "teardown")
    /\ UNCHANGED <<svcVars, entryVars, runVars>>

\* <-p.done
DeleteWaits(c) ==
    /\ pc[c] = "deleting" /\ done[arg[c]]
    /\ Goto(c, "teardown")
    /\ UNCHANGED <<svcVars, entryVars, runVars>>

\* teardown, for Delete and for a discarded Create: forwards, lease, volume
\* and at last the directory with vm.json.
Teardown(c) ==
    /\ pc[c] = "teardown"
    /\ disk' = [disk EXCEPT ![tgt[c]] = NoRecord]
    /\ Goto(c, "forget")
    /\ UNCHANGED <<svcVars, present, rec, opMu, proc, runVars>>

\* delete(s.vms, id) and the return that unlocks opMu.
Forget(c) ==
    /\ pc[c] = "forget"
    /\ present' = [present EXCEPT ![tgt[c]] = FALSE]
    /\ opMu' = [opMu EXCEPT ![tgt[c]] = Free]
    /\ Return(c)
    /\ UNCHANGED <<svcVars, rec, disk, proc, runVars>>

\* A metadata request of a guest (nonce or quote): LookupByIP finds the
\* entry, and some time later onNonce or recordQuote saves the record.
GuestRequest(c, v) ==
    /\ svc \notin {"down", "closed"} /\ "Guest" \in Ops
    /\ pc[c] = "idle" /\ present[v] /\ rec[v].state # "deleting"
    /\ Running(v) # {}
    /\ Enter(c, "Guest", v, "guest")
    /\ UNCHANGED <<svcVars, entryVars, runVars>>

onNonce(c) ==
    LET v == tgt[c] IN
    /\ pc[c] = "guest"
    /\ IF present[v]
       THEN \/ /\ RequireAttestation /\ rec[v].state = "booting"
               /\ Save(v, [rec[v] EXCEPT !.state = "attesting"])
            \/ Save(v, rec[v])
       ELSE UNCHANGED <<rec, disk>>
    /\ Return(c)
    /\ UNCHANGED <<svcVars, present, opMu, proc, runVars>>

-----------------------------------------------------------------------------
(* The supervisor of a run.                                                *)

\* Mutant: the supervisor returns as soon as Close begins.
SupervisorLeavesEarly(r) ==
    /\ pc[r] = "select" /\ closing
    /\ Return(r)
    /\ UNCHANGED <<svcVars, entryVars, runVars>>

\* Close has cancelled s.ctx: the supervisor returns, done stays open.
SupervisorLeaves(r) ==
    /\ pc[r] = "select" /\ ctxDone
    /\ Return(r)
    /\ UNCHANGED <<svcVars, entryVars, runVars>>

\* Mutant: a late READY=1 undoes a stop.
ReadyFromStopping == {"booting", "attesting", "running", "stopping"}

\* The states READY=1 ends.
ReadyFrom == {"booting", "attesting", "running"}

\* A notification: READY=1 makes a starting VM ready, STATUS= is only saved.
onNotify(r) ==
    LET v == r[1] IN
    /\ pc[r] = "select" /\ phase[r] = "boot"
    /\ \/ /\ rec[v].state \in ReadyFrom
          /\ Save(v, [rec[v] EXCEPT !.state = "ready"])
       \/ Save(v, rec[v])
    /\ UNCHANGED <<svcVars, present, opMu, proc, runVars, threadVars>>

\* Mutant: an installer that overran is left alone.
NeverOverran(r) == FALSE

Overran(r) == phase[r] = "install" /\ rec[r[1]].state = "installing"

\* The timer fires once: an installer is killed, a boot becomes running.
onTimeout(r) ==
    LET v == r[1] IN
    /\ pc[r] = "select" /\ due[r]
    /\ due' = [due EXCEPT ![r] = FALSE]
    /\ IF Overran(r)
       THEN /\ timedOut' = [timedOut EXCEPT ![r] = TRUE]
            /\ asked' = [asked EXCEPT ![r] = TRUE]
            /\ UNCHANGED <<rec, disk>>
       ELSE /\ IF phase[r] = "boot" /\ rec[v].state \in {"booting", "attesting"}
               THEN Save(v, [rec[v] EXCEPT !.state = "running"])
               ELSE UNCHANGED <<rec, disk>>
            /\ UNCHANGED <<timedOut, asked>>
    /\ UNCHANGED <<svcVars, present, opMu, proc, qemu, code, phase, watched,
                   done, threadVars>>

\* Mutant: any end of the installer counts.
InstallEnded(r) ==
    phase[r] = "install" /\ rec[r[1]].state = "installing" /\ ~timedOut[r]

InstallSucceeded(r) ==
    /\ phase[r] = "install" /\ rec[r[1]].state = "installing"
    /\ code[r] = "zero" /\ ~timedOut[r]

\* Mutant: the last case of the switch is missing.
ExitStateNoDefault(r) ==
    LET s == rec[r[1]].state IN
    IF s = "stopping" THEN "stopped"
    ELSE IF InstallSucceeded(r) \/ s = "deleting" THEN s ELSE ""

\* Where the record goes when its process has ended.
ExitState(r) ==
    LET s == rec[r[1]].state IN
    IF s = "deleting" \/ InstallSucceeded(r) THEN s
    ELSE IF s = "stopping" THEN "stopped"
    ELSE IF code[r] = "zero" /\ ~(phase[r] = "install" /\ s = "installing")
    THEN "stopped" ELSE "failed"

\* Mutants: done is not closed, or not for a Delete.
CloseDoneNever(r) == UNCHANGED done
CloseDoneUnlessDeleting(r) ==
    done' = [done EXCEPT ![r] = rec[r[1]].state # "deleting"]

\* close(p.done)
CloseDone(r) == done' = [done EXCEPT ![r] = TRUE]

\* The exit status arrives: the record settles, p.done closes, and after a
\* successful installer the supervisor goes on to boot.
onExit(r) ==
    LET v == r[1] IN
    /\ pc[r] = "select" /\ qemu[r] = "released"
    /\ proc' = [proc EXCEPT ![v] = NoRun]
    /\ Save(v, [rec[v] EXCEPT !.state = ExitState(r), !.handles = FALSE,
                              !.installed = @ \/ InstallSucceeded(r)])
    /\ CloseDone(r)
    /\ due' = [due EXCEPT ![r] = FALSE]
    /\ IF InstallSucceeded(r) THEN Goto(r, "boot") ELSE Return(r)
    /\ UNCHANGED <<svcVars, present, opMu, qemu, code, phase, asked, watched,
                   timedOut>>

\* Mutants: the handoff does not look whether a process got in first, or does
\* not settle the record when Close overtook it.
HandoffUnchecked(v) == rec[v].state # "deleting"
HandoffForgotten(v) == rec[v]

HandoffDue(v) == rec[v].state = "installing" /\ proc[v] = NoRun
HandoffAbandoned(v) == [rec[v] EXCEPT !.state = "stopped"]

\* boot, the install-to-boot handoff: under opMu, unless Delete or a process
\* got in first; Close leaves the installed VM stopped.
Boot(r) ==
    LET v == r[1] IN
    /\ pc[r] = "boot" /\ opMu[v] = Free
    /\ IF HandoffDue(v) /\ ~closing
       THEN /\ opMu' = [opMu EXCEPT ![v] = r]
            /\ Goto(r, "start")
            /\ UNCHANGED <<rec, disk>>
       ELSE /\ IF HandoffDue(v) THEN Save(v, HandoffAbandoned(v))
                                ELSE UNCHANGED <<rec, disk>>
            /\ Return(r)
            /\ UNCHANGED opMu
    /\ UNCHANGED <<svcVars, present, proc, runVars>>

-----------------------------------------------------------------------------
(* QEMU and the launcher.                                                  *)

\* QEMU ends: the guest powers off or the installer reboots (-no-reboot), it
\* crashes, or it was told to.
QEMUExits(r) ==
    /\ qemu[r] = "running"
    /\ qemu' = [qemu EXCEPT ![r] = "ended"]
    /\ \E x \in {"zero", "nonzero"} : code' = [code EXCEPT ![r] = x]
    /\ asked' = [asked EXCEPT ![r] = FALSE]
    /\ UNCHANGED <<svcVars, entryVars, phase, watched, due, timedOut,
                   done, threadVars>>

\* settle: the process watcher reads the status, which may be lost (unknown,
\* -1), releases the unit and completes Wait.
Settle(r) ==
    /\ up /\ r \in watched /\ qemu[r] = "ended"
    /\ qemu' = [qemu EXCEPT ![r] = "released"]
    /\ \/ UNCHANGED code
       \/ Systemd /\ code' = [code EXCEPT ![r] = "nonzero"]
    /\ UNCHANGED <<svcVars, entryVars, phase, asked, watched, due, timedOut,
                   done, threadVars>>

-----------------------------------------------------------------------------
(* New and Load.                                                           *)

Load ==
    /\ svc = "down"
    /\ svc' = "loading"
    /\ unloaded' = {v \in VM : disk[v] # NoRecord}
    /\ UNCHANGED <<crashes, entryVars, runVars, threadVars>>

\* Mutant: reattachOrStop drops the handles only.
SettledRecordKeepsState(v) ==
    IF disk[v].state \in {"creating", "deleting"}
    THEN [disk[v] EXCEPT !.state = "failed"]
    ELSE [disk[v] EXCEPT !.handles = FALSE]

\* loadEntry: an interrupted Create or Delete comes back failed;
\* reattachOrStop: a live record without its process comes back stopped.
SettledRecord(v) ==
    IF disk[v].state \in {"creating", "deleting"}
    THEN [disk[v] EXCEPT !.state = "failed"]
    ELSE IF disk[v].state \in Live
    THEN [disk[v] EXCEPT !.state = "stopped", !.handles = FALSE]
    ELSE disk[v]

Attachable(v) ==
    {r \in RunsOf(v) : Systemd /\ disk[v].handles /\ qemu[r] \in {"running", "ended"}}

\* A record that is not live, or whose process is gone or does not answer.  A
\* unit that was found but did not answer QMP stays watched.
LoadSettled(v) ==
    /\ svc = "loading" /\ v \in unloaded
    /\ unloaded' = unloaded \ {v}
    /\ present' = [present EXCEPT ![v] = TRUE]
    /\ Save(v, SettledRecord(v))
    /\ \/ UNCHANGED watched
       \/ disk[v].state \in Live /\ watched' = watched \cup Attachable(v)
    /\ UNCHANGED <<svc, crashes, opMu, proc, qemu, code, phase, asked, due,
                   timedOut, done, threadVars>>

\* reattach: the unit is found, running or ended, and supervised again; a
\* stop that was in flight is resumed.
Reattach(v, r) ==
    /\ svc = "loading" /\ v \in unloaded
    /\ disk[v].state \in Live /\ r \in Attachable(v)
    /\ unloaded' = unloaded \ {v}
    /\ present' = [present EXCEPT ![v] = TRUE]
    /\ Save(v, disk[v])
    /\ proc' = [proc EXCEPT ![v] = r]
    /\ phase' = [phase EXCEPT ![r] = disk[v].phase]
    /\ asked' = [asked EXCEPT ![r] = @ \/ disk[v].state = "stopping"]
    /\ watched' = watched \cup {r}
    /\ due' = [due EXCEPT ![r] = TRUE]
    /\ Goto(r, "select")
    /\ UNCHANGED <<svc, crashes, opMu, qemu, code, timedOut, done>>

Serve ==
    /\ svc = "loading" /\ unloaded = {}
    /\ svc' = "serving"
    /\ UNCHANGED <<unloaded, crashes, entryVars, runVars, threadVars>>

-----------------------------------------------------------------------------
(* Close, the end of the process, and a crash.                             *)

\* Close sets closing and collects the entries under one s.mu.
Close ==
    /\ svc = "serving"
    /\ svc' = "visiting"
    /\ pc' = [t \in Thread |-> IF t \in VM /\ present[t] THEN "visit" ELSE pc[t]]
    /\ UNCHANGED <<unloaded, crashes, entryVars, runVars, op, tgt, arg>>

\* A visit waits for opMu; stopAll keeps it for the Stop, detachAll does not.
Visit(v) ==
    /\ pc[v] = "visit" /\ opMu[v] = Free
    /\ IF DetachOnClose
       THEN Return(v) /\ UNCHANGED opMu
       ELSE Goto(v, "Stop") /\ opMu' = [opMu EXCEPT ![v] = v]
    /\ UNCHANGED <<svcVars, present, rec, disk, proc, runVars>>

\* Every entry is visited: s.cancel().
Cancel ==
    /\ svc = "visiting" /\ \A v \in VM : pc[v] = "idle"
    /\ svc' = "draining"
    /\ UNCHANGED <<unloaded, crashes, entryVars, runVars, threadVars>>

\* s.wg.Wait() returns, live instances are detached, Close returns.
Closed ==
    /\ svc = "draining" /\ \A r \in Run : pc[r] = "idle"
    /\ svc' = "closed"
    /\ UNCHANGED <<unloaded, crashes, entryVars, runVars, threadVars>>

\* The vm-manager process is gone: its memory with it, and under the plain
\* launcher its children.
ProcessEnds ==
    /\ svc' = "down" /\ unloaded' = {}
    /\ present' = [v \in VM |-> FALSE]
    /\ rec' = [v \in VM |-> NoRecord]
    /\ opMu' = [v \in VM |-> Free]
    /\ proc' = [v \in VM |-> NoRun]
    /\ qemu' = IF Systemd THEN qemu
               ELSE [r \in Run |-> IF qemu[r] \in {"running", "ended"}
                                   THEN "released" ELSE qemu[r]]
    /\ asked' = [r \in Run |-> FALSE]
    /\ watched' = {}
    /\ due' = [r \in Run |-> FALSE]
    /\ timedOut' = [r \in Run |-> FALSE]
    /\ done' = [r \in Run |-> FALSE]
    /\ pc' = [t \in Thread |-> "idle"]
    /\ op' = [t \in Thread |-> "none"]
    /\ tgt' = [t \in Thread |-> Free]
    /\ arg' = [t \in Thread |-> NoRun]
    /\ UNCHANGED <<disk, code, phase>>

Exit == svc = "closed" /\ ProcessEnds /\ UNCHANGED crashes

Crash ==
    /\ up /\ crashes < MaxCrashes
    /\ crashes' = crashes + 1
    /\ ProcessEnds

-----------------------------------------------------------------------------
Request ==
    \E c \in Call, v \in VM :
        \/ Allocate(c, v)
        \/ GuestRequest(c, v)
        \/ \E o \in Ops : Begin(c, v, o)

CallStep(c) ==
    \/ Launch(c) \/ Provision(c)
    \/ Start(c)
    \/ Delete(c) \/ DeleteWaits(c) \/ Teardown(c) \/ Forget(c)
    \/ onNonce(c)

StartStep(t) == StartFails(t) \/ \E r \in Run : StartQEMU(t, r)

SupervisorStep(r) ==
    \/ SupervisorLeaves(r) \/ onNotify(r) \/ onTimeout(r) \/ onExit(r)
    \/ Boot(r)

LoadStep == \E v \in VM : LoadSettled(v) \/ \E r \in Run : Reattach(v, r)

Next ==
    \/ Request
    \/ \E c \in Call : CallStep(c)
    \/ \E t \in Thread : StartStep(t) \/ Commit(t) \/ Stop(t) \/ StopReturns(t)
    \/ \E r \in Run : SupervisorStep(r) \/ QEMUExits(r) \/ Settle(r)
    \/ Load \/ LoadStep \/ Serve
    \/ Close \/ (\E v \in VM : Visit(v)) \/ Cancel \/ Closed
    \/ Exit \/ Crash

Spec == Init /\ [][Next]_vars

\* What keeps running: a goroutine that can step does, and one that waits for
\* opMu gets it when it is released again and again (Go mutexes hand over to
\* a waiter that starves), so every thread has strong fairness; QEMU told to
\* end is gone after SIGKILL at the latest.  Nothing obliges a client to
\* call, a guest to report or a run to end by itself.
ThreadStep(t) ==
    \/ t \in Call /\ CallStep(t)
    \/ t \in Run /\ (SupervisorLeaves(t) \/ onTimeout(t) \/ onExit(t) \/ Boot(t))
    \/ t \in VM /\ Visit(t)
    \/ StartStep(t) \/ Commit(t) \/ Stop(t) \/ StopReturns(t)

Fairness ==
    /\ \A t \in Thread : SF_vars(ThreadStep(t))
    /\ \A r \in Run : WF_vars((asked[r] /\ QEMUExits(r)) \/ Settle(r))
    /\ WF_vars(LoadStep \/ Serve \/ Cancel \/ Closed \/ Exit)

FairSpec == Spec /\ Fairness

-----------------------------------------------------------------------------
(* Properties.                                                             *)

PC == {"idle", "launch", "provision", "start", "commit", "teardown", "forget",
       "Start", "Stop", "Delete", "stopping", "deleting", "guest",
       "select", "boot", "visit"}
Operation == {"none", "Create", "Start", "Stop", "Reboot", "Delete", "Guest"}

SvcType ==
    /\ svc \in {"down", "loading", "serving", "visiting", "draining", "closed"}
    /\ unloaded \subseteq VM
    /\ crashes \in Nat

EntryType ==
    /\ present \in [VM -> BOOLEAN]
    /\ rec \in [VM -> Record] /\ disk \in [VM -> Record]
    /\ opMu \in [VM -> Thread \cup {Free}]
    /\ proc \in [VM -> Run \cup {NoRun}]

RunType ==
    /\ qemu \in [Run -> {"unused", "running", "ended", "released"}]
    /\ code \in [Run -> {"none", "zero", "nonzero"}]
    /\ phase \in [Run -> {"none", "install", "boot"}]
    /\ asked \in [Run -> BOOLEAN]
    /\ watched \subseteq Run
    /\ due \in [Run -> BOOLEAN]
    /\ timedOut \in [Run -> BOOLEAN]
    /\ done \in [Run -> BOOLEAN]

ThreadType ==
    /\ pc \in [Thread -> PC] /\ op \in [Thread -> Operation]
    /\ tgt \in [Thread -> VM \cup {Free}] /\ arg \in [Thread -> Run \cup {NoRun}]

\* Every variable keeps its type.
TypeOK == SvcType /\ EntryType /\ RunType /\ ThreadType

\* Two QEMUs never run on the disk of one VM: whatever calls, handoffs,
\* shutdowns and restarts race, startProcess is reached with no other run of
\* the VM alive (opMu and the e.proc check), or the launcher refuses it.
OneQEMU ==
    \A q, r \in Run :
        q[1] = r[1] /\ qemu[q] = "running" /\ qemu[r] = "running" => q = r

\* A process and its supervisor belong together: whoever waits on p.done has
\* a supervisor that will close it, until Close cancels, and no supervisor of
\* an older process settles the record of a newer one.
SupervisorOwnsProcess ==
    \A r \in Run :
        /\ pc[r] = "select" => proc[r[1]] = r
        /\ proc[r[1]] = r /\ ~ctxDone => pc[r] = "select"

\* The state table of the package: a record that says there is no process has
\* none, and a live one has one unless it is between the two phases.
StateMatchesProcess ==
    \A v \in VM :
        /\ rec[v].state \in {"creating", "stopped", "failed"} => proc[v] = NoRun
        /\ rec[v].state \in Live /\ proc[v] = NoRun =>
              rec[v].state = "installing" /\ rec[v].installed

\* The handoff from phase A to phase B.  A VM between the two is never
\* forgotten: the installer's supervisor is still on its way through boot.
\* And phase B runs only from a disk an installer finished: some installer run
\* of the VM was reported to have exited 0.
HandoffKept ==
    /\ \A v \in VM :
         rec[v].state = "installing" /\ rec[v].installed =>
             \E r \in RunsOf(v) : pc[r] \in {"boot", "start", "commit"}
    /\ \A r \in Run :
         qemu[r] # "unused" /\ phase[r] = "boot" /\ r[1] \notin Preexisting =>
             \E q \in RunsOf(r[1]) : phase[q] = "install" /\ code[q] = "zero"

\* Lease, volume and directory go only after the last QEMU of the VM (the
\* plain launcher: a unit whose reattachment failed is nobody's process).
TeardownAfterExit ==
    \A c \in Call :
        pc[c] \in {"teardown", "forget"} /\ ~Systemd => Running(tgt[c]) = {}

\* Start and the handoff keep the promise of Close: an installed VM that
\* stopAll has visited has no process and gets none.
ClosedStaysStopped ==
    \A v \in VM :
        closing /\ ~DetachOnClose /\ pc[v] = "idle" /\ present[v] /\ rec[v].installed =>
            /\ proc[v] = NoRun
            /\ \A t \in Thread : pc[t] \in {"start", "commit"} => VMOf(t) # v

\* Close returns and the process ends: "within StopTimeout per VM plus
\* whatever start was in flight" (internal/vm/doc.go).
CloseCompletes == closing ~> ~up

\* A VM does not stay in the installer: exit, timeout, stop or failure.
InstallSettles ==
    \A v \in VM : rec[v].state = "installing" ~> rec[v].state # "installing"

\* A Delete that has begun gets to the end and the entry disappears.
DeleteCompletes ==
    \A v \in VM : present[v] /\ rec[v].state = "deleting" ~> ~present[v]

\* Whoever waits for a process to be gone (Stop, Close's visit) is released.
StopCompletes ==
    \A t \in Thread : pc[t] = "stopping" ~> pc[t] # "stopping"

\* The persisted record follows the contract of VMContract through every
\* interleaving, shutdown, crash and restart.
Contract == INSTANCE VMContract WITH
    state <- [v \in VM |-> disk[v].state],
    installed <- [v \in VM |-> disk[v].installed]

RecordContract == Contract!Spec
=============================================================================
