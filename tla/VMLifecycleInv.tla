--------------------------- MODULE VMLifecycleInv ---------------------------
(***************************************************************************)
(* The inductive invariant of VMLifecycle: what every step needs to know   *)
(* of every other thread for the safety properties to be preserved.  TLC   *)
(* checks all of it as an invariant; VMLifecycleProcesses and              *)
(* VMLifecycleProofs prove it for every value of the constants.            *)
(***************************************************************************)
EXTENDS VMLifecycle

\* A thread between taking and releasing entry.opMu.
HoldsOpMu(t) ==
    \/ pc[t] \in {"provision", "start", "commit", "teardown", "forget", "deleting"}
    \/ t \in VM /\ pc[t] \in {"Stop", "stopping"}

\* opMu excludes: its holder is the thread that is inside.
LockDiscipline == \A t \in Thread : HoldsOpMu(t) => opMu[VMOf(t)] = t

\* Calls, supervisors and visits each stay in their own code.
ThreadKinds ==
    /\ \A v \in VM : pc[v] \in {"idle", "visit", "Stop", "stopping"}
    /\ \A r \in Run : pc[r] \in {"idle", "select", "boot", "start", "commit"}
    /\ \A c \in Call :
         /\ pc[c] \notin {"select", "boot", "visit"}
         /\ pc[c] # "idle" => tgt[c] \in VM
         /\ pc[c] \in {"launch", "provision"} => op[c] = "Create"
         /\ pc[c] \in {"Start", "Stop", "Delete", "guest", "deleting", "stopping"} =>
               op[c] # "Create"

\* A start that has its QEMU holds a run of its own VM.
StartsOwnRun ==
    \A t \in Thread : pc[t] = "commit" => arg[t] \in Run /\ arg[t][1] = VMOf(t)

\* While Load runs, and before, the only threads are guest requests and the
\* supervisors of the VMs that have been reattached.
LoadingIsQuiet ==
    /\ unloaded # {} => svc = "loading"
    /\ \A r \in Run : pc[r] # "idle" => svc # "down" /\ r[1] \notin unloaded
    /\ svc \in {"down", "loading"} =>
         /\ \A c \in Call : pc[c] \in {"idle", "guest"}
         /\ \A v \in VM : pc[v] = "idle"
    /\ svc = "down" => \A c \in Call : pc[c] = "idle"

\* The process of an entry is a run of that VM with a supervisor.
ProcessIsSupervised ==
    /\ \A v \in VM :
         proc[v] # NoRun =>
             /\ proc[v] \in Run /\ proc[v][1] = v /\ qemu[proc[v]] # "unused"
             /\ ctxDone \/ pc[proc[v]] = "select"
    /\ \A r \in Run : pc[r] = "select" => proc[r[1]] = r
    /\ \A r \in Run : pc[r] # "idle" => qemu[r] # "unused"

\* A start in flight has the entry without a process.
StartsAlone ==
    \A t \in Thread :
        /\ pc[t] \in {"start", "commit"} => proc[VMOf(t)] = NoRun
        /\ pc[t] = "commit" => qemu[arg[t]] # "unused"

\* A call gets to start a boot only for an installed disk.
CallsBootInstalled ==
    \A c \in Call : pc[c] = "start" /\ op[c] # "Create" => rec[tgt[c]].installed

\* A Create that has yet to start its installer.
Installing(c) == op[c] = "Create" /\ pc[c] \in {"launch", "provision", "start"}

\* It is the only one for its VM, which has had no run.
CreatesFirst ==
    /\ \A c \in Call :
         Installing(c) =>
            /\ rec[tgt[c]].state # "none" /\ ~rec[tgt[c]].installed
            /\ \A r \in Run : r[1] = tgt[c] => qemu[r] = "unused"
    /\ \A c, d \in Call : Installing(c) /\ Installing(d) /\ tgt[c] = tgt[d] => c = d

\* With the plain launcher no QEMU runs that neither an entry nor a start in
\* flight accounts for.
Tracked ==
    ~Systemd =>
        \A r \in Run :
            qemu[r] = "running" =>
                \/ proc[r[1]] = r
                \/ \E t \in Thread : pc[t] = "commit" /\ arg[t] = r

-----------------------------------------------------------------------------
(* One VM: what the threads at work on it may rely on.                     *)

\* Before Load has come to a VM this vm-manager holds nothing of it.
NotLoaded(v) ==
    svc = "down" \/ v \in unloaded =>
        /\ ~present[v] /\ rec[v] = NoRecord
        /\ proc[v] = NoRun /\ opMu[v] = Free
        /\ \A r \in RunsOf(v) : ~done[r]
        /\ \A c \in Call : pc[c] = "guest" => tgt[c] # v
        /\ v \in unloaded => disk[v] # NoRecord

\* A closed done channel belongs to a process that is nobody's any more.
DoneIsFinal(v) ==
    \A r \in RunsOf(v) : done[r] => proc[v] # r /\ qemu[r] # "unused"

\* Who waits for p.done under opMu, Delete or Close's visit, waits for the
\* process of the entry, as long as it has one.
WaitsForOwn(v) ==
    \A t \in Thread :
        VMOf(t) = v /\ (pc[t] = "deleting" \/ (t \in VM /\ pc[t] = "stopping")) =>
            arg[t] \in RunsOf(v) /\ proc[v] \in {NoRun, arg[t]}

\* The run a start has launched has no supervisor yet.
CommitsFresh(v) ==
    \A t \in Thread :
        VMOf(t) = v /\ pc[t] = "commit" => pc[arg[t]] = "idle" /\ ~done[arg[t]]

\* A Delete past its wait, or a discard, has no process left.
TeardownIsQuiet(v) ==
    \A c \in Call :
        tgt[c] = v =>
            /\ pc[c] \in {"teardown", "forget"} => proc[v] = NoRun
            /\ pc[c] \in {"teardown", "forget", "deleting"} /\ op[c] # "Create" =>
                  rec[v].state = "deleting"

\* A guest request was made by a QEMU run of the VM it resolved to.
GuestsHaveRun(v) ==
    \A c \in Call :
        tgt[c] = v /\ pc[c] = "guest" => \E r \in RunsOf(v) : qemu[r] # "unused"

ProcessLife(v) ==
    /\ NotLoaded(v) /\ DoneIsFinal(v) /\ WaitsForOwn(v) /\ CommitsFresh(v)
    /\ TeardownIsQuiet(v) /\ GuestsHaveRun(v)

\* No record says none or creating of an installed disk, and the record of a
\* VM between installer and boot has no handles to reattach by.
RecordShape(x) ==
    /\ x.state = "none" => x = NoRecord
    /\ x.state = "creating" => ~x.installed
    /\ x.state = "installing" /\ x.installed => ~x.handles

\* The state of the record follows the process; between the two phases there
\* is none, and the handoff is under way.
StateFollows(v) ==
    /\ RecordShape(rec[v]) /\ RecordShape(disk[v])
    /\ present[v] => rec[v].state # "none"
    /\ proc[v] # NoRun => rec[v].state \in Live \cup {"deleting"}
    /\ rec[v].state \in Live /\ proc[v] = NoRun =>
          rec[v].state = "installing" /\ rec[v].installed
    /\ rec[v].state = "installing" /\ rec[v].installed =>
          proc[v] = NoRun /\ \E r \in RunsOf(v) : pc[r] \in {"boot", "start", "commit"}

\* A boot is started for an installed disk in a state without a process.
BootsInstalled(v) ==
    /\ \A t \in Thread :
         VMOf(t) = v /\ pc[t] \in {"start", "commit"} /\ PhaseOf(t) = "boot" =>
             rec[v].installed /\ rec[v].state \in {"installing", "stopped", "failed"}
    /\ \A r \in RunsOf(v) : pc[r] = "boot" => rec[v].installed

Creating(c) ==
    op[c] = "Create" /\
    pc[c] \in {"launch", "provision", "start", "commit", "teardown", "forget"}

\* Until its installer is up, a Create is the only one for its VM and the VM
\* has had no run; its record is on disk unless Delete or the discard has
\* removed it.
CreatesAlone(v) ==
    /\ \A c \in Call :
         Creating(c) /\ tgt[c] = v =>
            /\ rec[v].state \in {"creating", "deleting"} /\ ~rec[v].installed
            /\ pc[c] # "commit" => \A r \in RunsOf(v) : qemu[r] = "unused"
            /\ pc[c] \in {"start", "commit"} => disk[v] = rec[v]
            /\ pc[c] \in {"launch", "provision"} /\ rec[v].state = "creating" =>
                 disk[v] = rec[v]
    /\ \A c, d \in Call :
         Creating(c) /\ Creating(d) /\ tgt[c] = v /\ tgt[d] = v => c = d

\* An entry that is being deleted is in the hands of the Delete, until it is
\* removed from s.vms.
DeleteHolds(v) ==
    present[v] /\ rec[v].state = "deleting" =>
        \E c \in Call :
            opMu[v] = c /\ tgt[c] = v /\ pc[c] \in {"deleting", "teardown", "forget"}

\* The record on disk is the record in memory, or it is gone: torn down, with
\* nothing left that could start, stop or settle the VM.
SavedOrGone(v) ==
    svc # "down" /\ v \notin unloaded =>
        \/ disk[v] = rec[v]
        \/ /\ disk[v] = NoRecord
           /\ rec[v].state \in {"creating", "deleting"} /\ proc[v] = NoRun
           /\ rec[v].state = "creating" /\ present[v] =>
                /\ \E c \in Call : pc[c] = "forget" /\ tgt[c] = v
                /\ \A r \in RunsOf(v) : qemu[r] = "unused"

RecordLife(v) ==
    /\ StateFollows(v) /\ BootsInstalled(v) /\ CreatesAlone(v)
    /\ DeleteHolds(v) /\ SavedOrGone(v)

\* An installer of the VM is gone and was reported to have exited 0.
InstallerExited(v) ==
    \E q \in RunsOf(v) : phase[q] = "install" /\ code[q] = "zero" /\ qemu[q] = "released"

\* Something says that the disk is installed, or boots it.
ClaimsInstalled(v) ==
    \/ rec[v].installed \/ rec[v].phase = "boot"
    \/ disk[v].installed \/ disk[v].phase = "boot"
    \/ \E r \in RunsOf(v) : phase[r] = "boot"

\* It is right.
InstallerVouches(v) ==
    v \notin Preexisting /\ ClaimsInstalled(v) => InstallerExited(v)

\* ClosedStaysStopped, for one VM.
StaysStopped(v) ==
    closing /\ ~DetachOnClose /\ pc[v] = "idle" /\ present[v] /\ rec[v].installed =>
        /\ proc[v] = NoRun
        /\ \A t \in Thread : pc[t] \in {"start", "commit"} => VMOf(t) # v

\* Everything above holds together in every reachable state, whatever step a
\* call, supervisor, Close visit or restart takes.
IInv ==
    /\ TypeOK /\ LockDiscipline /\ ThreadKinds /\ StartsOwnRun /\ LoadingIsQuiet
    /\ ProcessIsSupervised /\ StartsAlone /\ CallsBootInstalled /\ CreatesFirst
    /\ Tracked /\ OneQEMU
    /\ \A v \in VM :
         ProcessLife(v) /\ RecordLife(v) /\ InstallerVouches(v) /\ StaysStopped(v)
=============================================================================
