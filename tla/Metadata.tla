------------------------------ MODULE Metadata ------------------------------
(***************************************************************************)
(* What finds a VM by its address or outlives a lookup of it: the requests *)
(* of guests to the metadata service (internal/imds, vm/imds.go) and port  *)
(* forwards (vm/exec.go), while VMs are created and deleted and vm-manager *)
(* ends between any two steps.                                             *)
(*                                                                         *)
(* The networks stay as they are, and networks.json is written in one step *)
(* (its races are those of Networks).  A step is one hold of s.mu, one     *)
(* call into the network, the storage or the metrics, or one file.         *)
(***************************************************************************)
EXTENDS Naturals, FiniteSetsExt

CONSTANTS
    Creates,       \* bound: VMs, numbered in the order of Create
    Segment,       \* networks
    Overlapping,   \* the networks have one CIDR
    Addresses,     \* bound: pool addresses of a network
    Slot,          \* bound: guest requests and calls at work at once
    MaxReloads     \* bound: restarts of vm-manager

ASSUME MetadataAssumption ==
    Creates \in Nat /\ Overlapping \in BOOLEAN /\ Addresses \in Nat /\ MaxReloads \in Nat

Machine == 1..Creates
Nobody == 0
NoIP == 0
IPs == 1..Addresses

VARIABLES
    home,        \* the network of each VM
    used,        \* VMs that have been created
    vms,         \* Service.vms
    record,      \* entry.rec, also of an entry that is no longer listed
    disk,        \* the VM's directory: vm.json and report.json
    volumes,     \* VMs whose volume exists
    lease,       \* Network.leases
    netsFile,    \* networks.json
    qemu,        \* the address of the MAC of a running QEMU
    launching,   \* VMs whose Create waits for opMu
    job,         \* the call that holds opMu, and where it is
    calls,       \* guest requests and Forward
    forwards,    \* the port forward of a VM: listening, and in entry.forwards
    series,      \* VMs with metrics of their last report
    misread,     \* history: guests answered from the record of another VM that is not stale
    late,        \* history: VMs that a call was about to touch when teardown did
    stale,       \* history: VMs discarded, or loaded while creating or deleting
    reloads

entryVars == <<home, used, vms, record, disk, volumes, lease, netsFile, qemu, launching, job>>
histVars == <<misread, late, stale, reloads>>
metadataVars == <<entryVars, calls, forwards, series, histVars>>

NoRec == [state |-> "none", ip |-> NoIP]
NoDir == [rec |-> NoRec, report |-> FALSE]
NoJob == [op |-> "none", step |-> "none"]
NoCall == [op |-> "none", step |-> "none", vm |-> Nobody]

MetadataInit ==
    /\ home \in [Machine -> Segment]
    /\ used = {} /\ vms = {} /\ volumes = {} /\ launching = {} /\ series = {}
    /\ record = [v \in Machine |-> NoRec] /\ disk = [v \in Machine |-> NoDir]
    /\ lease = [v \in Machine |-> NoIP] /\ netsFile = [v \in Machine |-> NoIP]
    /\ qemu = [v \in Machine |-> NoIP]
    /\ job = [v \in Machine |-> NoJob]
    /\ calls = [c \in Slot |-> NoCall]
    /\ forwards = [v \in Machine |-> "none"]
    /\ misread = {} /\ late = {} /\ stale = {} /\ reloads = 0

\* s.save: the record and vm.json; writeAtomic makes the directory anew.
SaveRec(v, r) ==
    /\ record' = [record EXCEPT ![v] = r]
    /\ disk' = [disk EXCEPT ![v].rec = r]

Proceed(v, label) == job' = [job EXCEPT ![v].step = label]
Finish(c) == calls' = [calls EXCEPT ![c] = NoCall]

InFlight(v, ops) == \E c \in Slot : calls[c].vm = v /\ calls[c].op \in ops

\* A call goes on with the VM it looked up; discard, unlike Delete, does not
\* keep it from that.
Begin(c, op, label, v) ==
    /\ calls' = [calls EXCEPT ![c] = [op |-> op, step |-> label, vm |-> v]]
    /\ late' = IF job[v].op = "discard" THEN late \cup {v} ELSE late

\* Attach: the lease held, or the lowest free address.
FreeIPs(v) == IPs \ {lease[w] : w \in {x \in Machine : home[x] = home[v]}}
LeaseOf(v) == IF lease[v] # NoIP \/ FreeIPs(v) = {} THEN lease[v] ELSE Min(FreeIPs(v))

-----------------------------------------------------------------------------
(* Create and Start.                                                       *)

allocate(v) ==
    /\ v = Cardinality(used) + 1
    /\ used' = used \cup {v} /\ vms' = vms \cup {v} /\ launching' = launching \cup {v}
    /\ SaveRec(v, [state |-> "creating", ip |-> NoIP])
    /\ UNCHANGED <<home, volumes, lease, netsFile, qemu, job, calls, forwards, series, histVars>>

\* discard tears down a VM whose record still says creating.
discard(v) ==
    /\ job' = [job EXCEPT ![v] = [op |-> "discard", step |-> "forwards"]]
    /\ stale' = stale \cup {v}

\* launch and provision, up to the lease; a failure is discarded.
provision(v) ==
    /\ v \in launching /\ job[v] = NoJob
    /\ launching' = launching \ {v}
    /\ \/ discard(v) /\ UNCHANGED <<volumes, lease>>
       \/ /\ LeaseOf(v) # NoIP
          /\ volumes' = volumes \cup {v}
          /\ lease' = [lease EXCEPT ![v] = LeaseOf(v)]
          /\ job' = [job EXCEPT ![v] = [op |-> "create", step |-> "record"]]
          /\ UNCHANGED stale
    /\ UNCHANGED <<home, used, vms, record, disk, netsFile, qemu, calls, forwards, series,
                   misread, late, reloads>>

recordIP(v) ==
    /\ job[v].step = "record"
    /\ SaveRec(v, [record[v] EXCEPT !.ip = lease[v]])
    /\ Proceed(v, "persist")
    /\ UNCHANGED <<home, used, vms, volumes, lease, netsFile, qemu, launching, calls, forwards,
                   series, histVars>>

persistNetworks(v) ==
    /\ job[v].step = "persist"
    /\ netsFile' = lease
    /\ IF job[v].op = "create" THEN Proceed(v, "start") ELSE job' = [job EXCEPT ![v] = NoJob]
    /\ UNCHANGED <<home, used, vms, record, disk, volumes, lease, qemu, launching, calls,
                   forwards, series, histVars>>

\* startProcess: Attach again, and QEMU with the MAC of that address; the
\* address in the record is the one provision wrote.
startProcess(v) ==
    /\ job[v].step = "start"
    /\ \/ /\ LeaseOf(v) # NoIP
          /\ lease' = [lease EXCEPT ![v] = LeaseOf(v)]
          /\ qemu' = [qemu EXCEPT ![v] = LeaseOf(v)]
          /\ SaveRec(v, [record[v] EXCEPT !.state = "live"])
          /\ job' = [job EXCEPT ![v] = NoJob]
          /\ UNCHANGED stale
       \/ /\ job[v].op = "create"
          /\ discard(v)
          /\ UNCHANGED <<record, disk, lease, qemu>>
       \/ /\ job[v].op = "start"
          /\ SaveRec(v, [record[v] EXCEPT !.state = "failed"])
          /\ job' = [job EXCEPT ![v] = NoJob]
          /\ UNCHANGED <<lease, qemu, stale>>
    /\ UNCHANGED <<home, used, vms, volumes, netsFile, launching, calls, forwards, series,
                   misread, late, reloads>>

\* Start of an installed VM without a process, whose volume opens.
StartVM(v) ==
    /\ v \in vms \cap volumes /\ job[v] = NoJob
    /\ record[v].state \in {"stopped", "failed"} /\ qemu[v] = NoIP
    /\ job' = [job EXCEPT ![v] = [op |-> "start", step |-> "start"]]
    /\ UNCHANGED <<home, used, vms, record, disk, volumes, lease, netsFile, qemu, launching,
                   calls, forwards, series, histVars>>

\* onExit.
onExit(v) ==
    /\ qemu[v] # NoIP
    /\ qemu' = [qemu EXCEPT ![v] = NoIP]
    /\ SaveRec(v, [record[v] EXCEPT !.state = IF @ = "live" THEN "stopped" ELSE @])
    /\ UNCHANGED <<home, used, vms, volumes, lease, netsFile, launching, job, calls, forwards,
                   series, histVars>>

-----------------------------------------------------------------------------
(* Delete, and discard, which begins at teardown.                          *)

DeleteVM(v) ==
    /\ v \in vms /\ job[v] = NoJob /\ record[v].state # "deleting"
    /\ SaveRec(v, [record[v] EXCEPT !.state = "deleting"])
    /\ job' = [job EXCEPT ![v] = [op |-> "delete", step |-> "forwards"]]
    /\ UNCHANGED <<home, used, vms, volumes, lease, netsFile, qemu, launching, calls, forwards,
                   series, histVars>>

Overtake(v, ops) == late' = IF InFlight(v, ops) THEN late \cup {v} ELSE late

\* Mutant: teardown leaves the forwards to the network.
ForwardsClosedNot(v) == forwards

\* teardown: the forwards the entry lists are taken and closed.
ForwardsClosed(v) == IF forwards[v] = "listed" THEN [forwards EXCEPT ![v] = "none"] ELSE forwards

\* Delete waits for the process first.
teardownForwards(v) ==
    /\ job[v].step = "forwards" /\ qemu[v] = NoIP
    /\ forwards' = ForwardsClosed(v)
    /\ Overtake(v, {"Forward"})
    /\ Proceed(v, "detach")
    /\ UNCHANGED <<home, used, vms, record, disk, volumes, lease, netsFile, qemu, launching,
                   calls, series, misread, stale, reloads>>

teardownDetach(v) ==
    /\ job[v].step = "detach"
    /\ lease' = [lease EXCEPT ![v] = NoIP]
    /\ Proceed(v, "volume")
    /\ UNCHANGED <<home, used, vms, record, disk, volumes, netsFile, qemu, launching, calls,
                   forwards, series, histVars>>

teardownVolume(v) ==
    /\ job[v].step = "volume"
    /\ volumes' = volumes \ {v}
    /\ Proceed(v, "remove")
    /\ UNCHANGED <<home, used, vms, record, disk, lease, netsFile, qemu, launching, calls,
                   forwards, series, histVars>>

teardownRemove(v) ==
    /\ job[v].step = "remove"
    /\ disk' = [disk EXCEPT ![v] = NoDir]
    /\ Overtake(v, {"attest", "report"})
    /\ Proceed(v, "forget")
    /\ UNCHANGED <<home, used, vms, record, volumes, lease, netsFile, qemu, launching, calls,
                   forwards, series, misread, stale, reloads>>

\* What follows the removal of the entry.
forgetEntry(v) ==
    /\ job[v].step = "forget"
    /\ vms' = vms \ {v}
    /\ Proceed(v, IF job[v].op = "delete" THEN "metrics" ELSE "persist")
    /\ UNCHANGED <<home, used, record, disk, volumes, lease, netsFile, qemu, launching, calls,
                   forwards, series, histVars>>

\* Metrics.ForgetVM and the attestor's Forget.
ForgetVM(v) ==
    /\ job[v].step = "metrics"
    /\ series' = series \ {v}
    /\ Proceed(v, "persist")
    /\ UNCHANGED <<home, used, vms, record, disk, volumes, lease, netsFile, qemu, launching,
                   calls, forwards, histVars>>

-----------------------------------------------------------------------------
(* The metadata service.                                                   *)

SameAddress(v, w, ip) == record[w].ip = ip /\ (Overlapping \/ home[v] = home[w])

\* Mutant: a VM that is being deleted is found.
LookupByIPDeleting(v) == {w \in vms : SameAddress(v, w, qemu[v])}

\* LookupByIP: any VM that has the address of guest v in its record.
LookupByIP(v) == {w \in vms : SameAddress(v, w, qemu[v]) /\ record[w].state # "deleting"}

Resolved(v, w) ==
    misread' = IF v = w \/ {v, w} \cap stale # {} THEN misread ELSE misread \cup {<<v, w>>}

\* logged, resolved: the caller is looked up once; an unknown one gets 403.
\* The keys and user-data are answered from that Instance.
getKey(v) ==
    /\ qemu[v] # NoIP
    /\ \E w \in LookupByIP(v) : Resolved(v, w)
    /\ UNCHANGED <<entryVars, calls, forwards, series, late, stale, reloads>>

\* attestNonce, attestQuote and report go on with the id.
guestCall(c, v, op) ==
    /\ calls[c] = NoCall /\ qemu[v] # NoIP
    /\ \E w \in LookupByIP(v) :
         /\ Resolved(v, w)
         /\ Begin(c, op, "handle", w)
    /\ UNCHANGED <<entryVars, forwards, series, stale, reloads>>

\* Nonce and SubmitQuote, which leave the record alone, then onNonce or
\* recordQuote: the record of a VM that is still listed is saved.
recordAttestation(c) ==
    LET w == calls[c].vm IN
    /\ calls[c].op = "attest"
    /\ IF w \in vms THEN SaveRec(w, record[w]) ELSE UNCHANGED <<record, disk>>
    /\ Finish(c)
    /\ UNCHANGED <<home, used, vms, volumes, lease, netsFile, qemu, launching, job, forwards,
                   series, histVars>>

\* StoreReport: report.json under s.mu; a VM that is gone is not found.
StoreReport(c) ==
    LET w == calls[c].vm IN
    /\ calls[c].op = "report" /\ calls[c].step = "handle"
    /\ IF w \in vms
       THEN /\ disk' = [disk EXCEPT ![w].report = TRUE]
            /\ calls' = [calls EXCEPT ![c].step = "export"]
       ELSE Finish(c) /\ UNCHANGED disk
    /\ UNCHANGED <<home, used, vms, record, volumes, lease, netsFile, qemu, launching, job,
                   forwards, series, histVars>>

\* Metrics.StoreReport, without the lock.
exportReport(c) ==
    /\ calls[c].step = "export"
    /\ series' = series \cup {calls[c].vm}
    /\ Finish(c)
    /\ UNCHANGED <<entryVars, forwards, histVars>>

-----------------------------------------------------------------------------
(* Forward.                                                                *)

\* Mutant: a VM that is being deleted may still be forwarded to.
ForwardableDeleting(v) == record[v].ip # NoIP

Forwardable(v) == record[v].ip # NoIP /\ record[v].state # "deleting"

Forward(c, v) ==
    /\ calls[c] = NoCall /\ v \in vms /\ Forwardable(v)
    /\ forwards[v] = "none" /\ ~InFlight(v, {"Forward"})
    /\ Begin(c, "Forward", "listen", v)
    /\ UNCHANGED <<entryVars, forwards, series, misread, stale, reloads>>

\* Network.Forward: the listener and its goroutine.
forwardListen(c) ==
    /\ calls[c].step = "listen"
    /\ forwards' = [forwards EXCEPT ![calls[c].vm] = "listening"]
    /\ calls' = [calls EXCEPT ![c].step = "append"]
    /\ UNCHANGED <<entryVars, series, histVars>>

forwardAppend(c) ==
    /\ calls[c].step = "append"
    /\ forwards' = [forwards EXCEPT ![calls[c].vm] = "listed"]
    /\ Finish(c)
    /\ UNCHANGED <<entryVars, series, histVars>>

-----------------------------------------------------------------------------
(* Restarts.                                                               *)

\* loadEntry, reattachOrStop.
Loaded(v, alive) ==
    LET r == disk[v].rec IN
    [r EXCEPT !.state = IF @ \in {"creating", "deleting"} THEN "failed"
                        ELSE IF @ = "live" /\ v \notin alive THEN "stopped"
                        ELSE @]

\* The leases after Load: those of networks.json, and reattach attaches a VM
\* that has none there.
Reattached(alive) ==
    {f \in [Machine -> IPs \cup {NoIP}] :
        /\ \A v \in Machine : netsFile[v] # NoIP \/ v \notin alive => f[v] = netsFile[v]
        /\ \A v \in alive : f[v] # NoIP
        /\ \A v, w \in Machine : v # w /\ home[v] = home[w] /\ f[v] = f[w] => f[v] = NoIP}

\* vm-manager ends and the next one loads what is on disk.  The QEMUs of live
\* records end with it or are reattached; what may still run for another
\* record is not followed.
reload ==
    /\ reloads < MaxReloads /\ reloads' = reloads + 1
    /\ \E alive \in SUBSET {v \in Machine : qemu[v] # NoIP /\ disk[v].rec.state = "live"} :
         LET found == {v \in Machine : disk[v].rec # NoRec} IN
         /\ vms' = found /\ lease' \in Reattached(alive)
         /\ record' = [v \in Machine |-> IF v \in found THEN Loaded(v, alive) ELSE NoRec]
         /\ disk' = [v \in Machine |->
                       IF v \in found THEN [disk[v] EXCEPT !.rec = Loaded(v, alive)] ELSE disk[v]]
         /\ qemu' = [v \in Machine |-> IF v \in alive THEN qemu[v] ELSE NoIP]
         /\ stale' = stale \cup {v \in found : disk[v].rec.state \in {"creating", "deleting"}}
    /\ launching' = {} /\ job' = [v \in Machine |-> NoJob]
    /\ calls' = [c \in Slot |-> NoCall]
    /\ forwards' = [v \in Machine |-> "none"] /\ series' = {}
    /\ late' = late \cup {v \in Machine : disk[v].rec = NoRec /\ job[v] # NoJob}
    /\ UNCHANGED <<home, used, volumes, netsFile, misread>>

-----------------------------------------------------------------------------
MetadataNext ==
    \/ \E v \in Machine :
         \/ allocate(v) \/ provision(v) \/ recordIP(v) \/ persistNetworks(v)
         \/ startProcess(v) \/ StartVM(v) \/ onExit(v)
         \/ DeleteVM(v) \/ teardownForwards(v) \/ teardownDetach(v) \/ teardownVolume(v)
         \/ teardownRemove(v) \/ forgetEntry(v) \/ ForgetVM(v)
         \/ getKey(v)
         \/ \E c \in Slot :
              \/ \E op \in {"attest", "report"} : guestCall(c, v, op)
              \/ Forward(c, v)
    \/ \E c \in Slot :
         \/ recordAttestation(c) \/ StoreReport(c) \/ exportReport(c)
         \/ forwardListen(c) \/ forwardAppend(c)
    \/ reload

MetadataSpec == MetadataInit /\ [][MetadataNext]_metadataVars

-----------------------------------------------------------------------------
(* Properties.                                                             *)

\* A guest is answered from its own record, and nothing it sends is stored
\* with another VM: the address LookupByIP goes by stands for one VM, through
\* deletions that free it, other VMs that get it and restarts.  The exceptions
\* are records that keep an address they no longer hold: of a Create that is
\* being discarded, which is not marked deleting, and of a VM that Load marks
\* failed ("delete it").
AddressIsIdentity == misread = {}

\* A VM whose Delete or discard is complete leaves nothing behind: no lease,
\* volume or metrics, no directory and no forward into an address that the
\* next VM gets.  What is left is of a call that had looked the VM up before
\* teardown and went on after it, or of a Create that Delete overtook.
NothingLeftBehind ==
    \A v \in used \ (vms \cup launching) :
        job[v] = NoJob /\ qemu[v] = NoIP =>
            \/ v \in late
            \/ record[v].state \in {"live", "stopped", "failed"}
            \/ /\ lease[v] = NoIP /\ netsFile[v] = NoIP /\ v \notin volumes \cup series
               /\ disk[v] = NoDir /\ forwards[v] = "none"
=============================================================================
