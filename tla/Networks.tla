------------------------------ MODULE Networks ------------------------------
(***************************************************************************)
(* The virtual networks of vm-manager (internal/network) as the VM service *)
(* uses them: leases, the metadata server of each network, networks.json   *)
(* and the VM records that hold an address, with API calls that create and *)
(* delete networks and VMs at the same time, and restarts between any two  *)
(* steps.                                                                  *)
(*                                                                         *)
(* A network that is deleted and created again under its name is another   *)
(* *Network: a generation of the name.  A step is one hold of s.mu, of the *)
(* manager's mutex or of the network's; Manager.Delete alone keeps the     *)
(* manager's across two holds of the network's.                            *)
(***************************************************************************)
EXTENDS Naturals, FiniteSetsExt

CONSTANTS
    Caller,        \* API calls at work at once
    VM,            \* VM ids; an id is used once
    Net,           \* network names
    PoolSize,      \* poolSize: addresses Attach may hand out
    MaxGen,        \* bound: generations of a network name
    MaxRestarts,   \* bound: restarts of vm-manager
    Systemd,       \* QEMU outlives vm-manager
    WritesFail,    \* a write of networks.json may fail
    Free           \* nobody holds the mutex

ASSUME BoundsAssumption ==
    PoolSize \in Nat /\ MaxGen \in Nat /\ MaxRestarts \in Nat

ASSUME OptionsAssumption == Systemd \in BOOLEAN /\ WritesFail \in BOOLEAN

ASSUME FreeAssumption == Free \notin Caller

ASSUME NamesAssumption == "none" \notin VM /\ "none" \notin Net

Addr == 1..PoolSize
NoAddr == 0
Gen == 1..MaxGen
NoGen == 0

VARIABLES
    nets,      \* Manager.nets: the generation each name stands for
    made,      \* generations made so far
    leases,    \* Network.leases
    closed,    \* Network.closed
    mMu,       \* Manager.mu, where it is kept across steps
    imds,      \* Service.imds: the generation the server listens in
    netFile,   \* networks.json
    present,   \* v is in Service.vms
    rec,       \* entry.rec
    vmFile,    \* vm.json
    opMu,      \* entry.opMu
    guest,     \* the QEMU of the VM: its network and the address of its MAC
    call,      \* the API calls
    svc,       \* "down", "loading", "serving"
    unloaded,  \* records Load has not come to
    restarts

netVars == <<nets, made, leases, closed, mMu, imds>>
vmVars == <<present, rec, vmFile, opMu, guest>>
svcVars == <<svc, unloaded, restarts>>
vars == <<netVars, netFile, vmVars, call, svcVars>>

NoLeases == [v \in VM |-> NoAddr]
NoNet == [known |-> FALSE, leases |-> NoLeases]      \* not in networks.json
NoRecord == [state |-> "none", net |-> "none", ip |-> NoAddr]
NoGuest == [net |-> "none", ip |-> NoAddr]
Idle == [pc |-> "idle", op |-> "none", net |-> "none", gen |-> NoGen, vm |-> "none",
         ip |-> NoAddr, todo |-> {}, states |-> [n \in Net |-> NoNet]]

Init ==
    /\ nets = [n \in Net |-> NoGen] /\ made = [n \in Net |-> 0]
    /\ leases = [n \in Net |-> [g \in Gen |-> NoLeases]]
    /\ closed = [n \in Net |-> [g \in Gen |-> FALSE]]
    /\ mMu = Free /\ imds = [n \in Net |-> NoGen]
    /\ netFile = [n \in Net |-> NoNet]
    /\ present = [v \in VM |-> FALSE]
    /\ rec = [v \in VM |-> NoRecord] /\ vmFile = [v \in VM |-> NoRecord]
    /\ opMu = [v \in VM |-> Free] /\ guest = [v \in VM |-> NoGuest]
    /\ call = [c \in Caller |-> Idle]
    /\ svc = "serving" /\ unloaded = {} /\ restarts = 0

Goto(c, label) == call' = [call EXCEPT ![c].pc = label]
Return(c) == call' = [call EXCEPT ![c] = Idle]
Save(v, r) ==
    /\ rec' = [rec EXCEPT ![v] = r]
    /\ vmFile' = [vmFile EXCEPT ![v] = r]

-----------------------------------------------------------------------------
(* Leases.                                                                 *)

Held(n, g) == {leases[n][g][v] : v \in VM} \ {NoAddr}

\* Mutant: an address is free while the pool is not exhausted.
freeAddrUnchecked(n, g) == IF Cardinality(Held(n, g)) = PoolSize THEN NoAddr ELSE Min(Addr)

\* freeAddrLocked: the lowest pool address that nobody holds.
freeAddr(n, g) ==
    LET free == Addr \ Held(n, g) IN IF free = {} THEN NoAddr ELSE Min(free)

\* Attach: the lease the VM holds, or a new one; none when there is no free
\* address or the network is closed.
Attached(n, g, v) ==
    IF closed[n][g] THEN NoAddr
    ELSE IF leases[n][g][v] # NoAddr THEN leases[n][g][v]
    ELSE freeAddr(n, g)

Attach(n, g, v) == leases' = [leases EXCEPT ![n][g][v] = Attached(n, g, v)]

-----------------------------------------------------------------------------
(* CreateNetwork and DeleteNetwork.                                        *)

\* Manager.Create, in CreateNetwork.
CreateNetwork(c, n) ==
    /\ call[c].pc = "idle" /\ svc = "serving"
    /\ mMu = Free /\ nets[n] = NoGen /\ made[n] < MaxGen
    /\ made' = [made EXCEPT ![n] = @ + 1]
    /\ nets' = [nets EXCEPT ![n] = made[n] + 1]
    /\ call' = [call EXCEPT ![c] = [Idle EXCEPT !.pc = "serve", !.op = "CreateNetwork",
                                                !.net = n]]
    /\ UNCHANGED <<leases, closed, mMu, imds, netFile, vmVars, svcVars>>

\* ServeIMDS: the first look at s.imds.
ServeIMDS(c) ==
    /\ call[c].pc = "serve"
    /\ Goto(c, IF imds[call[c].net] # NoGen THEN "list" ELSE "get")
    /\ UNCHANGED <<netVars, netFile, vmVars, svcVars>>

\* An error of ServeIMDS: CreateNetwork deletes whatever has the name.
Undo(c) == call' = [call EXCEPT ![c].pc = "delete", ![c].op = "undo"]

\* ServeIMDS: Networks.Get.
GetNetwork(c) ==
    LET n == call[c].net IN
    /\ call[c].pc = "get" /\ mMu = Free
    /\ IF nets[n] = NoGen
       THEN Undo(c)
       ELSE call' = [call EXCEPT ![c].pc = "listen", ![c].gen = nets[n]]
    /\ UNCHANGED <<netVars, netFile, vmVars, svcVars>>

\* The metadata address of a network can be bound once.
Bound(n, g) ==
    \/ imds[n] = g
    \/ \E d \in Caller : call[d].pc = "register" /\ call[d].net = n /\ call[d].gen = g

\* ServeIMDS: Network.ListenIMDS.
ListenIMDS(c) ==
    LET n == call[c].net
        g == call[c].gen IN
    /\ call[c].pc = "listen"
    /\ IF closed[n][g] \/ Bound(n, g) THEN Undo(c) ELSE Goto(c, "register")
    /\ UNCHANGED <<netVars, netFile, vmVars, svcVars>>

\* The second look at s.imds; the listener of the loser is closed.
RegisterIMDS(c) ==
    LET n == call[c].net IN
    /\ call[c].pc = "register"
    /\ imds' = IF imds[n] = NoGen THEN [imds EXCEPT ![n] = call[c].gen] ELSE imds
    /\ Goto(c, "list")
    /\ UNCHANGED <<nets, made, leases, closed, mMu, netFile, vmVars, svcVars>>

\* DeleteNetwork: no VM of the service names the network.
DeleteNetwork(c, n) ==
    /\ call[c].pc = "idle" /\ svc = "serving"
    /\ \A v \in VM : present[v] => rec[v].net # n
    /\ call' = [call EXCEPT ![c] = [Idle EXCEPT !.pc = "delete", !.op = "DeleteNetwork",
                                                !.net = n]]
    /\ UNCHANGED <<netVars, netFile, vmVars, svcVars>>

Deletable(n) == nets[n] # NoGen /\ Held(n, nets[n]) = {}

\* Manager.Delete: unknown or in use, or on to Close with the mutex kept.
DeleteChecks(c) ==
    LET n == call[c].net IN
    /\ call[c].pc = "delete" /\ mMu = Free
    /\ IF Deletable(n)
       THEN mMu' = c /\ call' = [call EXCEPT ![c].pc = "close", ![c].gen = nets[n]]
       ELSE Return(c) /\ UNCHANGED mMu
    /\ UNCHANGED <<nets, made, leases, closed, imds, netFile, vmVars, svcVars>>

\* Manager.Delete: Network.Close and the end of the name.
CloseNetwork(c) ==
    LET n == call[c].net IN
    /\ call[c].pc = "close"
    /\ closed' = [closed EXCEPT ![n][call[c].gen] = TRUE]
    /\ nets' = [nets EXCEPT ![n] = NoGen]
    /\ mMu' = Free
    /\ IF call[c].op = "undo" THEN Return(c) ELSE Goto(c, "unserve")
    /\ UNCHANGED <<made, leases, imds, netFile, vmVars, svcVars>>

\* DeleteNetwork: the server of the name, whichever generation it serves.
Unserve(c) ==
    /\ call[c].pc = "unserve"
    /\ imds' = [imds EXCEPT ![call[c].net] = NoGen]
    /\ Goto(c, "list")
    /\ UNCHANGED <<nets, made, leases, closed, mMu, netFile, vmVars, svcVars>>

-----------------------------------------------------------------------------
(* persistNetworks, at the end of every operation that changes a lease or  *)
(* a network: no lock spans the snapshot and the write.                    *)

\* Manager.List.
List(c) ==
    /\ call[c].pc = "list" /\ mMu = Free
    /\ call' = [call EXCEPT ![c].pc = "states",
                            ![c].todo = {<<n, nets[n]>> : n \in {m \in Net : nets[m] # NoGen}},
                            ![c].states = [n \in Net |-> NoNet]]
    /\ UNCHANGED <<netVars, netFile, vmVars, svcVars>>

\* Network.State of one of them.
State(c, n, g) ==
    /\ call[c].pc = "states" /\ <<n, g>> \in call[c].todo
    /\ call' = [call EXCEPT ![c].todo = @ \ {<<n, g>>},
                            ![c].states[n] = [known |-> TRUE, leases |-> leases[n][g]]]
    /\ UNCHANGED <<netVars, netFile, vmVars, svcVars>>

\* A Create that fails before the installer is up is discarded.
Discard(c) == call' = [call EXCEPT ![c].pc = "detach", ![c].op = "discard"]

\* writeJSON, and what the caller does next: Create goes on to the installer,
\* or to discard when the write failed; the others return.
Persist(c) ==
    LET v == call[c].vm IN
    /\ call[c].pc = "states" /\ call[c].todo = {}
    /\ \/ netFile' = call[c].states
       \/ WritesFail /\ UNCHANGED netFile
    /\ IF call[c].op = "Create"
       THEN /\ IF netFile' = call[c].states THEN Goto(c, "start") ELSE Discard(c)
            /\ UNCHANGED opMu
       ELSE /\ Return(c)
            /\ opMu' = [w \in VM |-> IF w = v THEN Free ELSE opMu[w]]
    /\ UNCHANGED <<netVars, present, rec, vmFile, guest, svcVars>>

-----------------------------------------------------------------------------
(* VMs, as far as they hold a lease.                                       *)

\* Create: Networks.Get, before anything is allocated.
Create(c, v, n) ==
    /\ call[c].pc = "idle" /\ svc = "serving"
    /\ mMu = Free /\ nets[n] # NoGen
    /\ rec[v] = NoRecord /\ vmFile[v] = NoRecord /\ guest[v] = NoGuest
    /\ \A d \in Caller : call[d].vm # v
    /\ call' = [call EXCEPT ![c] = [Idle EXCEPT !.pc = "allocate", !.op = "Create",
                                                !.net = n, !.gen = nets[n], !.vm = v]]
    /\ UNCHANGED <<netVars, netFile, vmVars, svcVars>>

Allocate(c) ==
    LET v == call[c].vm IN
    /\ call[c].pc = "allocate"
    /\ Save(v, [state |-> "creating", net |-> call[c].net, ip |-> NoAddr])
    /\ present' = [present EXCEPT ![v] = TRUE]
    /\ Goto(c, "launch")
    /\ UNCHANGED <<netVars, netFile, opMu, guest, svcVars>>

Launch(c) ==
    LET v == call[c].vm IN
    /\ call[c].pc = "launch" /\ opMu[v] = Free
    /\ opMu' = [opMu EXCEPT ![v] = c]
    /\ Goto(c, "provision")
    /\ UNCHANGED <<netVars, netFile, present, rec, vmFile, guest, svcVars>>

\* provision, up to Attach on the network Create looked up.
Provision(c) ==
    LET n == call[c].net
        g == call[c].gen
        v == call[c].vm IN
    /\ call[c].pc = "provision"
    /\ \/ Discard(c) /\ UNCHANGED leases
       \/ /\ Attached(n, g, v) # NoAddr
          /\ Attach(n, g, v)
          /\ call' = [call EXCEPT ![c].pc = "record", ![c].ip = Attached(n, g, v)]
    /\ UNCHANGED <<nets, made, closed, mMu, imds, netFile, vmVars, svcVars>>

\* provision: the address goes into the record.
RecordIP(c) ==
    LET v == call[c].vm IN
    /\ call[c].pc = "record"
    /\ Save(v, [rec[v] EXCEPT !.ip = call[c].ip])
    /\ Goto(c, "list")
    /\ UNCHANGED <<netVars, netFile, present, opMu, guest, svcVars>>

\* Start, under opMu, for an installed VM without a process.
Start(c, v) ==
    /\ call[c].pc = "idle" /\ svc = "serving"
    /\ present[v] /\ opMu[v] = Free /\ rec[v].state = "stopped"
    /\ opMu' = [opMu EXCEPT ![v] = c]
    /\ call' = [call EXCEPT ![c] = [Idle EXCEPT !.pc = "start", !.op = "Start", !.vm = v]]
    /\ UNCHANGED <<netVars, netFile, present, rec, vmFile, guest, svcVars>>

\* A start that fails: discard or fail.
StartFails(c) ==
    LET v == call[c].vm IN
    IF call[c].op = "Create"
    THEN Discard(c) /\ UNCHANGED <<rec, vmFile, opMu>>
    ELSE /\ Save(v, [rec[v] EXCEPT !.state = "failed"])
         /\ opMu' = [opMu EXCEPT ![v] = Free]
         /\ Return(c)

\* startProcess: Networks.Get with the name in the record.
StartGets(c) ==
    LET n == rec[call[c].vm].net IN
    /\ call[c].pc = "start" /\ mMu = Free
    /\ IF nets[n] = NoGen
       THEN StartFails(c)
       ELSE /\ call' = [call EXCEPT ![c].pc = "attach", ![c].net = n, ![c].gen = nets[n]]
            /\ UNCHANGED <<rec, vmFile, opMu>>
    /\ UNCHANGED <<netVars, netFile, present, guest, svcVars>>

\* startProcess: Attach.
StartAttaches(c) ==
    LET n == call[c].net
        g == call[c].gen
        v == call[c].vm IN
    /\ call[c].pc = "attach"
    /\ IF Attached(n, g, v) = NoAddr
       THEN StartFails(c) /\ UNCHANGED leases
       ELSE /\ Attach(n, g, v)
            /\ call' = [call EXCEPT ![c].pc = "qemu", ![c].ip = Attached(n, g, v)]
            /\ UNCHANGED <<rec, vmFile, opMu>>
    /\ UNCHANGED <<nets, made, closed, mMu, imds, netFile, present, guest, svcVars>>

\* startProcess: QEMU with the MAC of the address, and the commit.
StartQEMU(c) ==
    LET v == call[c].vm IN
    /\ call[c].pc = "qemu"
    /\ \/ StartFails(c) /\ UNCHANGED guest
       \/ /\ guest' = [guest EXCEPT ![v] = [net |-> call[c].net, ip |-> call[c].ip]]
          /\ Save(v, [rec[v] EXCEPT !.state = "live"])
          /\ opMu' = [opMu EXCEPT ![v] = Free]
          /\ Return(c)
    /\ UNCHANGED <<netVars, netFile, present, svcVars>>

\* onExit.
ProcessExits(v) ==
    /\ svc = "serving" /\ guest[v] # NoGuest /\ rec[v].state \in {"live", "deleting"}
    /\ guest' = [guest EXCEPT ![v] = NoGuest]
    /\ Save(v, [rec[v] EXCEPT !.state = IF @ = "live" THEN "stopped" ELSE @])
    /\ UNCHANGED <<netVars, netFile, present, opMu, call, svcVars>>

Delete(c, v) ==
    /\ call[c].pc = "idle" /\ svc = "serving"
    /\ present[v] /\ opMu[v] = Free /\ rec[v].state # "deleting"
    /\ Save(v, [rec[v] EXCEPT !.state = "deleting"])
    /\ opMu' = [opMu EXCEPT ![v] = c]
    /\ call' = [call EXCEPT ![c] = [Idle EXCEPT !.pc = "detach", !.op = "Delete", !.vm = v]]
    /\ UNCHANGED <<netVars, netFile, present, guest, svcVars>>

\* Mutant: Delete does not wait for the process.
ExitAwaitedNot(v) == TRUE

\* Delete waits for the process before teardown; a discard has none.
ExitAwaited(v) == guest[v] = NoGuest

\* Mutant: only a VM that the service still lists gives its lease back.
DetachedListed(v) ==
    LET n == rec[v].net IN
    IF nets[n] = NoGen \/ ~present[v] THEN leases
    ELSE [leases EXCEPT ![n][nets[n]][v] = NoAddr]

\* teardown: Networks.Get and Network.Detach.
Detached(v) ==
    LET n == rec[v].net IN
    IF nets[n] = NoGen THEN leases ELSE [leases EXCEPT ![n][nets[n]][v] = NoAddr]

Detach(c) ==
    LET v == call[c].vm IN
    /\ call[c].pc = "detach" /\ ExitAwaited(v) /\ mMu = Free
    /\ leases' = Detached(v)
    /\ Goto(c, "remove")
    /\ UNCHANGED <<nets, made, closed, mMu, imds, netFile, vmVars, svcVars>>

\* teardown: the directory, with vm.json.
RemoveDir(c) ==
    /\ call[c].pc = "remove"
    /\ vmFile' = [vmFile EXCEPT ![call[c].vm] = NoRecord]
    /\ Goto(c, "forget")
    /\ UNCHANGED <<netVars, netFile, present, rec, opMu, guest, svcVars>>

\* Delete and discard: the entry, then persistNetworks.
Forget(c) ==
    /\ call[c].pc = "forget"
    /\ present' = [present EXCEPT ![call[c].vm] = FALSE]
    /\ Goto(c, "list")
    /\ UNCHANGED <<netVars, netFile, rec, vmFile, opMu, guest, svcVars>>

-----------------------------------------------------------------------------
(* Restarts.                                                               *)

\* vm-manager ends, at any moment; a clean end is one with no call at work.
Restart ==
    /\ svc # "down" /\ restarts < MaxRestarts
    /\ restarts' = restarts + 1 /\ svc' = "down" /\ unloaded' = {}
    /\ nets' = [n \in Net |-> NoGen] /\ imds' = [n \in Net |-> NoGen] /\ mMu' = Free
    /\ present' = [v \in VM |-> FALSE] /\ rec' = [v \in VM |-> NoRecord]
    /\ opMu' = [v \in VM |-> Free]
    /\ guest' = IF Systemd THEN guest ELSE [v \in VM |-> NoGuest]
    /\ call' = [c \in Caller |-> Idle]
    /\ UNCHANGED <<made, leases, closed, netFile, vmFile>>

\* parseLeases: every address of the pool, and held once.
Restorable(l) ==
    /\ \A v \in VM : l[v] \in Addr \cup {NoAddr}
    /\ \A v, w \in VM : l[v] = l[w] /\ l[v] # NoAddr => v = w

\* Load: Restore and ServeIMDS; what it cannot restore ends vm-manager.
Load ==
    LET known == {n \in Net : netFile[n].known} IN
    /\ svc = "down"
    /\ \A n \in known : made[n] < MaxGen /\ Restorable(netFile[n].leases)
    /\ made' = [n \in Net |-> IF n \in known THEN made[n] + 1 ELSE made[n]]
    /\ nets' = [n \in Net |-> IF n \in known THEN made[n] + 1 ELSE NoGen]
    /\ imds' = nets'
    /\ leases' = [n \in Net |->
                    IF n \in known
                    THEN [leases[n] EXCEPT ![made[n] + 1] = netFile[n].leases]
                    ELSE leases[n]]
    /\ svc' = "loading" /\ unloaded' = {v \in VM : vmFile[v] # NoRecord}
    /\ UNCHANGED <<closed, mMu, netFile, vmVars, call, restarts>>

\* loadEntry, reattachOrStop: a live VM takes its lease again before the rest
\* of the reattachment succeeds or fails.
LoadVM(v) ==
    LET r == vmFile[v]
        g == nets[r.net]
        ip == IF g = NoGen THEN NoAddr ELSE Attached(r.net, g, v) IN
    /\ svc = "loading" /\ v \in unloaded
    /\ unloaded' = unloaded \ {v}
    /\ present' = [present EXCEPT ![v] = TRUE]
    /\ leases' = IF r.state = "live" /\ ip # NoAddr
                 THEN [leases EXCEPT ![r.net][g][v] = ip] ELSE leases
    /\ Save(v, [r EXCEPT !.state =
                  IF @ \in {"creating", "deleting"} THEN "failed"
                  ELSE IF @ = "live" /\ (ip = NoAddr \/ guest[v] = NoGuest) THEN "stopped"
                  ELSE @])
    /\ UNCHANGED <<nets, made, closed, mMu, imds, netFile, opMu, guest, call, svc, restarts>>

Serve ==
    /\ svc = "loading" /\ unloaded = {}
    /\ svc' = "serving"
    /\ UNCHANGED <<netVars, netFile, vmVars, call, unloaded, restarts>>

-----------------------------------------------------------------------------
NetworkStep(c) ==
    \/ \E n \in Net : CreateNetwork(c, n) \/ DeleteNetwork(c, n)
    \/ ServeIMDS(c) \/ GetNetwork(c) \/ ListenIMDS(c) \/ RegisterIMDS(c)
    \/ DeleteChecks(c) \/ CloseNetwork(c) \/ Unserve(c)
    \/ List(c) \/ Persist(c)
    \/ \E n \in Net, g \in Gen : State(c, n, g)

VMStep(c) ==
    \/ \E v \in VM : Start(c, v) \/ Delete(c, v) \/ \E n \in Net : Create(c, v, n)
    \/ Allocate(c) \/ Launch(c) \/ Provision(c) \/ RecordIP(c)
    \/ StartGets(c) \/ StartAttaches(c) \/ StartQEMU(c)
    \/ Detach(c) \/ RemoveDir(c) \/ Forget(c)

Next ==
    \/ \E c \in Caller : NetworkStep(c) \/ VMStep(c)
    \/ \E v \in VM : ProcessExits(v) \/ LoadVM(v)
    \/ Restart \/ Load \/ Serve

Spec == Init /\ [][Next]_vars

-----------------------------------------------------------------------------
(* Properties.                                                             *)

\* Attach never hands out an address twice, across generations, restores and
\* calls, and what is written to networks.json can be restored.
LeasesUnique ==
    /\ \A n \in Net, g \in Gen : Restorable(leases[n][g])
    /\ \A n \in Net : Restorable(netFile[n].leases)

\* No network was deleted with a lease in it.  Manager.Delete looks at the
\* leases and closes the network under two holds of its mutex, and an Attach
\* between the two makes this false.
DeletedEmpty == \A n \in Net, g \in Gen : closed[n][g] => Held(n, g) = {}

\* Unless that window was hit, the network of a running VM is up and the
\* address of the VM is the lease it holds there until vm-manager ends, however
\* creations and deletions of networks and VMs of one name overlap.  (A VM that Delete
\* removed under its Create is not the service's any more.)
GuestHasLease ==
    \A v \in VM :
        restarts = 0 /\ DeletedEmpty /\ present[v] /\ guest[v] # NoGuest =>
            LET n == guest[v].net IN
            nets[n] # NoGen /\ leases[n][nets[n]][v] = guest[v].ip

\* Until vm-manager ends, a VM that is gone leaves no lease behind: Delete and
\* discard detach before they forget.  (A Create that Delete overtook keeps
\* its directory.)
LeaseHasOwner ==
    \A n \in Net, v \in VM :
        restarts = 0 /\ nets[n] # NoGen /\ leases[n][nets[n]][v] # NoAddr =>
            \/ present[v] \/ guest[v] # NoGuest \/ vmFile[v] # NoRecord
            \/ \E c \in Caller : call[c].vm = v
=============================================================================
