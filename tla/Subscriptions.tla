--------------------------- MODULE Subscriptions ----------------------------
(***************************************************************************)
(* vsock context ids and the notify subscriptions keyed by them: a VM is   *)
(* given a free CID, moves to another one when QEMU finds it taken on the  *)
(* host, subscribes to the notifications of the CID its installed system   *)
(* boots with, and subscribes again when a new vm-manager reattaches it.   *)
(***************************************************************************)
EXTENDS Naturals, FiniteSets, FiniteSetsExt

CONSTANTS
    Guest,              \* VMs
    MinCID, MaxCID,     \* the range of CIDs
    CIDBase,            \* where this service starts to look
    maxCIDRetries,
    MaxStarts           \* bound: subscriptions made in a behaviour

ASSUME CIDAssumption ==
    MinCID \in Nat \ {0} /\ MaxCID \in Nat /\ MinCID < MaxCID /\ CIDBase \in Nat /\ MaxStarts \in Nat

CID == MinCID..MaxCID
NoCID == 0
NoChan == 0

VARIABLES
    step,       \* where each VM is
    phase,      \* the boot its next or present QEMU is for, or a failed install
    cid,        \* record.CID
    booted,     \* the CID startProcess works with, and the tries it has made
    subs,       \* NotifyListener.subs: the channel registered for a CID
    closed,     \* channels that have been closed
    reads,      \* process.notify: the channel the supervisor reads
    channels,   \* channels made so far
    foreign,    \* CIDs other vm-managers on the host hold
    shared      \* history: VMs that subscribed to a CID another VM had yet to leave

subscriptionVars == <<step, phase, cid, booted, subs, closed, reads, channels, foreign, shared>>

NotBooted == [cid |-> NoCID, tries |-> 0]

SubscriptionsInit ==
    /\ step = [v \in Guest |-> "none"] /\ cid = [v \in Guest |-> NoCID]
    /\ booted = [v \in Guest |-> NotBooted] /\ phase = [v \in Guest |-> "install"]
    /\ subs = [c \in CID |-> NoChan] /\ closed = {} /\ reads = [v \in Guest |-> NoChan]
    /\ channels = 0 /\ foreign = {} /\ shared = {}

\* Mutant: the search starts over at the lowest CID without looking.
freeCIDFromUnchecked(start) == IF start < MaxCID THEN start ELSE MinCID

\* freeCIDFrom: the first CID at or after start that no VM of this service
\* holds, wrapping around below MaxCID; MaxCID when there is none.
freeCIDFrom(start) ==
    LET span == MaxCID - MinCID
        from == IF start \in MinCID..(MaxCID - 1) THEN start ELSE MinCID
        nth(i) == MinCID + (((from - MinCID) + i) % span)
        free == {i \in 0..(span - 1) : \A v \in Guest : cid[v] # nth(i)}
    IN IF free = {} THEN MaxCID ELSE nth(Min(free))

StepTo(v, label) == step' = [step EXCEPT ![v] = label]

\* A VM that did not get installed is not started again.
NotInstalled(v) == IF phase[v] = "install" THEN "failed" ELSE phase[v]

\* Load reattaches the VMs before the API is served.
CIDsLoaded == \A v \in Guest : step[v] # "detached"

\* allocate.
AllocateCID(v) ==
    /\ step[v] = "none" /\ CIDsLoaded
    /\ phase' = [phase EXCEPT ![v] = "install"]
    /\ cid' = [cid EXCEPT ![v] = freeCIDFrom(CIDBase)]
    /\ StepTo(v, "stopped")
    /\ UNCHANGED <<booted, subs, closed, reads, channels, foreign, shared>>

\* Delete of a stopped VM gives its CID back.
DropVM(v) ==
    /\ step[v] = "stopped" /\ CIDsLoaded
    /\ cid' = [cid EXCEPT ![v] = NoCID]
    /\ StepTo(v, "none")
    /\ UNCHANGED <<phase, booted, subs, closed, reads, channels, foreign, shared>>

\* Subscribe, for an installed boot: the channel of the CID, made unless there
\* is one.
Subscribe(v, c) ==
    IF phase[v] = "install" THEN UNCHANGED <<subs, reads, channels, shared>>
    ELSE
    /\ channels < MaxStarts
    /\ shared' = IF \E o \in Guest \ {v} : step[o] = "moving" /\ booted[o].cid = c
                 THEN shared \cup {v} ELSE shared \ {v}
    /\ IF subs[c] # NoChan
       THEN /\ reads' = [reads EXCEPT ![v] = subs[c]]
            /\ UNCHANGED <<subs, channels>>
       ELSE /\ channels' = channels + 1
            /\ subs' = [subs EXCEPT ![c] = channels']
            /\ reads' = [reads EXCEPT ![v] = channels']

\* Unsubscribe, for an installed boot, closes the channel of the CID.
Unsubscribe(v, c) ==
    IF phase[v] = "install" THEN UNCHANGED <<subs, closed>>
    ELSE
    /\ closed' = IF subs[c] # NoChan THEN closed \cup {subs[c]} ELSE closed
    /\ subs' = [subs EXCEPT ![c] = NoChan]

-----------------------------------------------------------------------------
(* startProcess.                                                           *)

Boot(v) ==
    /\ step[v] = "stopped" /\ phase[v] # "failed" /\ CIDsLoaded
    /\ Subscribe(v, cid[v])
    /\ booted' = [booted EXCEPT ![v] = [cid |-> cid[v], tries |-> 0]]
    /\ StepTo(v, "starting")
    /\ UNCHANGED <<phase, cid, closed, foreign>>

\* Another VM on the host has the CID.
CIDInUse(v) ==
    booted[v].cid \in foreign \/ \E o \in Guest \ {v} : step[o] \in {"up", "detached"} /\ booted[o].cid = booted[v].cid

\* Runtime.Start and reassignCID: QEMU is up; or its CID is in use and the
\* record moves to the next free one; or the start fails for good, for another
\* reason, after the last retry or because the moved record is not saved.
RunQEMU(v) ==
    LET b == booted[v] IN
    /\ step[v] = "starting"
    /\ \/ /\ ~CIDInUse(v)
          /\ StepTo(v, "up")
          /\ UNCHANGED <<phase, cid, booted, subs, closed, reads>>
       \/ /\ CIDInUse(v) /\ b.tries < maxCIDRetries
          /\ cid' = [cid EXCEPT ![v] = freeCIDFrom(b.cid + 1)]
          /\ StepTo(v, "moving")
          /\ UNCHANGED <<phase, booted, subs, closed, reads>>
       \/ /\ IF CIDInUse(v) /\ b.tries < maxCIDRetries
             THEN cid' = [cid EXCEPT ![v] = freeCIDFrom(b.cid + 1)]
             ELSE UNCHANGED cid
          /\ Unsubscribe(v, b.cid)
          /\ reads' = [reads EXCEPT ![v] = NoChan]
          /\ booted' = [booted EXCEPT ![v] = NotBooted]
          /\ phase' = [phase EXCEPT ![v] = NotInstalled(v)]
          /\ StepTo(v, "stopped")
    /\ UNCHANGED <<channels, foreign, shared>>

\* The subscription of the CID it leaves is dropped.
LeaveCID(v) ==
    /\ step[v] = "moving"
    /\ Unsubscribe(v, booted[v].cid)
    /\ StepTo(v, "moved")
    /\ UNCHANGED <<phase, cid, booted, reads, channels, foreign, shared>>

\* Mutant: the retry subscribes to the CID it started with.
RetryCIDOld(v) == booted[v].cid

\* The CID the retry boots with.
RetryCID(v) == cid[v]

JoinCID(v) ==
    /\ step[v] = "moved"
    /\ Subscribe(v, RetryCID(v))
    /\ booted' = [booted EXCEPT ![v] = [cid |-> cid[v], tries |-> @.tries + 1]]
    /\ StepTo(v, "starting")
    /\ UNCHANGED <<phase, cid, closed, foreign>>

-----------------------------------------------------------------------------
(* The supervisor.                                                         *)

QEMUExited(v) ==
    /\ step[v] = "up"
    /\ StepTo(v, "exited")
    /\ UNCHANGED <<phase, cid, booted, subs, closed, reads, channels, foreign, shared>>

\* onExit unsubscribes the CID of the record.  An installer may have done its
\* work.
UnsubscribeOnExit(v) ==
    /\ step[v] = "exited"
    /\ Unsubscribe(v, cid[v])
    /\ reads' = [reads EXCEPT ![v] = NoChan]
    /\ booted' = [booted EXCEPT ![v] = NotBooted]
    /\ \E q \in {NotInstalled(v), "boot"} : phase' = [phase EXCEPT ![v] = q]
    /\ StepTo(v, "stopped")
    /\ UNCHANGED <<cid, channels, foreign, shared>>

\* vm-manager ends: the QEMUs that are up stay, with their records.
ManagerEnds ==
    /\ CIDsLoaded
    /\ step' = [v \in Guest |->
                   IF step[v] = "none" THEN "none"
                   ELSE IF step[v] \in {"up", "exited"} THEN "detached" ELSE "stopped"]
    /\ booted' = [v \in Guest |-> IF step'[v] = "detached" THEN booted[v] ELSE NotBooted]
    /\ subs' = [c \in CID |-> NoChan] /\ closed' = 1..channels
    /\ reads' = [v \in Guest |-> NoChan] /\ shared' = {}
    /\ phase' = [v \in Guest |-> IF step'[v] = "stopped" THEN NotInstalled(v) ELSE phase[v]]
    /\ UNCHANGED <<cid, channels, foreign>>

\* reattach: the QEMU is supervised again, with a subscription to the CID of
\* the record; or it is gone.
ReattachCID(v) ==
    /\ step[v] = "detached"
    /\ \/ /\ Subscribe(v, cid[v])
          /\ StepTo(v, "up") /\ UNCHANGED <<phase, booted>>
       \/ /\ StepTo(v, "stopped")
          /\ booted' = [booted EXCEPT ![v] = NotBooted]
          /\ phase' = [phase EXCEPT ![v] = NotInstalled(v)]
          /\ UNCHANGED <<subs, reads, channels, shared>>
    /\ UNCHANGED <<cid, closed, foreign>>

\* A VM of another vm-manager on the host takes a CID, or ends.
ForeignCID(c) ==
    /\ \/ /\ \A v \in Guest : step[v] \in {"up", "detached"} => booted[v].cid # c
          /\ foreign' = foreign \cup {c}
       \/ foreign' = foreign \ {c}
    /\ UNCHANGED <<step, phase, cid, booted, subs, closed, reads, channels, shared>>

-----------------------------------------------------------------------------
SubscriptionsNext ==
    \/ ManagerEnds
    \/ \E c \in CID : ForeignCID(c)
    \/ \E v \in Guest :
        \/ AllocateCID(v) \/ DropVM(v) \/ Boot(v) \/ RunQEMU(v) \/ LeaveCID(v) \/ JoinCID(v)
        \/ QEMUExited(v) \/ UnsubscribeOnExit(v) \/ ReattachCID(v)

SubscriptionsSpec == SubscriptionsInit /\ [][SubscriptionsNext]_subscriptionVars

-----------------------------------------------------------------------------
(* Properties.                                                             *)

\* No two VMs of the service have the same CID while one is left, through
\* moves, deletions and the wrap-around of the search.
CIDsUnique ==
    \A v, o \in Guest : v # o /\ cid[v] # NoCID /\ cid[v] # MaxCID => cid[v] # cid[o]

\* A booted VM is heard: its supervisor reads the open channel that is
\* registered for the CID its QEMU has, which is the CID of its record.  The
\* exception is a VM that subscribed to a CID after reassignCID gave it up and
\* before the VM that held it unsubscribed, which closes the channel.
SubscriptionHeld ==
    \A v \in Guest :
        step[v] = "up" =>
            /\ booted[v].cid = cid[v]
            /\ phase[v] = "boot" /\ v \notin shared => subs[cid[v]] = reads[v] /\ reads[v] \notin closed \cup {NoChan}
=============================================================================
