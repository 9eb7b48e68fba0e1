------------------------------- MODULE Serve --------------------------------
(***************************************************************************)
(* vm-manager serve: start-up and shutdown of the command over one state   *)
(* directory, with a second vm-manager started before the first has ended. *)
(* What the processes share is on the host: the vsock port recorded in the *)
(* state directory, the ports bound, the flock, and the socket path of the *)
(* default network, to which the QEMUs that outlive vm-manager reconnect.  *)
(***************************************************************************)
EXTENDS Naturals

CONSTANTS
    Manager,      \* vm-manager processes
    Port,         \* vsock ports of the host
    MaxServes     \* bound: starts of vm-manager

ASSUME ServeAssumption ==
    Port \subseteq Nat \ {0} /\ MaxServes \in Nat

NoManager == "none"
NoPort == 0

ASSUME ManagerAssumption == NoManager \notin Manager

VARIABLES
    hostEnv,     \* AF_VSOCK available, --notify-port, a port recorded by an earlier run
    serveAt,     \* where runServe is, per process
    want,        \* the port it asks the kernel for
    listens,     \* components.notify: the port of its listener
    portFile,    \* the notify-port file
    portTmp,     \* its temporary file
    bound,       \* who listens on a vsock port
    dirLock,     \* who holds the flock of the state directory
    netSock,     \* who listens at the network's socket path
    netUp,       \* who has the network up
    credential,  \* the port in the credential of the VM that runs, if one does
    serves,
    overlap      \* history: two processes have been up at a time

serveVars == <<hostEnv, serveAt, want, listens, portFile, portTmp, bound, dirLock, netSock, netUp,
               credential, serves, overlap>>

NoCredential == {}

ServeInit ==
    /\ serveAt = [m \in Manager |-> "off"] /\ want = [m \in Manager |-> NoPort]
    /\ listens = [m \in Manager |-> NoPort]
    /\ portFile \in Port \cup {NoPort} /\ portTmp = NoPort
    /\ hostEnv \in [vsock : BOOLEAN, flag : IF portFile = NoPort THEN Port \cup {NoPort} ELSE {NoPort, portFile},
               recorded : {portFile # NoPort}]
    /\ bound = [p \in Port |-> NoManager] /\ dirLock = NoManager /\ netSock = NoManager
    /\ netUp = [m \in Manager |-> FALSE]
    /\ credential \in {NoCredential, {portFile}}
    /\ serves = 0 /\ overlap = FALSE

ServeGoto(m, label) == serveAt' = [serveAt EXCEPT ![m] = label]

Unbind(m) ==
    /\ bound' = [p \in Port |-> IF bound[p] = m THEN NoManager ELSE bound[p]]
    /\ listens' = [listens EXCEPT ![m] = NoPort]

-----------------------------------------------------------------------------
(* newComponents.                                                          *)

\* The process starts; its options are valid.  Storage is chosen and the
\* network manager is made, neither of which touches what is shared.
StartServe(m) ==
    /\ serveAt[m] = "off" /\ serves < MaxServes
    /\ serves' = serves + 1
    /\ overlap' = (overlap \/ \E o \in Manager : serveAt[o] # "off")
    /\ ServeGoto(m, "read")
    /\ UNCHANGED <<hostEnv, want, listens, portFile, portTmp, bound, dirLock, netSock, netUp, credential>>

\* Mutant: the kernel picks a port for every run.
PortToBindAny == NoPort

\* --notify-port, or readNotifyPort.
PortToBind == IF hostEnv.flag # NoPort THEN hostEnv.flag ELSE portFile

ReadNotifyPort(m) ==
    /\ serveAt[m] = "read"
    /\ want' = [want EXCEPT ![m] = PortToBind]
    /\ ServeGoto(m, "listen")
    /\ UNCHANGED <<hostEnv, listens, portFile, portTmp, bound, dirLock, netSock, netUp, credential, serves, overlap>>

\* ListenNotify: the port asked for, or one the kernel picks.  A recorded port
\* that is taken ends the start; without a listener for any other reason
\* vm-manager serves all the same.
ListenNotify(m) ==
    LET Free(p) == hostEnv.vsock /\ bound[p] = NoManager /\ want[m] \in {NoPort, p} IN
    /\ serveAt[m] = "listen"
    /\ \/ \E p \in Port :
             /\ Free(p)
             /\ bound' = [bound EXCEPT ![p] = m]
             /\ listens' = [listens EXCEPT ![m] = p]
             /\ ServeGoto(m, "write")
       \/ /\ \A p \in Port : ~Free(p)
          /\ IF hostEnv.vsock /\ hostEnv.flag = NoPort /\ want[m] # NoPort
             THEN ServeGoto(m, "closevm") ELSE ServeGoto(m, "images")
          /\ UNCHANGED <<bound, listens>>
    /\ UNCHANGED <<hostEnv, want, portFile, portTmp, dirLock, netSock, netUp, credential, serves, overlap>>

\* writeNotifyPort: the temporary file, whose name the processes share.  The
\* write itself does not fail.
WriteNotifyPort(m) ==
    /\ serveAt[m] = "write"
    /\ portTmp' = listens[m]
    /\ ServeGoto(m, "rename")
    /\ UNCHANGED <<hostEnv, want, listens, portFile, bound, dirLock, netSock, netUp, credential, serves, overlap>>

\* writeNotifyPort: the rename; when it fails the listener is closed and the
\* start goes on without one.
RenameNotifyPort(m) ==
    /\ serveAt[m] = "rename"
    /\ ServeGoto(m, "images")
    /\ portTmp' = NoPort
    /\ IF portTmp # NoPort
       THEN portFile' = portTmp /\ UNCHANGED <<bound, listens>>
       ELSE Unbind(m) /\ UNCHANGED portFile
    /\ UNCHANGED <<hostEnv, want, dirLock, netSock, netUp, credential, serves, overlap>>

\* images.Load, the attestor and the launcher: each may end the start.
LoadImages(m) ==
    /\ serveAt[m] = "images"
    /\ ServeGoto(m, "lock") \/ ServeGoto(m, "closevm")
    /\ UNCHANGED <<hostEnv, want, listens, portFile, portTmp, bound, dirLock, netSock, netUp, credential, serves, overlap>>

\* flock(LOCK_EX | LOCK_NB).
StateDirFree == dirLock = NoManager

\* vm.New: lockStateDir.
LockStateDir(m) ==
    /\ serveAt[m] = "lock"
    /\ IF StateDirFree THEN dirLock' = m /\ ServeGoto(m, "load") ELSE UNCHANGED dirLock /\ ServeGoto(m, "closevm")
    /\ UNCHANGED <<hostEnv, want, listens, portFile, portTmp, bound, netSock, netUp, credential, serves, overlap>>

\* Service.Load and ensureDefaultNetwork: the network's socket is removed from
\* its path and bound anew, the running VM is reattached; a failure after the
\* socket is bound leads through close.
LoadService(m) ==
    /\ serveAt[m] = "load"
    /\ \/ /\ netSock' = m /\ netUp' = [netUp EXCEPT ![m] = TRUE]
          /\ ServeGoto(m, "serving") \/ ServeGoto(m, "closevm")
       \/ UNCHANGED <<netSock, netUp>> /\ ServeGoto(m, "closevm")
    /\ UNCHANGED <<hostEnv, want, listens, portFile, portTmp, bound, dirLock, credential, serves, overlap>>

-----------------------------------------------------------------------------
(* Serving.                                                                *)

\* A VM is booted with the credential of the listener, if there is one.
BootVM(m) ==
    /\ serveAt[m] = "serving" /\ credential = NoCredential
    /\ credential' = {listens[m]}
    /\ UNCHANGED <<hostEnv, serveAt, want, listens, portFile, portTmp, bound, dirLock, netSock, netUp, serves, overlap>>

\* The VM ends.
VMEnds ==
    /\ credential # NoCredential
    /\ credential' = NoCredential
    /\ UNCHANGED <<hostEnv, serveAt, want, listens, portFile, portTmp, bound, dirLock, netSock, netUp, serves, overlap>>

\* Server.Run returns: a signal, or the HTTP server fails.
RunReturns(m) ==
    /\ serveAt[m] = "serving"
    /\ ServeGoto(m, "closevm")
    /\ UNCHANGED <<hostEnv, want, listens, portFile, portTmp, bound, dirLock, netSock, netUp, credential, serves, overlap>>

-----------------------------------------------------------------------------
(* components.close, after a failed start too: the VM service, whose last  *)
(* step gives the lock back, then the networks, then the notify listener.  *)

\* Mutant: the notify listener is closed before the networks.
CloseOrderNotifyFirst ==
    [closevm |-> "closenotify", closenotify |-> "closenet", closenet |-> "off"]

\* What follows each part of components.close.
CloseOrder == [closevm |-> "closenet", closenet |-> "closenotify", closenotify |-> "off"]

\* Service.Close, detaching the VMs.
CloseVM(m) ==
    /\ serveAt[m] = "closevm"
    /\ dirLock' = IF dirLock = m THEN NoManager ELSE dirLock
    /\ ServeGoto(m, CloseOrder.closevm)
    /\ UNCHANGED <<hostEnv, want, listens, portFile, portTmp, bound, netSock, netUp, credential, serves, overlap>>

\* Network.Close: the listener goes, and whatever is at the socket path.
CloseNetworks(m) ==
    /\ serveAt[m] = "closenet"
    /\ netSock' = IF netUp[m] THEN NoManager ELSE netSock
    /\ netUp' = [netUp EXCEPT ![m] = FALSE]
    /\ ServeGoto(m, CloseOrder.closenet)
    /\ UNCHANGED <<hostEnv, want, listens, portFile, portTmp, bound, dirLock, credential, serves, overlap>>

\* NotifyListener.Close.
CloseNotify(m) ==
    /\ serveAt[m] = "closenotify"
    /\ Unbind(m)
    /\ ServeGoto(m, CloseOrder.closenotify)
    /\ UNCHANGED <<hostEnv, want, portFile, portTmp, dirLock, netSock, netUp, credential, serves, overlap>>

\* The process dies: the kernel closes what it held, the socket file stays
\* behind with nobody listening.
CrashServe(m) ==
    /\ serveAt[m] # "off"
    /\ ServeGoto(m, "off")
    /\ Unbind(m)
    /\ dirLock' = IF dirLock = m THEN NoManager ELSE dirLock
    /\ netSock' = IF netSock = m THEN NoManager ELSE netSock
    /\ netUp' = [netUp EXCEPT ![m] = FALSE]
    /\ UNCHANGED <<hostEnv, want, portFile, portTmp, credential, serves, overlap>>

-----------------------------------------------------------------------------
ServeNext ==
    \/ VMEnds
    \/ \E m \in Manager :
         \/ StartServe(m) \/ ReadNotifyPort(m) \/ ListenNotify(m)
         \/ WriteNotifyPort(m) \/ RenameNotifyPort(m)
         \/ LoadImages(m) \/ LockStateDir(m) \/ LoadService(m)
         \/ BootVM(m) \/ RunReturns(m)
         \/ CloseVM(m) \/ CloseNetworks(m) \/ CloseNotify(m) \/ CrashServe(m)

ServeSpec == ServeInit /\ [][ServeNext]_serveVars

-----------------------------------------------------------------------------
(* Properties.                                                             *)

\* The port in the credential of a VM that outlived its vm-manager is the one
\* the vm-manager that reattached it listens on, through crashes at any step
\* and starts that fail: its READY=1 arrives (ListenNotifyPersistent).  Two
\* processes may only overlap once the port is recorded.
GuestsHeard ==
    \A m \in Manager :
        serveAt[m] = "serving" /\ listens[m] # NoPort /\ (overlap => hostEnv.recorded) =>
            credential \subseteq {listens[m], NoPort}

\* The QEMUs that outlive vm-manager can reconnect their network: whoever
\* serves the state directory listens at the socket path.  Between processes
\* that overlap it is the recorded notify port, given back last, that sees to
\* it; the lock of the state directory is given back too early.
NetworkServed ==
    \A m \in Manager :
        /\ serveAt[m] = "serving"
        /\ overlap => hostEnv.vsock /\ hostEnv.recorded /\ hostEnv.flag = NoPort
        => netSock = m
=============================================================================
