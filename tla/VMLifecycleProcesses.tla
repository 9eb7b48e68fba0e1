------------------------ MODULE VMLifecycleProcesses ------------------------
(***************************************************************************)
(* Types, locks and processes of VMLifecycle, for every value of its       *)
(* constants.  opMu works: the threads inside it exclude each other, every *)
(* thread stays in its own code, and nothing moves before Load has come to *)
(* a VM.  Every action is an instance of ThreadMove: one thread goes from  *)
(* one label to another and takes a free lock or gives up its own.         *)
(*                                                                         *)
(* So there is one QEMU per VM.  A start holds opMu over an entry without a *)
(* process, and a process has one supervisor, which alone clears it; the   *)
(* run a start launches is the only one of its VM.                         *)
(***************************************************************************)
EXTENDS VMLifecycleInv, TLAPS

-----------------------------------------------------------------------------
(* Types.                                                                  *)


\* A call that is under way has looked its entry up.
Targets == \A c \in Call : pc[c] # "idle" => tgt[c] \in VM

ThreadInv == ThreadType /\ Targets
TypeInv == SvcType /\ EntryType /\ RunType /\ ThreadInv

\* API calls, supervisors and visits are threads.
LEMMA CallThread == \A x : x \in VM \cup Run \cup Call <=> x \in Thread
  BY Zenon DEF Thread

RecordType == rec \in [VM -> Record] /\ disk \in [VM -> Record]

\* Setting the state of a record leaves its other fields alone.
LEMMA SetState ==
  ASSUME NEW x \in Record, NEW s \in State
  PROVE LET y == [x EXCEPT !.state = s] IN
        /\ y \in Record
        /\ y.state = s /\ y.phase = x.phase
        /\ y.handles = x.handles /\ y.installed = x.installed
  BY Zenon DEF Record

\* Save keeps both copies of the records well-typed.
LEMMA SaveType ==
  ASSUME EntryType, NEW v, NEW x, v \in VM => x \in Record, Save(v, x)
  PROVE RecordType'
  BY Zenon DEF Save, EntryType, RecordType

\* So does saving a record with another state.
LEMMA SaveStateType ==
  ASSUME EntryType, NEW v, NEW s \in State, Save(v, [rec[v] EXCEPT !.state = s])
  PROVE RecordType'
<1>1. v \in VM => [rec[v] EXCEPT !.state = s] \in Record
  BY Zenon, SetState DEF EntryType
<1> QED BY Zenon, <1>1, SaveType

\* Saving a record as it is keeps the types of the entries.
LEMMA SaveSameType ==
  ASSUME EntryType, NEW v, Save(v, rec[v]) PROVE RecordType'
  BY Zenon, SaveType DEF EntryType

\* The four ways a thread moves keep its bookkeeping well-typed.
LEMMA GotoType ==
  ASSUME ThreadInv, NEW t \in Thread, NEW l \in PC, Goto(t, l), pc[t] # "idle" PROVE ThreadInv'
  BY Zenon, CallThread DEF ThreadInv, ThreadType, Targets, Goto

\* A thread that returns to idle keeps the types of the threads.
LEMMA ReturnType == ASSUME ThreadInv, NEW t \in Thread, Return(t) PROVE ThreadInv'
  BY Zenon, CallThread DEF ThreadInv, ThreadType, Targets, Return, PC, Operation

\* A thread that goes on with a run in hand keeps the types of the threads.
LEMMA HoldType ==
  ASSUME ThreadInv, NEW t \in Thread, NEW l \in PC, NEW r \in Run \cup {NoRun}, Hold(t, l, r), pc[t] # "idle"
  PROVE ThreadInv'
  BY Zenon, CallThread DEF ThreadInv, ThreadType, Targets, Hold

\* A call that enters with an operation and a target keeps the types of the
\* threads.
LEMMA EnterType ==
  ASSUME ThreadInv, NEW t \in Thread, NEW o \in Operation, NEW v \in VM, NEW l \in PC, Enter(t, o, v, l)
  PROVE ThreadInv'
  BY Zenon, CallThread DEF ThreadInv, ThreadType, Targets, Enter

\* A thread that is under way works on a VM.
LEMMA ActiveVM ==
  ASSUME ThreadInv, NEW t \in Thread, pc[t] # "idle" PROVE VMOf(t) \in VM
  BY Zenon DEF ThreadInv, Targets, VMOf, Thread, Run

\* allocate: a new record in state creating and a caller that goes on to
\* launch: keeps the types.
LEMMA AllocateType == ASSUME TypeInv, NEW c \in Call, NEW v \in VM, Allocate(c, v) PROVE TypeInv'
<1>1. SvcType'
  BY Zenon DEF Allocate, SvcType, TypeInv, svcVars
<1>2. EntryType'
  <2>1. NoRecord \in Record
    BY Zenon DEF NoRecord, Record, State
  <2>2. [NoRecord EXCEPT !.state = "creating"] \in Record
    BY <2>1, SetState, Zenon DEF State
  <2>3. RecordType'
    BY Zenon, <2>2, SaveType DEF Allocate, TypeInv
  <2> QED BY <2>3, Zenon DEF Allocate, TypeInv, EntryType, RecordType
<1>3. RunType'
  BY Zenon DEF Allocate, RunType, TypeInv, runVars
<1>4. ThreadInv'
  BY Zenon, EnterType, CallThread DEF Allocate, TypeInv, PC, Operation
<1> QED BY Zenon, <1>1, <1>2, <1>3, <1>4 DEF TypeInv

\* launch: the caller waits for opMu and goes on to provision: keeps the
\* types.
LEMMA LaunchType == ASSUME TypeInv, NEW c \in Call, Launch(c) PROVE TypeInv'
<1>1. SvcType'
  BY Zenon DEF Launch, SvcType, TypeInv, svcVars
<1>2. EntryType'
  BY Zenon DEF Launch, TypeInv, EntryType, Thread
<1>3. RunType'
  BY Zenon DEF Launch, RunType, TypeInv, runVars
<1>4. ThreadInv'
  BY Zenon, GotoType, CallThread DEF Launch, TypeInv, PC
<1> QED BY Zenon, <1>1, <1>2, <1>3, <1>4 DEF TypeInv

\* provision: the caller goes on to the start, or to the discard of a failed
\* Create: keeps the types.
LEMMA ProvisionType == ASSUME TypeInv, NEW c \in Call, Provision(c) PROVE TypeInv'
<1>1. SvcType'
  BY Zenon DEF Provision, SvcType, TypeInv, svcVars
<1>2. EntryType'
  <2>1. RecordType'
    BY Zenon, SaveSameType DEF Provision, TypeInv, EntryType, RecordType
  <2> QED BY Zenon, <2>1 DEF Provision, TypeInv, EntryType, RecordType
<1>3. RunType'
  BY Zenon DEF Provision, RunType, TypeInv, runVars
<1>4. ThreadInv'
  BY Zenon, GotoType, CallThread DEF Provision, TypeInv, PC
<1> QED BY Zenon, <1>1, <1>2, <1>3, <1>4 DEF TypeInv

\* startProcess: QEMU runs and the thread goes on to the commit: keeps the
\* types.
LEMMA StartQEMUType == ASSUME TypeInv, NEW t \in Thread, NEW r \in Run, StartQEMU(t, r) PROVE TypeInv'
<1>1. SvcType'
  BY Zenon DEF StartQEMU, SvcType, TypeInv, svcVars
<1>2. EntryType'
  BY Zenon DEF StartQEMU, EntryType, TypeInv, entryVars
<1>3. RunType'
  BY Zenon DEF StartQEMU, TypeInv, RunType, PhaseOf
<1>4. ThreadInv'
  BY Zenon, HoldType, CallThread DEF StartQEMU, TypeInv, PC
<1> QED BY Zenon, <1>1, <1>2, <1>3, <1>4 DEF TypeInv

\* A failed startProcess: the discard of a Create, fail() for a boot: keeps
\* the types.
LEMMA StartFailsType == ASSUME TypeInv, NEW t \in Thread, StartFails(t) PROVE TypeInv'
<1>1. SvcType'
  BY Zenon DEF StartFails, SvcType, TypeInv, svcVars
<1>2. EntryType'
  <2>1. RecordType'
    BY SaveStateType, Zenon DEF StartFails, TypeInv, EntryType, RecordType, State
  <2> QED BY Zenon, <2>1 DEF StartFails, TypeInv, EntryType, RecordType
<1>3. RunType'
  BY Zenon DEF StartFails, RunType, TypeInv, runVars
<1>4. ThreadInv'
  BY Zenon, GotoType, ReturnType, CallThread DEF StartFails, TypeInv, PC
<1> QED BY Zenon, <1>1, <1>2, <1>3, <1>4 DEF TypeInv

\* The commit under s.mu: the run becomes the process of the entry and gets
\* its supervisor: keeps the types.
LEMMA CommitType == ASSUME TypeInv, NEW t \in Thread, Commit(t) PROVE TypeInv'
<1>1. SvcType'
  BY Zenon DEF Commit, SvcType, TypeInv, svcVars
<1>2. EntryType'
  <2> DEFINE x == [rec[VMOf(t)] EXCEPT
                     !.state = IF PhaseOf(t) = "install" THEN "installing" ELSE "booting",
                     !.phase = PhaseOf(t), !.handles = TRUE]
  <2>a. VMOf(t) \in VM => rec[VMOf(t)] \in Record
    BY Zenon DEF TypeInv, EntryType
  <2>b. PhaseOf(t) \in {"install", "boot"}
    BY Zenon DEF PhaseOf
  <2>1. VMOf(t) \in VM => x \in Record
    BY <2>a, <2>b, Zenon DEF Record, State
  <2>2. Save(VMOf(t), x)
    BY Zenon DEF Commit
  <2>3. RecordType'
    BY Zenon, <2>1, <2>2, SaveType DEF TypeInv
  <2>4. arg[t] \in Run \cup {NoRun}
    BY Zenon DEF TypeInv, ThreadInv, ThreadType
  <2>5. proc' \in [VM -> Run \cup {NoRun}]
    BY <2>4, Zenon DEF Commit, TypeInv, EntryType
  <2>6. present' \in [VM -> BOOLEAN] /\ opMu' \in [VM -> Thread \cup {Free}]
    BY Zenon DEF Commit, TypeInv, EntryType
  <2> QED BY Zenon, <2>3, <2>5, <2>6 DEF EntryType, RecordType
<1>3. RunType'
  BY Zenon DEF Commit, TypeInv, RunType
<1>4. ThreadInv'
  <2>1. pc' \in [Thread -> PC] /\ op' \in [Thread -> Operation]
    BY Zenon DEF Commit, TypeInv, ThreadInv, ThreadType, PC, Operation
  <2>2. tgt' \in [Thread -> VM \cup {Free}] /\ arg' \in [Thread -> Run \cup {NoRun}]
    BY Zenon DEF Commit, TypeInv, ThreadInv, ThreadType
  <2>3. Targets'
    BY Zenon, IdentityAssumption, CallThread DEF Commit, TypeInv, ThreadInv, ThreadType, Targets
  <2> QED BY Zenon, <2>1, <2>2, <2>3 DEF ThreadInv, ThreadType
<1> QED BY Zenon, <1>1, <1>2, <1>3, <1>4 DEF TypeInv

\* The lookup of the entry at the head of Start, Stop, Reboot and Delete:
\* keeps the types.
LEMMA BeginType == ASSUME TypeInv, NEW c \in Call, NEW v \in VM, NEW o \in Ops, Begin(c, v, o) PROVE TypeInv'
<1>1. SvcType'
  BY Zenon DEF Begin, SvcType, TypeInv, svcVars
<1>2. EntryType'
  BY Zenon DEF Begin, EntryType, TypeInv, entryVars
<1>3. RunType'
  BY Zenon DEF Begin, RunType, TypeInv, runVars
<1>4. ThreadInv'
  <2>1. o \in Operation /\ (IF o = "Reboot" THEN "Stop" ELSE o) \in PC
    BY Zenon DEF Begin, Operation, PC
  <2> QED BY Zenon, <2>1, EnterType, CallThread DEF Begin, TypeInv
<1> QED BY Zenon, <1>1, <1>2, <1>3, <1>4 DEF TypeInv

\* Start: refused, or opMu taken and on to startProcess: keeps the types.
LEMMA StartType == ASSUME TypeInv, NEW c \in Call, Start(c) PROVE TypeInv'
<1>1. SvcType'
  BY Zenon DEF Start, SvcType, TypeInv, svcVars
<1>2. EntryType'
  BY Zenon DEF Start, TypeInv, EntryType, Thread
<1>3. RunType'
  BY Zenon DEF Start, RunType, TypeInv, runVars
<1>4. ThreadInv'
  BY Zenon, GotoType, ReturnType, CallThread DEF Start, TypeInv, PC
<1> QED BY Zenon, <1>1, <1>2, <1>3, <1>4 DEF TypeInv

\* Stop and Reboot and the stop of a Close: refused, or stopping with the
\* record saying so: keeps the types.
LEMMA StopType == ASSUME TypeInv, NEW t \in Thread, Stop(t) PROVE TypeInv'
<1>1. SvcType'
  BY Zenon DEF Stop, SvcType, TypeInv, svcVars
<1>2. EntryType'
  <2>1. RecordType'
    BY SaveStateType, Zenon DEF Stop, TypeInv, EntryType, RecordType, State
  <2> QED BY Zenon, <2>1 DEF Stop, TypeInv, EntryType, RecordType
<1>3. RunType'
  BY Zenon DEF Stop, TypeInv, RunType
<1>4. ThreadInv'
  <2>1. proc[VMOf(t)] \in Run \cup {NoRun}
    BY Zenon, ActiveVM DEF Stop, TypeInv, EntryType
  <2> QED BY Zenon, <2>1, HoldType, ReturnType, CallThread DEF Stop, TypeInv, PC
<1> QED BY Zenon, <1>1, <1>2, <1>3, <1>4 DEF TypeInv

\* stopProcess: p.done is closed; Reboot goes on to Start: keeps the types.
LEMMA StopReturnsType == ASSUME TypeInv, NEW t \in Thread, StopReturns(t) PROVE TypeInv'
<1>1. SvcType'
  BY Zenon DEF StopReturns, SvcType, TypeInv, svcVars
<1>2. EntryType'
  BY Zenon DEF StopReturns, TypeInv, EntryType
<1>3. RunType'
  BY Zenon DEF StopReturns, RunType, TypeInv, runVars
<1>4. ThreadInv'
  BY Zenon, GotoType, ReturnType, CallThread DEF StopReturns, TypeInv, PC
<1> QED BY Zenon, <1>1, <1>2, <1>3, <1>4 DEF TypeInv

\* Delete: opMu taken, the record deleting, on to the wait or to the
\* teardown: keeps the types.
LEMMA DeleteType == ASSUME TypeInv, NEW c \in Call, Delete(c) PROVE TypeInv'
<1>1. SvcType'
  BY Zenon DEF Delete, SvcType, TypeInv, svcVars
<1>2. EntryType'
  <2>1. RecordType'
    BY SaveStateType, Zenon DEF Delete, TypeInv, EntryType, RecordType, State
  <2> QED BY Zenon, <2>1, CallThread DEF Delete, TypeInv, EntryType, RecordType
<1>3. RunType'
  BY Zenon DEF Delete, TypeInv, RunType
<1>4. ThreadInv'
  <2>1. proc[tgt[c]] \in Run \cup {NoRun}
    BY Zenon DEF Delete, TypeInv, EntryType, ThreadInv, Targets
  <2> QED BY Zenon, <2>1, HoldType, ReturnType, CallThread DEF Delete, TypeInv, PC
<1> QED BY Zenon, <1>1, <1>2, <1>3, <1>4 DEF TypeInv

\* The wait of Delete for p.done: keeps the types.
LEMMA DeleteWaitsType == ASSUME TypeInv, NEW c \in Call, DeleteWaits(c) PROVE TypeInv'
<1>1. SvcType'
  BY Zenon DEF DeleteWaits, SvcType, TypeInv, svcVars
<1>2. EntryType'
  BY Zenon DEF DeleteWaits, EntryType, TypeInv, entryVars
<1>3. RunType'
  BY Zenon DEF DeleteWaits, RunType, TypeInv, runVars
<1>4. ThreadInv'
  BY Zenon, GotoType, CallThread DEF DeleteWaits, TypeInv, PC
<1> QED BY Zenon, <1>1, <1>2, <1>3, <1>4 DEF TypeInv

\* teardown: the directory is removed with vm.json: keeps the types.
LEMMA TeardownType == ASSUME TypeInv, NEW c \in Call, Teardown(c) PROVE TypeInv'
<1>1. SvcType'
  BY Zenon DEF Teardown, SvcType, TypeInv, svcVars
<1>2. EntryType'
  BY Zenon DEF Teardown, TypeInv, EntryType, NoRecord, Record, State
<1>3. RunType'
  BY Zenon DEF Teardown, RunType, TypeInv, runVars
<1>4. ThreadInv'
  BY Zenon, GotoType, CallThread DEF Teardown, TypeInv, PC
<1> QED BY Zenon, <1>1, <1>2, <1>3, <1>4 DEF TypeInv

\* The removal of the entry at the end of Delete and of discard: keeps the
\* types.
LEMMA ForgetType == ASSUME TypeInv, NEW c \in Call, Forget(c) PROVE TypeInv'
<1>1. SvcType'
  BY Zenon DEF Forget, SvcType, TypeInv, svcVars
<1>2. EntryType'
  BY Zenon DEF Forget, TypeInv, EntryType
<1>3. RunType'
  BY Zenon DEF Forget, RunType, TypeInv, runVars
<1>4. ThreadInv'
  BY Zenon, ReturnType, CallThread DEF Forget, TypeInv
<1> QED BY Zenon, <1>1, <1>2, <1>3, <1>4 DEF TypeInv

\* A metadata request that LookupByIP resolves: keeps the types.
LEMMA GuestRequestType == ASSUME TypeInv, NEW c \in Call, NEW v \in VM, GuestRequest(c, v) PROVE TypeInv'
<1>1. SvcType'
  BY Zenon DEF GuestRequest, SvcType, TypeInv, svcVars
<1>2. EntryType'
  BY Zenon DEF GuestRequest, EntryType, TypeInv, entryVars
<1>3. RunType'
  BY Zenon DEF GuestRequest, RunType, TypeInv, runVars
<1>4. ThreadInv'
  BY Zenon, EnterType, CallThread DEF GuestRequest, TypeInv, PC, Operation
<1> QED BY Zenon, <1>1, <1>2, <1>3, <1>4 DEF TypeInv

\* onNonce and recordQuote: booting becomes attesting and the record is
\* saved: keeps the types.
LEMMA onNonceType == ASSUME TypeInv, NEW c \in Call, onNonce(c) PROVE TypeInv'
<1>1. SvcType'
  BY Zenon DEF onNonce, SvcType, TypeInv, svcVars
<1>2. EntryType'
  <2>1. RecordType'
    BY SaveStateType, SaveSameType, Zenon DEF onNonce, TypeInv, EntryType, RecordType, State
  <2> QED BY Zenon, <2>1 DEF onNonce, TypeInv, EntryType, RecordType
<1>3. RunType'
  BY Zenon DEF onNonce, RunType, TypeInv, runVars
<1>4. ThreadInv'
  BY Zenon, ReturnType, CallThread DEF onNonce, TypeInv
<1> QED BY Zenon, <1>1, <1>2, <1>3, <1>4 DEF TypeInv

\* A supervisor that returns because the service context is done: keeps the
\* types.
LEMMA SupervisorLeavesType == ASSUME TypeInv, NEW r \in Run, SupervisorLeaves(r) PROVE TypeInv'
<1>1. SvcType'
  BY Zenon DEF SupervisorLeaves, SvcType, TypeInv, svcVars
<1>2. EntryType'
  BY Zenon DEF SupervisorLeaves, EntryType, TypeInv, entryVars
<1>3. RunType'
  BY Zenon DEF SupervisorLeaves, RunType, TypeInv, runVars
<1>4. ThreadInv'
  BY Zenon, ReturnType, CallThread DEF SupervisorLeaves, TypeInv
<1> QED BY Zenon, <1>1, <1>2, <1>3, <1>4 DEF TypeInv

\* READY=1: the record becomes ready: keeps the types.
LEMMA onNotifyType == ASSUME TypeInv, NEW r \in Run, onNotify(r) PROVE TypeInv'
<1>1. SvcType'
  BY Zenon DEF onNotify, SvcType, TypeInv, svcVars
<1>2. EntryType'
  <2>1. RecordType'
    BY SaveStateType, SaveSameType, Zenon DEF onNotify, TypeInv, EntryType, RecordType, State
  <2> QED BY Zenon, <2>1 DEF onNotify, TypeInv, EntryType, RecordType
<1>3. RunType'
  BY Zenon DEF onNotify, RunType, TypeInv, runVars
<1>4. ThreadInv'
  BY Zenon DEF onNotify, ThreadInv, TypeInv, threadVars, ThreadType, Targets
<1> QED BY Zenon, <1>1, <1>2, <1>3, <1>4 DEF TypeInv

\* The install or boot timer: an installer is killed, a boot is running:
\* keeps the types.
LEMMA onTimeoutType == ASSUME TypeInv, NEW r \in Run, onTimeout(r) PROVE TypeInv'
<1>1. SvcType'
  BY Zenon DEF onTimeout, SvcType, TypeInv, svcVars
<1>2. EntryType'
  <2>1. RecordType'
    BY SaveStateType, Zenon DEF onTimeout, TypeInv, EntryType, RecordType, State
  <2> QED BY Zenon, <2>1 DEF onTimeout, TypeInv, EntryType, RecordType
<1>3. RunType'
  BY Zenon DEF onTimeout, TypeInv, RunType
<1>4. ThreadInv'
  BY Zenon DEF onTimeout, ThreadInv, TypeInv, threadVars, ThreadType, Targets
<1> QED BY Zenon, <1>1, <1>2, <1>3, <1>4 DEF TypeInv

\* onExit: the entry loses its process, done is closed, the handoff may
\* follow: keeps the types.
LEMMA onExitType == ASSUME TypeInv, NEW r \in Run, onExit(r) PROVE TypeInv'
<1>1. SvcType'
  BY Zenon DEF onExit, SvcType, TypeInv, svcVars
<1>2. EntryType'
  <2> DEFINE x == [rec[r[1]] EXCEPT !.state = ExitState(r), !.handles = FALSE,
                                 !.installed = @ \/ InstallSucceeded(r)]
  <2>1. r[1] \in VM => rec[r[1]] \in Record
    BY Zenon DEF TypeInv, EntryType
  <2>2. r[1] \in VM => ExitState(r) \in State
    BY Zenon, <2>1 DEF ExitState, Record, State
  <2>3. r[1] \in VM => x \in Record
    BY <2>1, <2>2, Zenon DEF Record
  <2>4. Save(r[1], x)
    BY Zenon DEF onExit
  <2>5. RecordType'
    BY Zenon, <2>3, <2>4, SaveType DEF TypeInv
  <2> QED BY <2>5, Zenon DEF onExit, TypeInv, EntryType, RecordType
<1>3. RunType'
  BY Zenon DEF onExit, TypeInv, RunType, CloseDone
<1>4. ThreadInv'
  BY Zenon, GotoType, ReturnType, CallThread DEF onExit, TypeInv, PC
<1> QED BY Zenon, <1>1, <1>2, <1>3, <1>4 DEF TypeInv

\* boot: the handoff starts phase B under opMu, or is abandoned: keeps the
\* types.
LEMMA BootType == ASSUME TypeInv, NEW r \in Run, Boot(r) PROVE TypeInv'
<1>1. SvcType'
  BY Zenon DEF Boot, SvcType, TypeInv, svcVars
<1>2. EntryType'
  <2>1. RecordType'
    BY SaveStateType, Zenon DEF Boot, TypeInv, EntryType, RecordType, State, HandoffAbandoned
  <2> QED BY Zenon, <2>1 DEF Boot, Thread, TypeInv, EntryType, RecordType
<1>3. RunType'
  BY Zenon DEF Boot, RunType, TypeInv, runVars
<1>4. ThreadInv'
  BY Zenon, GotoType, ReturnType, CallThread DEF Boot, TypeInv, PC
<1> QED BY Zenon, <1>1, <1>2, <1>3, <1>4 DEF TypeInv

\* The end of a QEMU process: keeps the types.
LEMMA QEMUExitsType == ASSUME TypeInv, NEW r \in Run, QEMUExits(r) PROVE TypeInv'
<1>1. SvcType'
  BY Zenon DEF QEMUExits, SvcType, TypeInv, svcVars
<1>2. EntryType'
  BY Zenon DEF QEMUExits, EntryType, TypeInv, entryVars
<1>3. RunType'
  BY Zenon DEF QEMUExits, TypeInv, RunType
<1>4. ThreadInv'
  BY Zenon DEF QEMUExits, ThreadInv, TypeInv, threadVars, ThreadType, Targets
<1> QED BY Zenon, <1>1, <1>2, <1>3, <1>4 DEF TypeInv

\* The unit watcher: the exit status is read and the unit released: keeps the
\* types.
LEMMA SettleType == ASSUME TypeInv, NEW r \in Run, Settle(r) PROVE TypeInv'
<1>1. SvcType'
  BY Zenon DEF Settle, SvcType, TypeInv, svcVars
<1>2. EntryType'
  BY Zenon DEF Settle, EntryType, TypeInv, entryVars
<1>3. RunType'
  BY Zenon DEF Settle, TypeInv, RunType
<1>4. ThreadInv'
  BY Zenon DEF Settle, ThreadInv, TypeInv, threadVars, ThreadType, Targets
<1> QED BY Zenon, <1>1, <1>2, <1>3, <1>4 DEF TypeInv

\* Load of a record without a process to attach to: keeps the types.
LEMMA LoadSettledType == ASSUME TypeInv, NEW v \in VM, LoadSettled(v) PROVE TypeInv'
<1>1. SvcType'
  BY Zenon DEF LoadSettled, TypeInv, SvcType
<1>2. EntryType'
  <2>1. disk[v] \in Record
    BY Zenon DEF TypeInv, EntryType
  <2>2. SettledRecord(v) \in Record
    BY <2>1, Zenon DEF SettledRecord, Record, State
  <2>3. RecordType'
    BY Zenon, <2>2, SaveType DEF LoadSettled, TypeInv
  <2> QED BY <2>3, Zenon DEF LoadSettled, TypeInv, EntryType, RecordType
<1>3. RunType'
  BY Zenon DEF LoadSettled, TypeInv, RunType, Attachable, RunsOf
<1>4. ThreadInv'
  BY Zenon DEF LoadSettled, ThreadInv, TypeInv, threadVars, ThreadType, Targets
<1> QED BY Zenon, <1>1, <1>2, <1>3, <1>4 DEF TypeInv

\* reattach: the entry gets the running unit and a supervisor: keeps the
\* types.
LEMMA ReattachType == ASSUME TypeInv, NEW v \in VM, NEW r \in Run, Reattach(v, r) PROVE TypeInv'
<1>1. SvcType'
  BY Zenon DEF Reattach, TypeInv, SvcType
<1>2. EntryType'
  <2>1. RecordType'
    BY Zenon, SaveType DEF Reattach, TypeInv, EntryType, RecordType, State
  <2> QED BY <2>1, Zenon DEF Reattach, TypeInv, EntryType, RecordType
<1>3. RunType'
  <2>1. disk[v].phase \in {"none", "install", "boot"}
    BY Zenon DEF TypeInv, EntryType, Record
  <2> QED BY Zenon, <2>1 DEF Reattach, TypeInv, RunType
<1>4. ThreadInv'
  BY Zenon, IdentityAssumption, CallThread DEF Reattach, Goto, TypeInv, ThreadInv, ThreadType, Targets, PC
<1> QED BY Zenon, <1>1, <1>2, <1>3, <1>4 DEF TypeInv

\* The visit of Close to one VM, under its opMu: keeps the types.
LEMMA VisitType == ASSUME TypeInv, NEW v \in VM, Visit(v) PROVE TypeInv'
<1>1. SvcType'
  BY Zenon DEF Visit, SvcType, TypeInv, svcVars
<1>2. EntryType'
  BY Zenon DEF Visit, TypeInv, EntryType, Thread
<1>3. RunType'
  BY Zenon DEF Visit, RunType, TypeInv, runVars
<1>4. ThreadInv'
  BY Zenon, GotoType, ReturnType, CallThread DEF Visit, TypeInv, PC
<1> QED BY Zenon, <1>1, <1>2, <1>3, <1>4 DEF TypeInv

\* The end of vm-manager: every thread and entry is gone, units stay: keeps
\* the types.
LEMMA ProcessEndsType == ASSUME TypeInv, ProcessEnds, crashes' \in Nat PROVE TypeInv'
<1>1. SvcType'
  BY Zenon DEF ProcessEnds, TypeInv, SvcType
<1>2. EntryType'
  BY Zenon DEF ProcessEnds, TypeInv, EntryType, NoRecord, Record, State
<1>3. RunType'
  BY Zenon DEF ProcessEnds, TypeInv, RunType
<1>4. ThreadInv'
  BY Zenon, CallThread DEF ProcessEnds, TypeInv, ThreadInv, ThreadType, Targets, PC, Operation
<1> QED BY Zenon, <1>1, <1>2, <1>3, <1>4 DEF TypeInv

\* The steps of Load, Serve and Close that only move the service on.
LEMMA ServiceType ==
  ASSUME TypeInv, Load \/ Serve \/ Close \/ Cancel \/ Closed PROVE TypeInv'
<1>1. SvcType'
  BY Zenon DEF Load, Serve, Close, Cancel, Closed, TypeInv, SvcType
<1>2. EntryType' /\ RunType'
  BY Zenon DEF Load, Serve, Close, Cancel, Closed, TypeInv, EntryType, RunType, entryVars, runVars
<1>3. ThreadInv'
  BY Zenon, CallThread, IdentityAssumption DEF Load, Serve, Close, Cancel, Closed, TypeInv, ThreadInv, ThreadType, Targets, threadVars, PC
<1> QED BY Zenon, <1>1, <1>2, <1>3 DEF TypeInv

\* vm-manager's state is well-typed from the start, and after every step.
LEMMA TypeInit == Init => TypeInv
<1> SUFFICES ASSUME Init PROVE TypeInv
  BY Zenon
<1>1. SvcType /\ RunType
  BY Zenon DEF Init, SvcType, RunType
<1>2. EntryType
  BY Zenon DEF Init, EntryType, NoRecord, Record, State
<1>3. ThreadInv
  BY Zenon, CallThread DEF Init, ThreadInv, ThreadType, Targets, PC, Operation
<1> QED BY Zenon, <1>1, <1>2, <1>3 DEF TypeInv

\* Every step keeps the types.
LEMMA TypeStep == TypeInv /\ [Next]_vars => TypeInv'
<1> SUFFICES ASSUME TypeInv, [Next]_vars PROVE TypeInv'
  BY Zenon
<1>1. CASE Request
  BY Zenon, <1>1, AllocateType, GuestRequestType, BeginType DEF Request
<1>2. ASSUME NEW c \in Call, CallStep(c) PROVE TypeInv'
  BY Zenon, <1>2, LaunchType, ProvisionType, StartType, DeleteType, DeleteWaitsType,
     TeardownType, ForgetType, onNonceType DEF CallStep
<1>3. ASSUME NEW t \in Thread, StartStep(t) \/ Commit(t) \/ Stop(t) \/ StopReturns(t)
      PROVE TypeInv'
  BY Zenon, <1>3, StartFailsType, StartQEMUType, CommitType, StopType, StopReturnsType DEF StartStep
<1>4. ASSUME NEW r \in Run, SupervisorStep(r) \/ QEMUExits(r) \/ Settle(r) PROVE TypeInv'
  BY Zenon, <1>4, SupervisorLeavesType, onNotifyType, onTimeoutType, onExitType, BootType,
     QEMUExitsType, SettleType DEF SupervisorStep
<1>5. CASE LoadStep
  BY Zenon, <1>5, LoadSettledType, ReattachType DEF LoadStep
<1>6. CASE Load \/ Serve \/ Close \/ Cancel \/ Closed
  BY Zenon, <1>6, ServiceType
<1>7. CASE \E v \in VM : Visit(v)
  BY Zenon, <1>7, VisitType
<1>8. CASE Exit \/ Crash
  BY <1>8, ProcessEndsType DEF Exit, Crash, TypeInv, SvcType
<1>9. CASE UNCHANGED vars
  BY Zenon, <1>9 DEF vars, svcVars, entryVars, runVars, threadVars,
     TypeInv, SvcType, EntryType, RunType, ThreadInv, ThreadType, Targets
<1> QED BY Zenon, <1>1, <1>2, <1>3, <1>4, <1>5, <1>6, <1>7, <1>8, <1>9 DEF Next

\* Every variable of the service keeps its type in every behaviour, for any
\* number of VMs, calls, runs and crashes.
THEOREM TypeCorrect == Spec => []TypeOK
<1>1. TypeInv => TypeOK
  BY Zenon DEF TypeInv, TypeOK, ThreadInv
<1> QED BY TypeInit, TypeStep, <1>1, PTL DEF Spec

-----------------------------------------------------------------------------
(* Locks.                                                                  *)


LockInv == ThreadKinds /\ LockDiscipline /\ StartsOwnRun /\ LoadingIsQuiet

\* The three kinds of threads are disjoint, and apart from the null values.
LEMMA Kinds ==
  /\ \A v \in VM : v \in Thread /\ v \notin Run /\ v \notin Call
  /\ \A r \in Run : r \in Thread /\ r \notin VM /\ r \notin Call /\ r[1] \in VM
  /\ \A c \in Call : c \in Thread /\ c \notin VM /\ c \notin Run
  /\ Free \notin Thread /\ Free \notin VM /\ NoRun \notin Thread /\ NoRun \notin Run
  BY Zenon, IdentityAssumption DEF Thread, Run

-----------------------------------------------------------------------------
(* One thread moves.                                                       *)

\* t goes to label l; the other threads stay where they are.
Moves(t, l) ==
  /\ pc'[t] = l
  /\ \A u \in Thread : u # t =>
       pc'[u] = pc[u] /\ op'[u] = op[u] /\ tgt'[u] = tgt[u] /\ arg'[u] = arg[u]

Keeps(t) == op'[t] = op[t] /\ tgt'[t] = tgt[t]

\* t takes a free opMu of v, gives up its own, or leaves it alone.
LockMoves(t, v) ==
  /\ \A w \in VM : w # v => opMu'[w] = opMu[w]
  /\ opMu'[v] = opMu[v] \/ opMu[v] = Free \/ opMu[v] = t

\* l is a label of the code t runs.
Legal(t, l) ==
  /\ t \in VM => l \in {"idle", "visit", "Stop", "stopping"}
  /\ t \in Run => l \in {"idle", "select", "boot", "start", "commit"}
  /\ t \in Call =>
       /\ l \notin {"select", "boot", "visit"}
       /\ l \in {"launch", "provision"} => op'[t] = "Create"
       /\ l \in {"Start", "Stop", "Delete", "guest", "deleting", "stopping"} =>
             op'[t] # "Create"

\* Goto and Hold keep the operation and the entry of the thread.
LEMMA GotoMoves ==
  ASSUME TypeInv, NEW t \in Thread, NEW l, Goto(t, l) PROVE Moves(t, l) /\ Keeps(t)
  BY Zenon DEF TypeInv, ThreadInv, ThreadType, Goto, Moves, Keeps

\* Going on with a run in hand moves the one thread that does.
LEMMA HoldMoves ==
  ASSUME TypeInv, NEW t \in Thread, NEW l, NEW r, Hold(t, l, r)
  PROVE Moves(t, l) /\ Keeps(t) /\ arg'[t] = r
  BY Zenon DEF TypeInv, ThreadInv, ThreadType, Hold, Moves, Keeps

\* Returning moves the one thread that returns.
LEMMA ReturnMoves ==
  ASSUME TypeInv, NEW t \in Thread, Return(t) PROVE Moves(t, "idle")
  BY Zenon DEF TypeInv, ThreadInv, ThreadType, Return, Moves

\* Entering an operation moves the one call that enters.
LEMMA EnterMoves ==
  ASSUME TypeInv, NEW t \in Thread, NEW o, NEW v, NEW l, Enter(t, o, v, l)
  PROVE Moves(t, l) /\ op'[t] = o /\ tgt'[t] = v
  BY Zenon DEF TypeInv, ThreadInv, ThreadType, Enter, Moves

\* Taking opMu gives the free lock of the VM to the thread.
LEMMA TakesLock ==
  ASSUME TypeInv, NEW t, NEW v \in VM, opMu[v] = Free, opMu' = [opMu EXCEPT ![v] = t]
  PROVE LockMoves(t, v) /\ opMu'[v] = t
  BY Zenon DEF TypeInv, EntryType, LockMoves

\* Releasing opMu frees the lock the thread held.
LEMMA GivesLock ==
  ASSUME TypeInv, NEW t, NEW v \in VM, opMu[v] = t, opMu' = [opMu EXCEPT ![v] = Free]
  PROVE LockMoves(t, v)
  BY Zenon DEF TypeInv, EntryType, LockMoves

\* Another thread is where it was, in the same VM, inside or outside opMu.
LEMMA Others ==
  ASSUME NEW t \in Thread, NEW l, Moves(t, l), NEW u \in Thread, u # t
  PROVE VMOf(u)' = VMOf(u) /\ (HoldsOpMu(u)' <=> HoldsOpMu(u))
  BY Zenon, Kinds DEF Moves, VMOf, HoldsOpMu

\* The step of one thread keeps the lock discipline.
LEMMA ThreadMove ==
  ASSUME TypeInv, LockInv, NEW t \in Thread, NEW l, NEW v \in VM,
         Moves(t, l), LockMoves(t, v), Legal(t, l),
         HoldsOpMu(t)' => opMu'[VMOf(t)'] = t,
         t \in Call /\ l # "idle" => tgt'[t] \in VM,
         l = "commit" => arg'[t] \in Run /\ arg'[t][1] = VMOf(t)',
         svc' = svc, unloaded' = unloaded,
         pc[t] = "idle" => svc \notin {"down", "loading"} \/ (l = "guest" /\ svc # "down"),
         pc[t] = "guest" => l = "idle", t \in Run => pc[t] # "idle"
  PROVE LockInv'
<1>1. ThreadKinds'
  BY Kinds DEF LockInv, ThreadKinds, Moves, Legal
<1>2. LockDiscipline'
  <2> SUFFICES ASSUME NEW u \in Thread, u # t, HoldsOpMu(u)' PROVE opMu'[VMOf(u)'] = u
    BY Zenon DEF LockDiscipline
  <2>1. VMOf(u)' = VMOf(u) /\ HoldsOpMu(u)
    BY Zenon, Others
  <2>2. VMOf(u) \in VM
    BY Zenon, <2>1, ActiveVM DEF HoldsOpMu, TypeInv
  <2>3. opMu[VMOf(u)] = u
    BY Zenon, <2>1 DEF LockInv, LockDiscipline
  <2> QED BY Zenon, <2>1, <2>2, <2>3, Kinds DEF LockMoves
<1>3. LoadingIsQuiet'
  BY Kinds DEF LockInv, LoadingIsQuiet, Moves, ThreadKinds, Legal
<1>4. StartsOwnRun'
  <2> SUFFICES ASSUME NEW u \in Thread, u # t, pc'[u] = "commit"
               PROVE arg'[u] \in Run /\ arg'[u][1] = VMOf(u)'
    BY Zenon DEF StartsOwnRun, Moves
  <2> QED BY Zenon, Others DEF Moves, LockInv, StartsOwnRun
<1> QED BY Zenon, <1>1, <1>2, <1>3, <1>4 DEF LockInv

-----------------------------------------------------------------------------
(* The actions.                                                            *)

\* allocate: a new record in state creating and a caller that goes on to
\* launch: keeps the lock layer.
LEMMA AllocateLock == ASSUME TypeInv, LockInv, NEW c \in Call, NEW v \in VM, Allocate(c, v) PROVE LockInv'
<1>0. c \in Thread /\ v \in VM /\ pc[c] = "idle" /\ c \notin Run /\ svc = "serving"
  BY Zenon, ActiveVM, Kinds DEF Allocate, TypeInv, LockInv, ThreadKinds
<1>1. Moves(c, "launch") /\ op'[c] = "Create" /\ tgt'[c] = v
  BY Zenon, <1>0, EnterMoves DEF Allocate
<1>2. opMu' = opMu /\ LockMoves(c, v)
  BY Zenon, <1>0 DEF Allocate, LockMoves, entryVars
<1>3. svc' = svc /\ unloaded' = unloaded
  BY Zenon DEF Allocate, svcVars
<1>4. Legal(c, "launch")
  BY Zenon, <1>0, <1>1, Kinds DEF Legal, Keeps
<1>5. (~HoldsOpMu(c)') /\ (c \in Call => tgt'[c] \in VM)
  BY Zenon, <1>0, <1>1, <1>2, Kinds DEF HoldsOpMu, VMOf, Moves, Keeps, LockInv, LockDiscipline
<1> QED BY Zenon, <1>0, <1>1, <1>2, <1>3, <1>4, <1>5, ThreadMove

\* launch: the caller waits for opMu and goes on to provision: keeps the lock
\* layer.
LEMMA LaunchLock == ASSUME TypeInv, LockInv, NEW c \in Call, Launch(c) PROVE LockInv'
<1>0. c \in Thread /\ tgt[c] \in VM /\ pc[c] = "launch" /\ op[c] = "Create"
  BY Zenon, ActiveVM, Kinds DEF Launch, TypeInv, LockInv, ThreadKinds
<1>1. Moves(c, "provision") /\ Keeps(c)
  BY Zenon, <1>0, GotoMoves DEF Launch
<1>2. LockMoves(c, tgt[c]) /\ opMu'[tgt[c]] = c
  BY <1>0, TakesLock, Zenon DEF Launch
<1>3. svc' = svc /\ unloaded' = unloaded
  BY Zenon DEF Launch, svcVars
<1>4. Legal(c, "provision")
  BY Zenon, <1>0, <1>1, Kinds DEF Legal, Keeps
<1>5. (HoldsOpMu(c)' => opMu'[VMOf(c)'] = c) /\ (c \in Call => tgt'[c] \in VM)
  BY Zenon, <1>0, <1>1, <1>2, Kinds DEF HoldsOpMu, VMOf, Moves, Keeps, LockInv, LockDiscipline
<1> QED BY Zenon, <1>0, <1>1, <1>2, <1>3, <1>4, <1>5, ThreadMove

\* provision: the caller goes on to the start, or to the discard of a failed
\* Create: keeps the lock layer.
LEMMA ProvisionLock == ASSUME TypeInv, LockInv, NEW c \in Call, Provision(c) PROVE LockInv'
<1>1. CASE Goto(c, "start")
  <2>0. c \in Thread /\ tgt[c] \in VM /\ pc[c] = "provision"
    BY Zenon, <1>1, ActiveVM, Kinds DEF Provision, TypeInv, LockInv, ThreadKinds
  <2>1. Moves(c, "start") /\ Keeps(c)
    BY Zenon, <1>1, <2>0, GotoMoves DEF Provision
  <2>2. opMu' = opMu /\ LockMoves(c, tgt[c])
    BY Zenon, <1>1, <2>0 DEF Provision, LockMoves, entryVars
  <2>3. svc' = svc /\ unloaded' = unloaded
    BY Zenon, <1>1 DEF Provision, svcVars
  <2>4. Legal(c, "start")
    BY Zenon, <2>0, <2>1, Kinds DEF Legal, Keeps
  <2>5. (HoldsOpMu(c)' => opMu'[VMOf(c)'] = c) /\ (c \in Call => tgt'[c] \in VM)
    BY Zenon, <2>0, <2>1, <2>2, Kinds DEF HoldsOpMu, VMOf, Moves, Keeps, LockInv, LockDiscipline
  <2> QED BY Zenon, <2>0, <2>1, <2>2, <2>3, <2>4, <2>5, ThreadMove
<1>2. CASE Goto(c, "teardown")
  <2>0. c \in Thread /\ tgt[c] \in VM /\ pc[c] = "provision"
    BY Zenon, <1>2, ActiveVM, Kinds DEF Provision, TypeInv, LockInv, ThreadKinds
  <2>1. Moves(c, "teardown") /\ Keeps(c)
    BY Zenon, <1>2, <2>0, GotoMoves DEF Provision
  <2>2. opMu' = opMu /\ LockMoves(c, tgt[c])
    BY Zenon, <1>2, <2>0 DEF Provision, LockMoves, entryVars
  <2>3. svc' = svc /\ unloaded' = unloaded
    BY Zenon, <1>2 DEF Provision, svcVars
  <2>4. Legal(c, "teardown")
    BY Zenon, <2>0, <2>1, Kinds DEF Legal, Keeps
  <2>5. (HoldsOpMu(c)' => opMu'[VMOf(c)'] = c) /\ (c \in Call => tgt'[c] \in VM)
    BY Zenon, <2>0, <2>1, <2>2, Kinds DEF HoldsOpMu, VMOf, Moves, Keeps, LockInv, LockDiscipline
  <2> QED BY Zenon, <2>0, <2>1, <2>2, <2>3, <2>4, <2>5, ThreadMove
<1> QED BY Zenon, <1>1, <1>2 DEF Provision

\* startProcess: QEMU runs and the thread goes on to the commit: keeps the
\* lock layer.
LEMMA StartQEMULock == ASSUME TypeInv, LockInv, NEW t \in Thread, NEW r \in Run, StartQEMU(t, r) PROVE LockInv'
<1>0. t \in Thread /\ VMOf(t) \in VM /\ pc[t] = "start" /\ t \notin VM /\ r[1] = VMOf(t)
  BY Zenon, ActiveVM, Kinds DEF StartQEMU, TypeInv, LockInv, ThreadKinds, FreshRun, RunsOf
<1>1. Moves(t, "commit") /\ Keeps(t) /\ arg'[t] = r
  BY Zenon, <1>0, HoldMoves DEF StartQEMU
<1>2. opMu' = opMu /\ LockMoves(t, VMOf(t))
  BY Zenon, <1>0 DEF StartQEMU, LockMoves, entryVars
<1>3. svc' = svc /\ unloaded' = unloaded
  BY Zenon DEF StartQEMU, svcVars
<1>4. Legal(t, "commit")
  BY Zenon, <1>0, <1>1, Kinds DEF Legal, Keeps
<1>5. (HoldsOpMu(t)' => opMu'[VMOf(t)'] = t) /\ (t \in Call => tgt'[t] \in VM) /\ VMOf(t)' = VMOf(t)
  BY Zenon, <1>0, <1>1, <1>2, Kinds DEF HoldsOpMu, VMOf, Moves, Keeps, LockInv, LockDiscipline
<1> QED BY Zenon, <1>0, <1>1, <1>2, <1>3, <1>4, <1>5, ThreadMove

\* A failed startProcess: the discard of a Create, fail() for a boot: keeps
\* the lock layer.
LEMMA StartFailsLock == ASSUME TypeInv, LockInv, NEW t \in Thread, StartFails(t) PROVE LockInv'
<1>1. CASE PhaseOf(t) = "install"
  <2>0. t \in Thread /\ VMOf(t) \in VM /\ pc[t] = "start" /\ t \in Call
    BY Zenon, <1>1, ActiveVM, Kinds DEF StartFails, TypeInv, LockInv, ThreadKinds, PhaseOf
  <2>1. Moves(t, "teardown") /\ Keeps(t)
    BY Zenon, <1>1, <2>0, GotoMoves DEF StartFails
  <2>2. opMu' = opMu /\ LockMoves(t, VMOf(t))
    BY Zenon, <1>1, <2>0 DEF StartFails, LockMoves, entryVars
  <2>3. svc' = svc /\ unloaded' = unloaded
    BY Zenon, <1>1 DEF StartFails, svcVars
  <2>4. Legal(t, "teardown")
    BY Zenon, <2>0, <2>1, Kinds DEF Legal, Keeps
  <2>5. (HoldsOpMu(t)' => opMu'[VMOf(t)'] = t) /\ (t \in Call => tgt'[t] \in VM)
    BY Zenon, <2>0, <2>1, <2>2, Kinds DEF HoldsOpMu, VMOf, Moves, Keeps, LockInv, LockDiscipline
  <2> QED BY Zenon, <2>0, <2>1, <2>2, <2>3, <2>4, <2>5, ThreadMove
<1>2. CASE PhaseOf(t) # "install"
  <2>0. t \in Thread /\ VMOf(t) \in VM /\ pc[t] = "start" /\ opMu[VMOf(t)] = t
    BY Zenon, <1>2, ActiveVM, Kinds DEF StartFails, TypeInv, LockInv, ThreadKinds, LockDiscipline, HoldsOpMu
  <2>1. Moves(t, "idle")
    BY Zenon, <1>2, <2>0, ReturnMoves DEF StartFails
  <2>2. LockMoves(t, VMOf(t))
    BY <1>2, <2>0, GivesLock, Zenon DEF StartFails
  <2>3. svc' = svc /\ unloaded' = unloaded
    BY Zenon, <1>2 DEF StartFails, svcVars
  <2>4. Legal(t, "idle")
    BY Zenon, <2>0, <2>1, Kinds DEF Legal, Keeps
  <2>5. ~HoldsOpMu(t)'
    BY Zenon, <2>1 DEF HoldsOpMu, Moves
  <2> QED BY Zenon, <2>0, <2>1, <2>2, <2>3, <2>4, <2>5, ThreadMove
<1> QED BY Zenon, <1>1, <1>2 DEF StartFails

\* The lookup of the entry at the head of Start, Stop, Reboot and Delete:
\* keeps the lock layer.
LEMMA BeginLock == ASSUME TypeInv, LockInv, NEW c \in Call, NEW v \in VM, NEW o \in Ops, Begin(c, v, o) PROVE LockInv'
<1> DEFINE l == IF o = "Reboot" THEN "Stop" ELSE o
<1>0. c \in Thread /\ c \notin Run /\ pc[c] = "idle" /\ svc \notin {"down", "loading"}
  BY Zenon, Kinds DEF Begin
<1>1. Moves(c, l) /\ op'[c] = o /\ tgt'[c] = v
  BY Zenon, <1>0, EnterMoves DEF Begin
<1>2. LockMoves(c, v) /\ svc' = svc /\ unloaded' = unloaded
  BY Zenon DEF Begin, LockMoves, entryVars, svcVars
<1>3. l \in {"Start", "Stop", "Delete"} /\ o # "Create"
  BY Zenon DEF Begin
<1> HIDE DEF l
<1>4. Legal(c, l) /\ ~HoldsOpMu(c)'
  BY Zenon, <1>1, <1>3, Kinds DEF Legal, HoldsOpMu, Moves
<1> QED BY Zenon, <1>0, <1>1, <1>2, <1>3, <1>4, ThreadMove

\* Start: refused, or opMu taken and on to startProcess: keeps the lock
\* layer.
LEMMA StartLock == ASSUME TypeInv, LockInv, NEW c \in Call, Start(c) PROVE LockInv'
<1>1. CASE Return(c) /\ UNCHANGED opMu
  <2>0. c \in Thread /\ tgt[c] \in VM /\ pc[c] = "Start"
    BY Zenon, <1>1, ActiveVM, Kinds DEF Start, TypeInv, LockInv, ThreadKinds
  <2>1. Moves(c, "idle")
    BY Zenon, <1>1, <2>0, ReturnMoves DEF Start
  <2>2. opMu' = opMu /\ LockMoves(c, tgt[c])
    BY Zenon, <1>1, <2>0 DEF Start, LockMoves, entryVars
  <2>3. svc' = svc /\ unloaded' = unloaded
    BY Zenon, <1>1 DEF Start, svcVars
  <2>4. Legal(c, "idle")
    BY Zenon, <2>0, <2>1, Kinds DEF Legal, Keeps
  <2>5. ~HoldsOpMu(c)'
    BY Zenon, <2>1 DEF HoldsOpMu, Moves
  <2> QED BY Zenon, <2>0, <2>1, <2>2, <2>3, <2>4, <2>5, ThreadMove
<1>2. CASE Goto(c, "start") /\ opMu' = [opMu EXCEPT ![tgt[c]] = c]
  <2>0. c \in Thread /\ tgt[c] \in VM /\ pc[c] = "Start" /\ op[c] # "Create" /\ opMu[tgt[c]] = Free
    BY Zenon, <1>2, ActiveVM, Kinds DEF Start, TypeInv, LockInv, ThreadKinds
  <2>1. Moves(c, "start") /\ Keeps(c)
    BY Zenon, <1>2, <2>0, GotoMoves DEF Start
  <2>2. LockMoves(c, tgt[c]) /\ opMu'[tgt[c]] = c
    BY <1>2, <2>0, TakesLock, Zenon DEF Start
  <2>3. svc' = svc /\ unloaded' = unloaded
    BY Zenon, <1>2 DEF Start, svcVars
  <2>4. Legal(c, "start")
    BY Zenon, <2>0, <2>1, Kinds DEF Legal, Keeps
  <2>5. (HoldsOpMu(c)' => opMu'[VMOf(c)'] = c) /\ (c \in Call => tgt'[c] \in VM)
    BY Zenon, <2>0, <2>1, <2>2, Kinds DEF HoldsOpMu, VMOf, Moves, Keeps, LockInv, LockDiscipline
  <2> QED BY Zenon, <2>0, <2>1, <2>2, <2>3, <2>4, <2>5, ThreadMove
<1> QED BY Zenon, <1>1, <1>2 DEF Start

\* Stop and Reboot and the stop of a Close: refused, or stopping with the
\* record saying so: keeps the lock layer.
LEMMA StopLock == ASSUME TypeInv, LockInv, NEW t \in Thread, Stop(t) PROVE LockInv'
<1>1. CASE Hold(t, "stopping", proc[VMOf(t)]) /\ UNCHANGED opMu
  <2>0. t \in Thread /\ VMOf(t) \in VM /\ pc[t] = "Stop" /\ t \notin Run /\ (t \in Call => op[t] # "Create")
    BY Zenon, <1>1, ActiveVM, Kinds DEF Stop, TypeInv, LockInv, ThreadKinds
  <2>1. Moves(t, "stopping") /\ Keeps(t)
    BY Zenon, <1>1, <2>0, HoldMoves DEF Stop
  <2>2. opMu' = opMu /\ LockMoves(t, VMOf(t))
    BY Zenon, <1>1, <2>0 DEF Stop, LockMoves, entryVars
  <2>3. svc' = svc /\ unloaded' = unloaded
    BY Zenon, <1>1 DEF Stop, svcVars
  <2>4. Legal(t, "stopping")
    BY Zenon, <2>0, <2>1, Kinds DEF Legal, Keeps
  <2>5. (HoldsOpMu(t)' => opMu'[VMOf(t)'] = t) /\ (t \in Call => tgt'[t] \in VM)
    BY Zenon, <2>0, <2>1, <2>2, Kinds DEF HoldsOpMu, VMOf, Moves, Keeps, LockInv, LockDiscipline
  <2> QED BY Zenon, <2>0, <2>1, <2>2, <2>3, <2>4, <2>5, ThreadMove
<1>2. CASE Return(t) /\ t \notin VM /\ opMu' = opMu
  <2>0. t \in Thread /\ VMOf(t) \in VM /\ pc[t] = "Stop"
    BY Zenon, <1>2, ActiveVM, Kinds DEF Stop, TypeInv, LockInv, ThreadKinds
  <2>1. Moves(t, "idle")
    BY Zenon, <1>2, <2>0, ReturnMoves DEF Stop
  <2>2. opMu' = opMu /\ LockMoves(t, VMOf(t))
    BY Zenon, <1>2, <2>0 DEF Stop, LockMoves, entryVars
  <2>3. svc' = svc /\ unloaded' = unloaded
    BY Zenon, <1>2 DEF Stop, svcVars
  <2>4. Legal(t, "idle")
    BY Zenon, <2>0, <2>1, Kinds DEF Legal, Keeps
  <2>5. ~HoldsOpMu(t)'
    BY Zenon, <2>1 DEF HoldsOpMu, Moves
  <2> QED BY Zenon, <2>0, <2>1, <2>2, <2>3, <2>4, <2>5, ThreadMove
<1>3. CASE Return(t) /\ t \in VM /\ opMu' = [opMu EXCEPT ![VMOf(t)] = Free]
  <2>0. t \in Thread /\ VMOf(t) \in VM /\ pc[t] = "Stop" /\ opMu[VMOf(t)] = t
    BY Zenon, <1>3, ActiveVM, Kinds DEF Stop, TypeInv, LockInv, ThreadKinds, LockDiscipline, HoldsOpMu
  <2>1. Moves(t, "idle")
    BY Zenon, <1>3, <2>0, ReturnMoves DEF Stop
  <2>2. LockMoves(t, VMOf(t))
    BY <1>3, <2>0, GivesLock, Zenon DEF Stop
  <2>3. svc' = svc /\ unloaded' = unloaded
    BY Zenon, <1>3 DEF Stop, svcVars
  <2>4. Legal(t, "idle")
    BY Zenon, <2>0, <2>1, Kinds DEF Legal, Keeps
  <2>5. ~HoldsOpMu(t)'
    BY Zenon, <2>1 DEF HoldsOpMu, Moves
  <2> QED BY Zenon, <2>0, <2>1, <2>2, <2>3, <2>4, <2>5, ThreadMove
<1> QED BY Zenon, <1>1, <1>2, <1>3 DEF Stop

\* stopProcess: p.done is closed; Reboot goes on to Start: keeps the lock
\* layer.
LEMMA StopReturnsLock == ASSUME TypeInv, LockInv, NEW t \in Thread, StopReturns(t) PROVE LockInv'
<1>1. CASE Goto(t, "Start") /\ t \in Call
  <2>0. t \in Thread /\ VMOf(t) \in VM /\ pc[t] = "stopping" /\ t \notin VM /\ t \notin Run /\ op[t] # "Create"
    BY Zenon, <1>1, ActiveVM, Kinds DEF StopReturns, TypeInv, LockInv, ThreadKinds
  <2>1. Moves(t, "Start") /\ Keeps(t)
    BY Zenon, <1>1, <2>0, GotoMoves DEF StopReturns
  <2>2. opMu' = opMu /\ LockMoves(t, VMOf(t))
    BY Zenon, <1>1, <2>0 DEF StopReturns, LockMoves, entryVars
  <2>3. svc' = svc /\ unloaded' = unloaded
    BY Zenon, <1>1 DEF StopReturns, svcVars
  <2>4. Legal(t, "Start")
    BY Zenon, <2>0, <2>1, Kinds DEF Legal, Keeps
  <2>5. (~HoldsOpMu(t)') /\ (t \in Call => tgt'[t] \in VM)
    BY Zenon, <2>0, <2>1, <2>2, Kinds DEF HoldsOpMu, VMOf, Moves, Keeps, LockInv, LockDiscipline
  <2> QED BY Zenon, <2>0, <2>1, <2>2, <2>3, <2>4, <2>5, ThreadMove
<1>2. CASE Return(t) /\ t \notin VM
  <2>0. t \in Thread /\ VMOf(t) \in VM /\ pc[t] = "stopping"
    BY Zenon, <1>2, ActiveVM, Kinds DEF StopReturns, TypeInv, LockInv, ThreadKinds
  <2>1. Moves(t, "idle")
    BY Zenon, <1>2, <2>0, ReturnMoves DEF StopReturns
  <2>2. opMu' = opMu /\ LockMoves(t, VMOf(t))
    BY Zenon, <1>2, <2>0 DEF StopReturns, LockMoves, entryVars
  <2>3. svc' = svc /\ unloaded' = unloaded
    BY Zenon, <1>2 DEF StopReturns, svcVars
  <2>4. Legal(t, "idle")
    BY Zenon, <2>0, <2>1, Kinds DEF Legal, Keeps
  <2>5. ~HoldsOpMu(t)'
    BY Zenon, <2>1 DEF HoldsOpMu, Moves
  <2> QED BY Zenon, <2>0, <2>1, <2>2, <2>3, <2>4, <2>5, ThreadMove
<1>3. CASE Return(t) /\ t \in VM
  <2>0. t \in Thread /\ VMOf(t) \in VM /\ pc[t] = "stopping" /\ opMu[VMOf(t)] = t
    BY Zenon, <1>3, ActiveVM, Kinds DEF StopReturns, TypeInv, LockInv, ThreadKinds, LockDiscipline, HoldsOpMu
  <2>1. Moves(t, "idle")
    BY Zenon, <1>3, <2>0, ReturnMoves DEF StopReturns
  <2>2. LockMoves(t, VMOf(t))
    BY <1>3, <2>0, GivesLock, Zenon DEF StopReturns
  <2>3. svc' = svc /\ unloaded' = unloaded
    BY Zenon, <1>3 DEF StopReturns, svcVars
  <2>4. Legal(t, "idle")
    BY Zenon, <2>0, <2>1, Kinds DEF Legal, Keeps
  <2>5. ~HoldsOpMu(t)'
    BY Zenon, <2>1 DEF HoldsOpMu, Moves
  <2> QED BY Zenon, <2>0, <2>1, <2>2, <2>3, <2>4, <2>5, ThreadMove
<1> QED BY Zenon, <1>1, <1>2, <1>3 DEF StopReturns

\* Delete: opMu taken, the record deleting, on to the wait or to the
\* teardown: keeps the lock layer.
LEMMA DeleteLock == ASSUME TypeInv, LockInv, NEW c \in Call, Delete(c) PROVE LockInv'
<1>1. CASE Return(c) /\ UNCHANGED opMu
  <2>0. c \in Thread /\ tgt[c] \in VM /\ pc[c] = "Delete"
    BY Zenon, <1>1, ActiveVM, Kinds DEF Delete, TypeInv, LockInv, ThreadKinds
  <2>1. Moves(c, "idle")
    BY Zenon, <1>1, <2>0, ReturnMoves DEF Delete
  <2>2. opMu' = opMu /\ LockMoves(c, tgt[c])
    BY Zenon, <1>1, <2>0 DEF Delete, LockMoves, entryVars
  <2>3. svc' = svc /\ unloaded' = unloaded
    BY Zenon, <1>1 DEF Delete, svcVars
  <2>4. Legal(c, "idle")
    BY Zenon, <2>0, <2>1, Kinds DEF Legal, Keeps
  <2>5. ~HoldsOpMu(c)'
    BY Zenon, <2>1 DEF HoldsOpMu, Moves
  <2> QED BY Zenon, <2>0, <2>1, <2>2, <2>3, <2>4, <2>5, ThreadMove
<1>2. CASE proc[tgt[c]] = NoRun /\ Hold(c, "teardown", NoRun) /\ opMu' = [opMu EXCEPT ![tgt[c]] = c]
  <2>0. c \in Thread /\ tgt[c] \in VM /\ pc[c] = "Delete" /\ op[c] # "Create" /\ opMu[tgt[c]] = Free
    BY Zenon, <1>2, ActiveVM, Kinds DEF Delete, TypeInv, LockInv, ThreadKinds
  <2>1. Moves(c, "teardown") /\ Keeps(c)
    BY Zenon, <1>2, <2>0, HoldMoves DEF Delete
  <2>2. LockMoves(c, tgt[c]) /\ opMu'[tgt[c]] = c
    BY <1>2, <2>0, TakesLock, Zenon DEF Delete
  <2>3. svc' = svc /\ unloaded' = unloaded
    BY Zenon, <1>2 DEF Delete, svcVars
  <2>4. Legal(c, "teardown")
    BY Zenon, <2>0, <2>1, Kinds DEF Legal, Keeps
  <2>5. (HoldsOpMu(c)' => opMu'[VMOf(c)'] = c) /\ (c \in Call => tgt'[c] \in VM)
    BY Zenon, <2>0, <2>1, <2>2, Kinds DEF HoldsOpMu, VMOf, Moves, Keeps, LockInv, LockDiscipline
  <2> QED BY Zenon, <2>0, <2>1, <2>2, <2>3, <2>4, <2>5, ThreadMove
<1>3. CASE proc[tgt[c]] # NoRun /\ Hold(c, "deleting", proc[tgt[c]]) /\ opMu' = [opMu EXCEPT ![tgt[c]] = c]
  <2>0. c \in Thread /\ tgt[c] \in VM /\ pc[c] = "Delete" /\ op[c] # "Create" /\ opMu[tgt[c]] = Free
    BY Zenon, <1>3, ActiveVM, Kinds DEF Delete, TypeInv, LockInv, ThreadKinds
  <2>1. Moves(c, "deleting") /\ Keeps(c)
    BY Zenon, <1>3, <2>0, HoldMoves DEF Delete
  <2>2. LockMoves(c, tgt[c]) /\ opMu'[tgt[c]] = c
    BY <1>3, <2>0, TakesLock, Zenon DEF Delete
  <2>3. svc' = svc /\ unloaded' = unloaded
    BY Zenon, <1>3 DEF Delete, svcVars
  <2>4. Legal(c, "deleting")
    BY Zenon, <2>0, <2>1, Kinds DEF Legal, Keeps
  <2>5. (HoldsOpMu(c)' => opMu'[VMOf(c)'] = c) /\ (c \in Call => tgt'[c] \in VM)
    BY Zenon, <2>0, <2>1, <2>2, Kinds DEF HoldsOpMu, VMOf, Moves, Keeps, LockInv, LockDiscipline
  <2> QED BY Zenon, <2>0, <2>1, <2>2, <2>3, <2>4, <2>5, ThreadMove
<1> QED BY Zenon, <1>1, <1>2, <1>3 DEF Delete

\* The wait of Delete for p.done: keeps the lock layer.
LEMMA DeleteWaitsLock == ASSUME TypeInv, LockInv, NEW c \in Call, DeleteWaits(c) PROVE LockInv'
<1>0. c \in Thread /\ tgt[c] \in VM /\ pc[c] = "deleting"
  BY Zenon, ActiveVM, Kinds DEF DeleteWaits, TypeInv, LockInv, ThreadKinds
<1>1. Moves(c, "teardown") /\ Keeps(c)
  BY Zenon, <1>0, GotoMoves DEF DeleteWaits
<1>2. opMu' = opMu /\ LockMoves(c, tgt[c])
  BY Zenon, <1>0 DEF DeleteWaits, LockMoves, entryVars
<1>3. svc' = svc /\ unloaded' = unloaded
  BY Zenon DEF DeleteWaits, svcVars
<1>4. Legal(c, "teardown")
  BY Zenon, <1>0, <1>1, Kinds DEF Legal, Keeps
<1>5. (HoldsOpMu(c)' => opMu'[VMOf(c)'] = c) /\ (c \in Call => tgt'[c] \in VM)
  BY Zenon, <1>0, <1>1, <1>2, Kinds DEF HoldsOpMu, VMOf, Moves, Keeps, LockInv, LockDiscipline
<1> QED BY Zenon, <1>0, <1>1, <1>2, <1>3, <1>4, <1>5, ThreadMove

\* teardown: the directory is removed with vm.json: keeps the lock layer.
LEMMA TeardownLock == ASSUME TypeInv, LockInv, NEW c \in Call, Teardown(c) PROVE LockInv'
<1>0. c \in Thread /\ tgt[c] \in VM /\ pc[c] = "teardown"
  BY Zenon, ActiveVM, Kinds DEF Teardown, TypeInv, LockInv, ThreadKinds
<1>1. Moves(c, "forget") /\ Keeps(c)
  BY Zenon, <1>0, GotoMoves DEF Teardown
<1>2. opMu' = opMu /\ LockMoves(c, tgt[c])
  BY Zenon, <1>0 DEF Teardown, LockMoves, entryVars
<1>3. svc' = svc /\ unloaded' = unloaded
  BY Zenon DEF Teardown, svcVars
<1>4. Legal(c, "forget")
  BY Zenon, <1>0, <1>1, Kinds DEF Legal, Keeps
<1>5. (HoldsOpMu(c)' => opMu'[VMOf(c)'] = c) /\ (c \in Call => tgt'[c] \in VM)
  BY Zenon, <1>0, <1>1, <1>2, Kinds DEF HoldsOpMu, VMOf, Moves, Keeps, LockInv, LockDiscipline
<1> QED BY Zenon, <1>0, <1>1, <1>2, <1>3, <1>4, <1>5, ThreadMove

\* The removal of the entry at the end of Delete and of discard: keeps the
\* lock layer.
LEMMA ForgetLock == ASSUME TypeInv, LockInv, NEW c \in Call, Forget(c) PROVE LockInv'
<1>0. c \in Thread /\ tgt[c] \in VM /\ pc[c] = "forget" /\ opMu[tgt[c]] = c
  BY Zenon, ActiveVM, Kinds DEF Forget, TypeInv, LockInv, ThreadKinds, LockDiscipline, HoldsOpMu, VMOf
<1>1. Moves(c, "idle")
  BY Zenon, <1>0, ReturnMoves DEF Forget
<1>2. LockMoves(c, tgt[c])
  BY <1>0, GivesLock, Zenon DEF Forget
<1>3. svc' = svc /\ unloaded' = unloaded
  BY Zenon DEF Forget, svcVars
<1>4. Legal(c, "idle")
  BY Zenon, <1>0, <1>1, Kinds DEF Legal, Keeps
<1>5. ~HoldsOpMu(c)'
  BY Zenon, <1>1 DEF HoldsOpMu, Moves
<1> QED BY Zenon, <1>0, <1>1, <1>2, <1>3, <1>4, <1>5, ThreadMove

\* A metadata request that LookupByIP resolves: keeps the lock layer.
LEMMA GuestRequestLock == ASSUME TypeInv, LockInv, NEW c \in Call, NEW v \in VM, GuestRequest(c, v) PROVE LockInv'
<1>0. c \in Thread /\ v \in VM /\ pc[c] = "idle" /\ c \notin Run /\ svc # "down"
  BY Zenon, ActiveVM, Kinds DEF GuestRequest, TypeInv, LockInv, ThreadKinds
<1>1. Moves(c, "guest") /\ op'[c] = "Guest" /\ tgt'[c] = v
  BY Zenon, <1>0, EnterMoves DEF GuestRequest
<1>2. opMu' = opMu /\ LockMoves(c, v)
  BY Zenon, <1>0 DEF GuestRequest, LockMoves, entryVars
<1>3. svc' = svc /\ unloaded' = unloaded
  BY Zenon DEF GuestRequest, svcVars
<1>4. Legal(c, "guest")
  BY Zenon, <1>0, <1>1, Kinds DEF Legal, Keeps
<1>5. (~HoldsOpMu(c)') /\ (c \in Call => tgt'[c] \in VM)
  BY Zenon, <1>0, <1>1, <1>2, Kinds DEF HoldsOpMu, VMOf, Moves, Keeps, LockInv, LockDiscipline
<1> QED BY Zenon, <1>0, <1>1, <1>2, <1>3, <1>4, <1>5, ThreadMove

\* onNonce and recordQuote: booting becomes attesting and the record is
\* saved: keeps the lock layer.
LEMMA onNonceLock == ASSUME TypeInv, LockInv, NEW c \in Call, onNonce(c) PROVE LockInv'
<1>0. c \in Thread /\ tgt[c] \in VM /\ pc[c] = "guest"
  BY Zenon, ActiveVM, Kinds DEF onNonce, TypeInv, LockInv, ThreadKinds
<1>1. Moves(c, "idle")
  BY Zenon, <1>0, ReturnMoves DEF onNonce
<1>2. opMu' = opMu /\ LockMoves(c, tgt[c])
  BY Zenon, <1>0 DEF onNonce, LockMoves, entryVars
<1>3. svc' = svc /\ unloaded' = unloaded
  BY Zenon DEF onNonce, svcVars
<1>4. Legal(c, "idle")
  BY Zenon, <1>0, <1>1, Kinds DEF Legal, Keeps
<1>5. ~HoldsOpMu(c)'
  BY Zenon, <1>1 DEF HoldsOpMu, Moves
<1> QED BY Zenon, <1>0, <1>1, <1>2, <1>3, <1>4, <1>5, ThreadMove

\* A supervisor that returns because the service context is done: keeps the
\* lock layer.
LEMMA SupervisorLeavesLock == ASSUME TypeInv, LockInv, NEW r \in Run, SupervisorLeaves(r) PROVE LockInv'
<1>0. r \in Thread /\ r[1] \in VM /\ pc[r] = "select"
  BY Zenon, ActiveVM, Kinds DEF SupervisorLeaves, TypeInv, LockInv, ThreadKinds
<1>1. Moves(r, "idle")
  BY Zenon, <1>0, ReturnMoves DEF SupervisorLeaves
<1>2. opMu' = opMu /\ LockMoves(r, r[1])
  BY Zenon, <1>0 DEF SupervisorLeaves, LockMoves, entryVars
<1>3. svc' = svc /\ unloaded' = unloaded
  BY Zenon DEF SupervisorLeaves, svcVars
<1>4. Legal(r, "idle")
  BY Zenon, <1>0, <1>1, Kinds DEF Legal, Keeps
<1>5. ~HoldsOpMu(r)'
  BY Zenon, <1>1 DEF HoldsOpMu, Moves
<1> QED BY Zenon, <1>0, <1>1, <1>2, <1>3, <1>4, <1>5, ThreadMove

\* onExit: the entry loses its process, done is closed, the handoff may
\* follow: keeps the lock layer.
LEMMA onExitLock == ASSUME TypeInv, LockInv, NEW r \in Run, onExit(r) PROVE LockInv'
<1>1. CASE Goto(r, "boot")
  <2>0. r \in Thread /\ r[1] \in VM /\ pc[r] = "select"
    BY Zenon, <1>1, ActiveVM, Kinds DEF onExit, TypeInv, LockInv, ThreadKinds
  <2>1. Moves(r, "boot") /\ Keeps(r)
    BY Zenon, <1>1, <2>0, GotoMoves DEF onExit
  <2>2. opMu' = opMu /\ LockMoves(r, r[1])
    BY Zenon, <1>1, <2>0 DEF onExit, LockMoves, entryVars
  <2>3. svc' = svc /\ unloaded' = unloaded
    BY Zenon, <1>1 DEF onExit, svcVars
  <2>4. Legal(r, "boot")
    BY Zenon, <2>0, <2>1, Kinds DEF Legal, Keeps
  <2>5. (~HoldsOpMu(r)') /\ (r \in Call => tgt'[r] \in VM)
    BY Zenon, <2>0, <2>1, <2>2, Kinds DEF HoldsOpMu, VMOf, Moves, Keeps, LockInv, LockDiscipline
  <2> QED BY Zenon, <2>0, <2>1, <2>2, <2>3, <2>4, <2>5, ThreadMove
<1>2. CASE Return(r)
  <2>0. r \in Thread /\ r[1] \in VM /\ pc[r] = "select"
    BY Zenon, <1>2, ActiveVM, Kinds DEF onExit, TypeInv, LockInv, ThreadKinds
  <2>1. Moves(r, "idle")
    BY Zenon, <1>2, <2>0, ReturnMoves DEF onExit
  <2>2. opMu' = opMu /\ LockMoves(r, r[1])
    BY Zenon, <1>2, <2>0 DEF onExit, LockMoves, entryVars
  <2>3. svc' = svc /\ unloaded' = unloaded
    BY Zenon, <1>2 DEF onExit, svcVars
  <2>4. Legal(r, "idle")
    BY Zenon, <2>0, <2>1, Kinds DEF Legal, Keeps
  <2>5. ~HoldsOpMu(r)'
    BY Zenon, <2>1 DEF HoldsOpMu, Moves
  <2> QED BY Zenon, <2>0, <2>1, <2>2, <2>3, <2>4, <2>5, ThreadMove
<1> QED BY Zenon, <1>1, <1>2 DEF onExit

\* boot: the handoff starts phase B under opMu, or is abandoned: keeps the
\* lock layer.
LEMMA BootLock == ASSUME TypeInv, LockInv, NEW r \in Run, Boot(r) PROVE LockInv'
<1>1. CASE Goto(r, "start") /\ opMu' = [opMu EXCEPT ![r[1]] = r]
  <2>0. r \in Thread /\ r[1] \in VM /\ pc[r] = "boot" /\ opMu[r[1]] = Free
    BY Zenon, <1>1, ActiveVM, Kinds DEF Boot, TypeInv, LockInv, ThreadKinds
  <2>1. Moves(r, "start") /\ Keeps(r)
    BY Zenon, <1>1, <2>0, GotoMoves DEF Boot
  <2>2. LockMoves(r, r[1]) /\ opMu'[r[1]] = r
    BY <1>1, <2>0, TakesLock, Zenon DEF Boot
  <2>3. svc' = svc /\ unloaded' = unloaded
    BY Zenon, <1>1 DEF Boot, svcVars
  <2>4. Legal(r, "start")
    BY Zenon, <2>0, <2>1, Kinds DEF Legal, Keeps
  <2>5. (HoldsOpMu(r)' => opMu'[VMOf(r)'] = r) /\ (r \in Call => tgt'[r] \in VM)
    BY Zenon, <2>0, <2>1, <2>2, Kinds DEF HoldsOpMu, VMOf, Moves, Keeps, LockInv, LockDiscipline
  <2> QED BY Zenon, <2>0, <2>1, <2>2, <2>3, <2>4, <2>5, ThreadMove
<1>2. CASE Return(r) /\ UNCHANGED opMu
  <2>0. r \in Thread /\ r[1] \in VM /\ pc[r] = "boot"
    BY Zenon, <1>2, ActiveVM, Kinds DEF Boot, TypeInv, LockInv, ThreadKinds
  <2>1. Moves(r, "idle")
    BY Zenon, <1>2, <2>0, ReturnMoves DEF Boot
  <2>2. opMu' = opMu /\ LockMoves(r, r[1])
    BY Zenon, <1>2, <2>0 DEF Boot, LockMoves, entryVars
  <2>3. svc' = svc /\ unloaded' = unloaded
    BY Zenon, <1>2 DEF Boot, svcVars
  <2>4. Legal(r, "idle")
    BY Zenon, <2>0, <2>1, Kinds DEF Legal, Keeps
  <2>5. ~HoldsOpMu(r)'
    BY Zenon, <2>1 DEF HoldsOpMu, Moves
  <2> QED BY Zenon, <2>0, <2>1, <2>2, <2>3, <2>4, <2>5, ThreadMove
<1> QED BY Zenon, <1>1, <1>2 DEF Boot

\* The visit of Close to one VM, under its opMu: keeps the lock layer.
LEMMA VisitLock == ASSUME TypeInv, LockInv, NEW v \in VM, Visit(v) PROVE LockInv'
<1>1. CASE Return(v) /\ UNCHANGED opMu
  <2>0. v \in Thread /\ v \in VM /\ pc[v] = "visit"
    BY Zenon, <1>1, ActiveVM, Kinds DEF Visit, TypeInv, LockInv, ThreadKinds
  <2>1. Moves(v, "idle")
    BY Zenon, <1>1, <2>0, ReturnMoves DEF Visit
  <2>2. opMu' = opMu /\ LockMoves(v, v)
    BY Zenon, <1>1, <2>0 DEF Visit, LockMoves, entryVars
  <2>3. svc' = svc /\ unloaded' = unloaded
    BY Zenon, <1>1 DEF Visit, svcVars
  <2>4. Legal(v, "idle")
    BY Zenon, <2>0, <2>1, Kinds DEF Legal, Keeps
  <2>5. ~HoldsOpMu(v)'
    BY Zenon, <2>1 DEF HoldsOpMu, Moves
  <2> QED BY Zenon, <2>0, <2>1, <2>2, <2>3, <2>4, <2>5, ThreadMove
<1>2. CASE Goto(v, "Stop") /\ opMu' = [opMu EXCEPT ![v] = v]
  <2>0. v \in Thread /\ v \in VM /\ pc[v] = "visit" /\ opMu[v] = Free
    BY Zenon, <1>2, ActiveVM, Kinds DEF Visit, TypeInv, LockInv, ThreadKinds
  <2>1. Moves(v, "Stop") /\ Keeps(v)
    BY Zenon, <1>2, <2>0, GotoMoves DEF Visit
  <2>2. LockMoves(v, v) /\ opMu'[v] = v
    BY <1>2, <2>0, TakesLock, Zenon DEF Visit
  <2>3. svc' = svc /\ unloaded' = unloaded
    BY Zenon, <1>2 DEF Visit, svcVars
  <2>4. Legal(v, "Stop")
    BY Zenon, <2>0, <2>1, Kinds DEF Legal, Keeps
  <2>5. (HoldsOpMu(v)' => opMu'[VMOf(v)'] = v) /\ (v \in Call => tgt'[v] \in VM)
    BY Zenon, <2>0, <2>1, <2>2, Kinds DEF HoldsOpMu, VMOf, Moves, Keeps, LockInv, LockDiscipline
  <2> QED BY Zenon, <2>0, <2>1, <2>2, <2>3, <2>4, <2>5, ThreadMove
<1> QED BY Zenon, <1>1, <1>2 DEF Visit

\* The commit of a start: the thread leaves opMu, the new supervisor waits in
\* its select.  A start is under way, so Load is over with this VM.
LEMMA CommitLock == ASSUME TypeInv, LockInv, NEW t \in Thread, Commit(t) PROVE LockInv'
<1> DEFINE r == arg[t]
           v == VMOf(t)
<1>0. pc[t] = "commit" /\ v \in VM /\ opMu[v] = t /\ t \notin VM /\ r \in Run /\ r[1] = v
  BY Zenon, ActiveVM, Kinds DEF Commit, TypeInv, LockInv, ThreadKinds, LockDiscipline, HoldsOpMu,
     StartsOwnRun
<1>1. \A u \in Thread : pc'[u] = IF u = r THEN "select" ELSE IF u = t THEN "idle" ELSE pc[u]
  BY Zenon DEF Commit, TypeInv, ThreadInv, ThreadType
<1>2. \A u \in Thread : u # t => op'[u] = op[u] /\ tgt'[u] = tgt[u] /\ arg'[u] = arg[u]
  BY Zenon DEF Commit, TypeInv, ThreadInv, ThreadType
<1>3. \A w \in VM : w # v => opMu'[w] = opMu[w]
  BY Zenon DEF Commit, TypeInv, EntryType
<1>4. svc' = svc /\ unloaded' = unloaded
  BY Zenon DEF Commit, svcVars
<1> HIDE DEF r, v
<1>5. ThreadKinds'
  BY <1>0, <1>1, <1>2, Kinds DEF LockInv, ThreadKinds
<1>6. LockDiscipline'
  <2> SUFFICES ASSUME NEW u \in Thread, HoldsOpMu(u)' PROVE opMu'[VMOf(u)'] = u
    BY Zenon DEF LockDiscipline
  <2>1. u # t /\ u # r
    BY Zenon, <1>0, <1>1, Kinds DEF HoldsOpMu
  <2>2. VMOf(u)' = VMOf(u) /\ HoldsOpMu(u)
    BY Zenon, <2>1, <1>1, <1>2, Kinds DEF VMOf, HoldsOpMu
  <2>3. VMOf(u) \in VM /\ opMu[VMOf(u)] = u
    BY Zenon, <2>2, ActiveVM DEF HoldsOpMu, TypeInv, LockInv, LockDiscipline
  <2> QED BY Zenon, <2>1, <2>2, <2>3, <1>0, <1>3
<1>7. StartsOwnRun'
  <2> SUFFICES ASSUME NEW u \in Thread, pc'[u] = "commit"
               PROVE arg'[u] \in Run /\ arg'[u][1] = VMOf(u)'
    BY Zenon DEF StartsOwnRun
  <2>1. u # t /\ u # r /\ pc[u] = "commit"
    BY Zenon, <1>1
  <2>2. VMOf(u)' = VMOf(u) /\ arg'[u] = arg[u]
    BY Zenon, <2>1, <1>2, Kinds DEF VMOf
  <2> QED BY Zenon, <2>1, <2>2 DEF LockInv, StartsOwnRun
<1>8. svc # "down" /\ r[1] \notin unloaded
  BY Zenon, <1>0, Kinds DEF LockInv, LoadingIsQuiet, VMOf, Thread, v
<1>9. LoadingIsQuiet'
  BY Zenon, <1>0, <1>1, <1>4, <1>8, Kinds DEF LockInv, LoadingIsQuiet
<1> QED BY Zenon, <1>5, <1>6, <1>7, <1>9 DEF LockInv

\* Steps that move no thread: the guest, the launcher, notifications, timers.
LEMMA NoMoveLock ==
  ASSUME LockInv, UNCHANGED threadVars, UNCHANGED opMu, svc' = svc,
         unloaded' \subseteq unloaded
  PROVE LockInv'
<1>1. pc' = pc /\ op' = op /\ tgt' = tgt /\ arg' = arg
  BY Zenon DEF threadVars
<1>2. ThreadKinds' /\ LoadingIsQuiet'
  BY Zenon, <1>1 DEF LockInv, ThreadKinds, LoadingIsQuiet
<1>3. \A t \in Thread : VMOf(t)' = VMOf(t) /\ (HoldsOpMu(t)' <=> HoldsOpMu(t))
  BY Zenon, <1>1 DEF VMOf, HoldsOpMu
<1>4. LockDiscipline' /\ StartsOwnRun'
  BY Zenon, <1>1, <1>3 DEF LockInv, LockDiscipline, StartsOwnRun
<1> QED BY Zenon, <1>2, <1>4 DEF LockInv

\* READY=1, timers, the end of QEMU and the unit watcher move no thread:
\* keeps the lock layer.
LEMMA RunStepLock ==
  ASSUME LockInv, NEW r \in Run, onNotify(r) \/ onTimeout(r) \/ QEMUExits(r) \/ Settle(r)
  PROVE LockInv'
<1>1. UNCHANGED threadVars /\ UNCHANGED opMu /\ svc' = svc /\ unloaded' = unloaded
  BY Zenon DEF onNotify, onTimeout, QEMUExits, Settle, svcVars, entryVars
<1> QED BY Zenon, <1>1, NoMoveLock

\* Load of a record without a process to attach to: keeps the lock layer.
LEMMA LoadSettledLock == ASSUME LockInv, NEW v \in VM, LoadSettled(v) PROVE LockInv'
<1>1. UNCHANGED threadVars /\ UNCHANGED opMu /\ svc' = svc /\ unloaded' \subseteq unloaded
  BY Zenon DEF LoadSettled
<1> QED BY Zenon, <1>1, NoMoveLock

\* A reattached run gets its supervisor while its VM leaves unloaded.
LEMMA ReattachLock ==
  ASSUME TypeInv, LockInv, NEW v \in VM, NEW r \in Run, Reattach(v, r) PROVE LockInv'
<1>1. r \in Thread /\ Moves(r, "select") /\ Keeps(r)
  BY Zenon, Kinds, GotoMoves DEF Reattach
<1>2. /\ svc = "loading" /\ svc' = svc /\ unloaded' = unloaded \ {v} /\ r[1] = v
      /\ opMu' = opMu
  BY Zenon DEF Reattach, Attachable, RunsOf
<1>3. ThreadKinds'
  BY <1>1, Kinds DEF LockInv, ThreadKinds, Moves
<1>4. LoadingIsQuiet'
  BY Zenon, <1>1, <1>2, Kinds DEF LockInv, LoadingIsQuiet, Moves
<1>5. \A u \in Thread : u # r => VMOf(u)' = VMOf(u) /\ (HoldsOpMu(u)' <=> HoldsOpMu(u))
  BY Zenon, <1>1, Others
<1>6. pc'[r] = "select" /\ ~HoldsOpMu(r)'
  BY Zenon, <1>1 DEF Moves, HoldsOpMu
<1>7. LockDiscipline' /\ StartsOwnRun'
  BY <1>1, <1>2, <1>5, <1>6 DEF LockInv, LockDiscipline, StartsOwnRun, Moves
<1> QED BY Zenon, <1>3, <1>4, <1>7 DEF LockInv

\* The service moves on; Close gives every entry a visit.
LEMMA ServiceLock ==
  ASSUME TypeInv, LockInv, Load \/ Serve \/ Close \/ Cancel \/ Closed PROVE LockInv'
<1>1. opMu' = opMu /\ op' = op /\ tgt' = tgt /\ arg' = arg
  BY Zenon DEF Load, Serve, Close, Cancel, Closed, entryVars, threadVars
<1>2. /\ \A t \in Thread : t \notin VM => pc'[t] = pc[t]
      /\ \A v \in VM : pc'[v] = pc[v] \/ (svc' = "visiting" /\ pc'[v] = "visit")
  BY Zenon, Kinds DEF Load, Serve, Close, Cancel, Closed, threadVars
<1>3. \/ svc = "down" /\ svc' = "loading"
      \/ svc # "down" /\ svc' \notin {"down", "loading"} /\ unloaded' = unloaded /\ unloaded = {}
  BY Zenon DEF Load, Serve, Close, Cancel, Closed, LockInv, LoadingIsQuiet
<1>4. ThreadKinds'
  BY Zenon, <1>1, <1>2, Kinds DEF LockInv, ThreadKinds
<1>5. LoadingIsQuiet'
  BY Zenon, <1>2, <1>3, Kinds DEF LockInv, LoadingIsQuiet
<1>6. \A t \in Thread : VMOf(t)' = VMOf(t) /\ (HoldsOpMu(t)' => HoldsOpMu(t))
  BY Zenon, <1>1, <1>2, Kinds DEF VMOf, HoldsOpMu
<1>7. LockDiscipline' /\ StartsOwnRun'
  BY Zenon, <1>1, <1>2, <1>6, Kinds DEF LockInv, LockDiscipline, StartsOwnRun
<1> QED BY Zenon, <1>4, <1>5, <1>7 DEF LockInv

\* The end of vm-manager: every thread and entry is gone, units stay: keeps
\* the lock layer.
LEMMA ProcessEndsLock == ASSUME ProcessEnds PROVE LockInv'
<1>1. svc' = "down" /\ unloaded' = {} /\ \A t \in Thread : pc'[t] = "idle"
  BY Zenon DEF ProcessEnds
<1> QED BY Zenon, <1>1, Kinds DEF LockInv, ThreadKinds, LockDiscipline, HoldsOpMu, StartsOwnRun,
        LoadingIsQuiet

\* A vm-manager that has not started holds no lock.
LEMMA LockInit == Init => LockInv
<1> SUFFICES ASSUME Init PROVE LockInv
  BY Zenon
<1>1. svc = "down" /\ unloaded = {} /\ \A t \in Thread : pc[t] = "idle"
  BY Zenon DEF Init
<1> QED BY Zenon, <1>1, Kinds DEF LockInv, ThreadKinds, LockDiscipline, HoldsOpMu, StartsOwnRun,
        LoadingIsQuiet

\* Every step keeps the lock layer.
LEMMA LockStep == TypeInv /\ LockInv /\ [Next]_vars => LockInv'
<1> SUFFICES ASSUME TypeInv, LockInv, [Next]_vars PROVE LockInv'
  BY Zenon
<1>1. CASE Request
  BY Zenon, <1>1, AllocateLock, GuestRequestLock, BeginLock DEF Request
<1>2. ASSUME NEW c \in Call, CallStep(c) PROVE LockInv'
  BY Zenon, <1>2, LaunchLock, ProvisionLock, StartLock, DeleteLock, DeleteWaitsLock,
     TeardownLock, ForgetLock, onNonceLock DEF CallStep
<1>3. ASSUME NEW t \in Thread, StartStep(t) \/ Commit(t) \/ Stop(t) \/ StopReturns(t)
      PROVE LockInv'
  BY Zenon, <1>3, StartFailsLock, StartQEMULock, CommitLock, StopLock, StopReturnsLock DEF StartStep
<1>4. ASSUME NEW r \in Run, SupervisorStep(r) \/ QEMUExits(r) \/ Settle(r) PROVE LockInv'
  BY Zenon, <1>4, SupervisorLeavesLock, onExitLock, BootLock, RunStepLock DEF SupervisorStep
<1>5. CASE LoadStep
  BY Zenon, <1>5, LoadSettledLock, ReattachLock DEF LoadStep
<1>6. CASE Load \/ Serve \/ Close \/ Cancel \/ Closed
  BY Zenon, <1>6, ServiceLock
<1>7. CASE \E v \in VM : Visit(v)
  BY Zenon, <1>7, VisitLock
<1>8. CASE Exit \/ Crash
  BY Zenon, <1>8, ProcessEndsLock DEF Exit, Crash
<1>9. CASE UNCHANGED vars
  BY Zenon, <1>9, NoMoveLock DEF vars, svcVars, entryVars
<1> QED BY Zenon, <1>1, <1>2, <1>3, <1>4, <1>5, <1>6, <1>7, <1>8, <1>9 DEF Next

\* Whatever calls, supervisors and visits of Close do to a VM at the same
\* time, the one between taking and releasing opMu is its holder.
THEOREM MutualExclusion == Spec => []LockDiscipline
<1>1. LockInv => LockDiscipline
  BY Zenon DEF LockInv
<1> QED BY TypeInit, TypeStep, LockInit, LockStep, <1>1, PTL DEF Spec

-----------------------------------------------------------------------------
(* Processes.                                                              *)

ProcInv ==
  /\ ProcessIsSupervised /\ StartsAlone /\ CallsBootInstalled /\ CreatesFirst
  /\ Tracked /\ OneQEMU

\* The records keep being installed or not, and keep existing.
RecordsKeep ==
  \A w \in VM :
    /\ rec'[w].installed <=> rec[w].installed
    /\ rec[w].state # "none" => rec'[w].state # "none"

\* A thread that has looked its entry up keeps Installing as it was.
LEMMA Installers ==
  ASSUME NEW t \in Thread, NEW l, Moves(t, l), NEW c \in Call, c # t
  PROVE Installing(c)' <=> Installing(c)
  BY Zenon, Kinds DEF Moves, Installing

\* Two threads past opMu of one VM are one.
LEMMA Exclusion ==
  ASSUME LockInv
  PROVE \A t, u \in Thread :
          HoldsOpMu(t) /\ HoldsOpMu(u) /\ VMOf(t) = VMOf(u) => t = u
  BY Zenon DEF LockInv, LockDiscipline

\* A step of one thread that starts, ends and tracks no process.
LEMMA QuietMove ==
  ASSUME TypeInv, LockInv, ProcInv, NEW t \in Thread, NEW l, Moves(t, l),
         proc' = proc, qemu' = qemu, svc' = svc, RecordsKeep,
         l \notin {"select", "commit", "launch"}, pc[t] # "idle" \/ t \in Call, pc[t] # "commit",
         pc[t] = "select" => ctxDone,
         l \in {"start", "provision"} => Keeps(t),
         l = "start" => VMOf(t)' = VMOf(t) /\ proc[VMOf(t)] = NoRun,
         t \in Call /\ l = "start" /\ op[t] # "Create" => rec[tgt[t]].installed /\ tgt[t] \in VM,
         t \in Call /\ l \in {"start", "provision"} /\ op[t] = "Create" => Installing(t)
  PROVE ProcInv'
<1>1. ProcessIsSupervised'
  BY Kinds DEF ProcInv, ProcessIsSupervised, Moves, ctxDone, TypeInv, EntryType
<1>2. StartsAlone'
  <2> SUFFICES ASSUME NEW u \in Thread
               PROVE /\ pc'[u] \in {"start", "commit"} => proc'[VMOf(u)'] = NoRun
                     /\ pc'[u] = "commit" => qemu'[arg'[u]] # "unused"
    BY Zenon DEF StartsAlone
  <2>1. CASE u = t
    BY Zenon, <2>1 DEF Moves
  <2>2. CASE u # t
    BY <2>2, Others DEF Moves, ProcInv, StartsAlone
  <2> QED BY Zenon, <2>1, <2>2
<1>3. CallsBootInstalled'
  <2> SUFFICES ASSUME NEW c \in Call, pc'[c] = "start", op'[c] # "Create"
               PROVE rec'[tgt'[c]].installed
    BY Zenon DEF CallsBootInstalled
  <2>1. CASE c = t
    BY Zenon, <2>1 DEF Moves, Keeps, RecordsKeep
  <2>2. CASE c # t
    BY Zenon, <2>2, Kinds DEF Moves, RecordsKeep, ProcInv, CallsBootInstalled, TypeInv, ThreadInv, Targets
  <2> QED BY Zenon, <2>1, <2>2
<1>4. \A c \in Call : Installing(c)' => Installing(c) /\ tgt'[c] = tgt[c] /\ tgt[c] \in VM
  <2> SUFFICES ASSUME NEW c \in Call, Installing(c)'
               PROVE Installing(c) /\ tgt'[c] = tgt[c] /\ tgt[c] \in VM
    BY Zenon
  <2>1. Installing(c) /\ tgt'[c] = tgt[c]
    <3>1. CASE c = t
      BY Zenon, <3>1 DEF Moves, Keeps, Installing
    <3>2. CASE c # t
      BY Zenon, <3>2, Installers, Kinds DEF Moves
    <3> QED BY Zenon, <3>1, <3>2
  <2>2. tgt[c] \in VM
    BY Zenon, <2>1 DEF Installing, TypeInv, ThreadInv, Targets
  <2> QED BY Zenon, <2>1, <2>2
<1>5. CreatesFirst'
  BY <1>4 DEF ProcInv, CreatesFirst, RecordsKeep
<1>6. Tracked' /\ OneQEMU'
  BY DEF ProcInv, Tracked, OneQEMU, Moves
<1> QED BY Zenon, <1>1, <1>2, <1>3, <1>5, <1>6 DEF ProcInv

-----------------------------------------------------------------------------
(* What the actions do to the records.                                     *)

\* A new state that is not "none" keeps what the process layer reads of the
\* records.
LEMMA StateKeeps ==
  ASSUME TypeInv, NEW v \in VM, NEW s \in State, s # "none",
         Save(v, [rec[v] EXCEPT !.state = s])
  PROVE RecordsKeep
<1> DEFINE x == [rec[v] EXCEPT !.state = s]
<1>1. rec[v] \in Record /\ rec \in [VM -> Record]
  BY Zenon DEF TypeInv, EntryType
<1>2. x.state = s /\ x.installed = rec[v].installed
  BY Zenon, <1>1, SetState
<1>3. rec' = [rec EXCEPT ![v] = x]
  BY Zenon DEF Save
<1> HIDE DEF x
<1> QED BY Zenon, <1>1, <1>2, <1>3 DEF RecordsKeep

\* Saving a record as it is keeps what the process layer reads of the
\* records.
LEMMA SameKeeps ==
  ASSUME TypeInv, NEW v \in VM, Save(v, rec[v]) PROVE RecordsKeep
  BY Zenon DEF Save, RecordsKeep, TypeInv, EntryType

\* Leaving the records alone keeps what the process layer reads of them.
LEMMA UnchangedKeeps == ASSUME rec' = rec PROVE RecordsKeep
  BY Zenon DEF RecordsKeep

-----------------------------------------------------------------------------
(* The actions.                                                            *)

\* launch: the caller waits for opMu and goes on to provision: keeps the
\* process layer.
LEMMA LaunchProc == ASSUME TypeInv, LockInv, ProcInv, NEW c \in Call, Launch(c) PROVE ProcInv'
<1>0. c \in Thread /\ tgt[c] \in VM /\ pc[c] = "launch" /\ Installing(c)
  BY Zenon, ActiveVM, Kinds DEF Launch, TypeInv, LockInv, ThreadKinds, Installing
<1>1. (Moves(c, "provision") /\ Keeps(c))
  BY Zenon, <1>0, GotoMoves DEF Launch
<1>2. proc' = proc /\ qemu' = qemu /\ svc' = svc
  BY Zenon DEF Launch, svcVars, entryVars, runVars
<1>3. RecordsKeep
  BY Zenon, <1>0, UnchangedKeeps DEF Launch, entryVars
<1> QED BY Zenon, <1>0, <1>1, <1>2, <1>3, QuietMove

\* provision: the caller goes on to the start, or to the discard of a failed
\* Create: keeps the process layer.
LEMMA ProvisionProc == ASSUME TypeInv, LockInv, ProcInv, NEW c \in Call, Provision(c) PROVE ProcInv'
<1>0. c \in Thread /\ tgt[c] \in VM /\ pc[c] = "provision" /\ Installing(c) /\ c \notin Run
      /\ VMOf(c) = tgt[c] /\ proc[tgt[c]] = NoRun
  <2>1. c \in Thread /\ c \notin Run /\ c \notin VM /\ pc[c] = "provision"
    BY Zenon, Kinds DEF Provision
  <2>2. op[c] = "Create"
    BY Zenon, <2>1 DEF LockInv, ThreadKinds
  <2>3. VMOf(c) = tgt[c]
    BY Zenon, <2>1 DEF VMOf
  <2>4. tgt[c] \in VM
    BY Zenon, <2>1, <2>3, ActiveVM DEF TypeInv
  <2>5. Installing(c)
    BY Zenon, <2>1, <2>2 DEF Installing
  <2>6. proc[tgt[c]] = NoRun
    BY Zenon, <2>4, <2>5 DEF ProcInv, CreatesFirst, ProcessIsSupervised
  <2> QED BY Zenon, <2>1, <2>3, <2>4, <2>5, <2>6
<1>1. (Moves(c, "start") /\ Keeps(c)) \/ (Moves(c, "teardown") /\ Keeps(c))
  BY Zenon, <1>0, GotoMoves DEF Provision
<1>2. proc' = proc /\ qemu' = qemu /\ svc' = svc
  BY Zenon DEF Provision, svcVars, entryVars, runVars
<1>3. RecordsKeep
  BY Zenon, <1>0, SameKeeps, UnchangedKeeps DEF Provision, entryVars
<1>4. op[c] = "Create" /\ (Keeps(c) => VMOf(c)' = VMOf(c))
  BY Zenon, <1>0, Kinds DEF Installing, VMOf, Keeps
<1> QED BY Zenon, <1>0, <1>1, <1>2, <1>3, <1>4, QuietMove

\* A failed startProcess: the discard of a Create, fail() for a boot: keeps
\* the process layer.
LEMMA StartFailsProc == ASSUME TypeInv, LockInv, ProcInv, NEW t \in Thread, StartFails(t) PROVE ProcInv'
<1>0. t \in Thread /\ VMOf(t) \in VM /\ pc[t] = "start"
  BY Zenon, ActiveVM, Kinds DEF StartFails, TypeInv, LockInv, ThreadKinds
<1>1. (Moves(t, "teardown") /\ Keeps(t)) \/ Moves(t, "idle")
  BY Zenon, <1>0, GotoMoves, ReturnMoves DEF StartFails
<1>2. proc' = proc /\ qemu' = qemu /\ svc' = svc
  BY Zenon DEF StartFails, svcVars, entryVars, runVars
<1>3. RecordsKeep
  BY <1>0, StateKeeps, SameKeeps, UnchangedKeeps, Zenon DEF StartFails, entryVars, State
<1> QED BY Zenon, <1>0, <1>1, <1>2, <1>3, QuietMove

\* The lookup of the entry at the head of Start, Stop, Reboot and Delete:
\* keeps the process layer.
LEMMA BeginProc == ASSUME TypeInv, LockInv, ProcInv, NEW c \in Call, NEW v \in VM, NEW o \in Ops, Begin(c, v, o) PROVE ProcInv'
<1> DEFINE l == IF o = "Reboot" THEN "Stop" ELSE o
<1>0. c \in Thread /\ c \notin Run /\ pc[c] = "idle"
  BY Zenon, Kinds DEF Begin
<1>1. Moves(c, l) /\ l \in {"Start", "Stop", "Delete"}
  BY Zenon, <1>0, EnterMoves DEF Begin
<1>2. proc' = proc /\ qemu' = qemu /\ svc' = svc /\ RecordsKeep
  BY Zenon, UnchangedKeeps DEF Begin, svcVars, entryVars, runVars
<1> HIDE DEF l
<1> QED BY Zenon, <1>0, <1>1, <1>2, QuietMove

\* Start: refused, or opMu taken and on to startProcess: keeps the process
\* layer.
LEMMA StartProc == ASSUME TypeInv, LockInv, ProcInv, NEW c \in Call, Start(c) PROVE ProcInv'
<1>0. c \in Thread /\ tgt[c] \in VM /\ pc[c] = "Start" /\ c \notin Run /\ op[c] # "Create"
  BY Zenon, Kinds DEF Start, LockInv, ThreadKinds
<1>1. proc' = proc /\ qemu' = qemu /\ svc' = svc /\ RecordsKeep
  BY Zenon, UnchangedKeeps DEF Start, svcVars, runVars
<1>2. CASE Return(c)
  <2>1. Moves(c, "idle")
    BY Zenon, <1>0, <1>2, ReturnMoves
  <2> QED BY Zenon, <1>0, <1>1, <2>1, QuietMove
<1>3. CASE ~StartRefused(tgt[c]) /\ Goto(c, "start")
  <2>1. Moves(c, "start") /\ Keeps(c)
    BY Zenon, <1>0, <1>3, GotoMoves
  <2>2. VMOf(c) = tgt[c] /\ VMOf(c)' = VMOf(c)
    BY Zenon, <1>0, <2>1, Kinds DEF VMOf, Keeps
  <2>3. proc[tgt[c]] = NoRun /\ rec[tgt[c]].installed
    BY Zenon, <1>3 DEF StartRefused
  <2> QED BY Zenon, <1>0, <1>1, <2>1, <2>2, <2>3, QuietMove
<1> QED BY Zenon, <1>2, <1>3 DEF Start

\* Stop and Reboot and the stop of a Close: refused, or stopping with the
\* record saying so: keeps the process layer.
LEMMA StopProc == ASSUME TypeInv, LockInv, ProcInv, NEW t \in Thread, Stop(t) PROVE ProcInv'
<1>0. t \in Thread /\ VMOf(t) \in VM /\ pc[t] = "Stop"
  BY Zenon, ActiveVM, Kinds DEF Stop, TypeInv, LockInv, ThreadKinds
<1>1. Moves(t, "stopping") \/ Moves(t, "idle")
  BY Zenon, <1>0, HoldMoves, ReturnMoves DEF Stop
<1>2. proc' = proc /\ qemu' = qemu /\ svc' = svc
  BY Zenon DEF Stop, svcVars, entryVars, runVars
<1>3. RecordsKeep
  BY <1>0, StateKeeps, SameKeeps, UnchangedKeeps, Zenon DEF Stop, entryVars, State
<1> QED BY Zenon, <1>0, <1>1, <1>2, <1>3, QuietMove

\* stopProcess: p.done is closed; Reboot goes on to Start: keeps the process
\* layer.
LEMMA StopReturnsProc == ASSUME TypeInv, LockInv, ProcInv, NEW t \in Thread, StopReturns(t) PROVE ProcInv'
<1>0. t \in Thread /\ VMOf(t) \in VM /\ pc[t] = "stopping"
  BY Zenon, ActiveVM, Kinds DEF StopReturns, TypeInv, LockInv, ThreadKinds
<1>1. (Moves(t, "Start") /\ Keeps(t)) \/ Moves(t, "idle")
  BY Zenon, <1>0, GotoMoves, ReturnMoves DEF StopReturns
<1>2. proc' = proc /\ qemu' = qemu /\ svc' = svc
  BY Zenon DEF StopReturns, svcVars, entryVars, runVars
<1>3. RecordsKeep
  BY Zenon, <1>0, UnchangedKeeps DEF StopReturns, entryVars
<1> QED BY Zenon, <1>0, <1>1, <1>2, <1>3, QuietMove

\* Delete: opMu taken, the record deleting, on to the wait or to the
\* teardown: keeps the process layer.
LEMMA DeleteProc == ASSUME TypeInv, LockInv, ProcInv, NEW c \in Call, Delete(c) PROVE ProcInv'
<1>0. c \in Thread /\ tgt[c] \in VM /\ pc[c] = "Delete"
  BY Zenon, ActiveVM, Kinds DEF Delete, TypeInv, LockInv, ThreadKinds
<1>1. Moves(c, "teardown") \/ Moves(c, "deleting") \/ Moves(c, "idle")
  BY Zenon, <1>0, HoldMoves, ReturnMoves DEF Delete
<1>2. proc' = proc /\ qemu' = qemu /\ svc' = svc
  BY Zenon DEF Delete, svcVars, entryVars, runVars
<1>3. RecordsKeep
  BY <1>0, StateKeeps, SameKeeps, UnchangedKeeps, Zenon DEF Delete, entryVars, State
<1> QED BY Zenon, <1>0, <1>1, <1>2, <1>3, QuietMove

\* The wait of Delete for p.done: keeps the process layer.
LEMMA DeleteWaitsProc == ASSUME TypeInv, LockInv, ProcInv, NEW c \in Call, DeleteWaits(c) PROVE ProcInv'
<1>0. c \in Thread /\ tgt[c] \in VM /\ pc[c] = "deleting"
  BY Zenon, ActiveVM, Kinds DEF DeleteWaits, TypeInv, LockInv, ThreadKinds
<1>1. (Moves(c, "teardown") /\ Keeps(c))
  BY Zenon, <1>0, GotoMoves DEF DeleteWaits
<1>2. proc' = proc /\ qemu' = qemu /\ svc' = svc
  BY Zenon DEF DeleteWaits, svcVars, entryVars, runVars
<1>3. RecordsKeep
  BY Zenon, <1>0, UnchangedKeeps DEF DeleteWaits, entryVars
<1> QED BY Zenon, <1>0, <1>1, <1>2, <1>3, QuietMove

\* teardown: the directory is removed with vm.json: keeps the process layer.
LEMMA TeardownProc == ASSUME TypeInv, LockInv, ProcInv, NEW c \in Call, Teardown(c) PROVE ProcInv'
<1>0. c \in Thread /\ tgt[c] \in VM /\ pc[c] = "teardown"
  BY Zenon, ActiveVM, Kinds DEF Teardown, TypeInv, LockInv, ThreadKinds
<1>1. (Moves(c, "forget") /\ Keeps(c))
  BY Zenon, <1>0, GotoMoves DEF Teardown
<1>2. proc' = proc /\ qemu' = qemu /\ svc' = svc
  BY Zenon DEF Teardown, svcVars, entryVars, runVars
<1>3. RecordsKeep
  BY Zenon, <1>0, UnchangedKeeps DEF Teardown, entryVars
<1> QED BY Zenon, <1>0, <1>1, <1>2, <1>3, QuietMove

\* The removal of the entry at the end of Delete and of discard: keeps the
\* process layer.
LEMMA ForgetProc == ASSUME TypeInv, LockInv, ProcInv, NEW c \in Call, Forget(c) PROVE ProcInv'
<1>0. c \in Thread /\ tgt[c] \in VM /\ pc[c] = "forget"
  BY Zenon, ActiveVM, Kinds DEF Forget, TypeInv, LockInv, ThreadKinds
<1>1. Moves(c, "idle")
  BY Zenon, <1>0, ReturnMoves DEF Forget
<1>2. proc' = proc /\ qemu' = qemu /\ svc' = svc
  BY Zenon DEF Forget, svcVars, entryVars, runVars
<1>3. RecordsKeep
  BY Zenon, <1>0, UnchangedKeeps DEF Forget, entryVars
<1> QED BY Zenon, <1>0, <1>1, <1>2, <1>3, QuietMove

\* A metadata request that LookupByIP resolves: keeps the process layer.
LEMMA GuestRequestProc == ASSUME TypeInv, LockInv, ProcInv, NEW c \in Call, NEW v \in VM, GuestRequest(c, v) PROVE ProcInv'
<1>0. c \in Thread /\ v \in VM /\ pc[c] = "idle"
  BY Zenon, ActiveVM, Kinds DEF GuestRequest, TypeInv, LockInv, ThreadKinds
<1>1. Moves(c, "guest")
  BY Zenon, <1>0, EnterMoves DEF GuestRequest
<1>2. proc' = proc /\ qemu' = qemu /\ svc' = svc
  BY Zenon DEF GuestRequest, svcVars, entryVars, runVars
<1>3. RecordsKeep
  BY Zenon, <1>0, UnchangedKeeps DEF GuestRequest, entryVars
<1> QED BY Zenon, <1>0, <1>1, <1>2, <1>3, QuietMove

\* onNonce and recordQuote: booting becomes attesting and the record is
\* saved: keeps the process layer.
LEMMA onNonceProc == ASSUME TypeInv, LockInv, ProcInv, NEW c \in Call, onNonce(c) PROVE ProcInv'
<1>0. c \in Thread /\ tgt[c] \in VM /\ pc[c] = "guest"
  BY Zenon, ActiveVM, Kinds DEF onNonce, TypeInv, LockInv, ThreadKinds
<1>1. Moves(c, "idle")
  BY Zenon, <1>0, ReturnMoves DEF onNonce
<1>2. proc' = proc /\ qemu' = qemu /\ svc' = svc
  BY Zenon DEF onNonce, svcVars, entryVars, runVars
<1>3. RecordsKeep
  BY <1>0, StateKeeps, SameKeeps, UnchangedKeeps, Zenon DEF onNonce, entryVars, State
<1> QED BY Zenon, <1>0, <1>1, <1>2, <1>3, QuietMove

\* A supervisor that returns because the service context is done: keeps the
\* process layer.
LEMMA SupervisorLeavesProc == ASSUME TypeInv, LockInv, ProcInv, NEW r \in Run, SupervisorLeaves(r) PROVE ProcInv'
<1>0. r \in Thread /\ r[1] \in VM /\ pc[r] = "select" /\ ctxDone
  BY Zenon, ActiveVM, Kinds DEF SupervisorLeaves, TypeInv, LockInv, ThreadKinds
<1>1. Moves(r, "idle")
  BY Zenon, <1>0, ReturnMoves DEF SupervisorLeaves
<1>2. proc' = proc /\ qemu' = qemu /\ svc' = svc
  BY Zenon DEF SupervisorLeaves, svcVars, entryVars, runVars
<1>3. RecordsKeep
  BY Zenon, <1>0, UnchangedKeeps DEF SupervisorLeaves, entryVars
<1> QED BY Zenon, <1>0, <1>1, <1>2, <1>3, QuietMove

\* The visit of Close to one VM, under its opMu: keeps the process layer.
LEMMA VisitProc == ASSUME TypeInv, LockInv, ProcInv, NEW v \in VM, Visit(v) PROVE ProcInv'
<1>0. v \in Thread /\ v \in VM /\ pc[v] = "visit"
  BY Zenon, ActiveVM, Kinds DEF Visit, TypeInv, LockInv, ThreadKinds
<1>1. Moves(v, "idle") \/ (Moves(v, "Stop") /\ Keeps(v))
  BY Zenon, <1>0, GotoMoves, ReturnMoves DEF Visit
<1>2. proc' = proc /\ qemu' = qemu /\ svc' = svc
  BY Zenon DEF Visit, svcVars, entryVars, runVars
<1>3. RecordsKeep
  BY Zenon, <1>0, UnchangedKeeps DEF Visit, entryVars
<1> QED BY Zenon, <1>0, <1>1, <1>2, <1>3, QuietMove

\* boot: the handoff starts phase B under opMu, or is abandoned: keeps the
\* process layer.
LEMMA BootProc == ASSUME TypeInv, LockInv, ProcInv, NEW r \in Run, Boot(r) PROVE ProcInv'
<1>0. r \in Thread /\ r[1] \in VM /\ pc[r] = "boot" /\ r \notin Call /\ VMOf(r) = r[1] /\ VMOf(r)' = r[1]
  BY Zenon, Kinds DEF Boot, VMOf
<1>1. proc' = proc /\ qemu' = qemu /\ svc' = svc
  BY Zenon DEF Boot, svcVars, runVars
<1>2. RecordsKeep
  BY <1>0, StateKeeps, UnchangedKeeps, Zenon DEF Boot, HandoffAbandoned, State
<1>3. CASE HandoffDue(r[1]) /\ Goto(r, "start")
  <2>1. Moves(r, "start") /\ Keeps(r)
    BY Zenon, <1>0, <1>3, GotoMoves
  <2>2. proc[r[1]] = NoRun
    BY Zenon, <1>3 DEF HandoffDue
  <2> QED BY Zenon, <1>0, <1>1, <1>2, <2>1, <2>2, QuietMove
<1>4. CASE Return(r)
  <2>1. Moves(r, "idle")
    BY Zenon, <1>0, <1>4, ReturnMoves
  <2> QED BY Zenon, <1>0, <1>1, <1>2, <2>1, QuietMove
<1> QED BY Zenon, <1>3, <1>4 DEF Boot

-----------------------------------------------------------------------------
(* The steps that start, end or take over a process, and the theorems: one *)
(* QEMU per VM, and one supervisor per process.                            *)

\* A new id has no process, no run and no call at work on it.
LEMMA AllocateProc ==
  ASSUME TypeInv, LockInv, ProcInv, NEW c \in Call, NEW v \in VM, Allocate(c, v)
  PROVE ProcInv'
<1>0. /\ c \in Thread /\ c \notin Run /\ pc[c] = "idle" /\ svc = "serving"
      /\ rec[v] = NoRecord /\ \A r \in Run : r[1] = v => qemu[r] = "unused"
  BY Zenon, Kinds DEF Allocate, FreshID, RunsOf
<1>1. Moves(c, "launch") /\ op'[c] = "Create" /\ tgt'[c] = v
  BY Zenon, <1>0, EnterMoves DEF Allocate
<1>2. proc' = proc /\ qemu' = qemu /\ svc' = svc
  BY Zenon DEF Allocate, svcVars, runVars
<1>3. /\ rec'[v].state = "creating" /\ ~rec'[v].installed
      /\ \A w \in VM : w # v => rec'[w] = rec[w]
  BY Zenon DEF Allocate, Save, NoRecord, TypeInv, EntryType
<1>4. rec[v].state = "none" /\ ~rec[v].installed
  BY <1>0 DEF NoRecord
<1>5. ProcessIsSupervised'
  BY <1>0, <1>1, <1>2, Kinds DEF ProcInv, ProcessIsSupervised, Moves, ctxDone, TypeInv, EntryType
<1>6. StartsAlone'
  <2> SUFFICES ASSUME NEW u \in Thread, pc'[u] \in {"start", "commit"}
               PROVE /\ proc'[VMOf(u)'] = NoRun
                     /\ pc'[u] = "commit" => qemu'[arg'[u]] # "unused"
    BY Zenon DEF StartsAlone
  <2>1. u # c
    BY Zenon, <1>1 DEF Moves
  <2> QED BY Zenon, <2>1, <1>0, <1>1, <1>2, Others DEF Moves, ProcInv, StartsAlone
<1>7. CallsBootInstalled'
  <2> SUFFICES ASSUME NEW d \in Call, pc'[d] = "start", op'[d] # "Create"
               PROVE rec'[tgt'[d]].installed
    BY Zenon DEF CallsBootInstalled
  <2>1. d # c
    BY Zenon, <1>1 DEF Moves
  <2>2. pc[d] = "start" /\ op[d] # "Create" /\ tgt'[d] = tgt[d] /\ tgt[d] \in VM
    BY Zenon, <2>1, <1>1, Kinds DEF Moves, TypeInv, ThreadInv, Targets
  <2>3. rec[tgt[d]].installed
    BY Zenon, <2>2 DEF ProcInv, CallsBootInstalled
  <2> QED BY Zenon, <2>2, <2>3, <1>3, <1>4
<1>8. \A d \in Call : d # c /\ Installing(d)' =>
        Installing(d) /\ tgt'[d] = tgt[d] /\ tgt[d] \in VM /\ tgt[d] # v
  <2> SUFFICES ASSUME NEW d \in Call, d # c, Installing(d)'
               PROVE Installing(d) /\ tgt'[d] = tgt[d] /\ tgt[d] \in VM /\ tgt[d] # v
    BY Zenon
  <2>1. Installing(d) /\ tgt'[d] = tgt[d]
    BY Zenon, <1>0, <1>1, Installers, Kinds DEF Moves
  <2>2. tgt[d] \in VM /\ rec[tgt[d]].state # "none"
    BY Zenon, <2>1 DEF Installing, TypeInv, ThreadInv, Targets, ProcInv, CreatesFirst
  <2> QED BY Zenon, <2>1, <2>2, <1>4
<1>9. CreatesFirst'
  BY <1>0, <1>1, <1>2, <1>3, <1>8 DEF ProcInv, CreatesFirst
<1>10. Tracked' /\ OneQEMU'
  BY <1>0, <1>1, <1>2 DEF ProcInv, Tracked, OneQEMU, Moves
<1> QED BY Zenon, <1>5, <1>6, <1>7, <1>9, <1>10 DEF ProcInv

\* The launcher starts QEMU for a thread inside opMu: no other start is under
\* way for the VM and its entry has no process, so no other run of it is up
\* (with units the launcher itself refuses).
LEMMA StartQEMUProc ==
  ASSUME TypeInv, LockInv, ProcInv, NEW t \in Thread, NEW r \in Run, StartQEMU(t, r)
  PROVE ProcInv'
<1> DEFINE v == VMOf(t)
<1>0. /\ pc[t] = "start" /\ v \in VM /\ r[1] = v /\ proc[v] = NoRun
      /\ HoldsOpMu(t) /\ t \notin VM /\ qemu[r] = "unused"
  BY Zenon, ActiveVM, Kinds DEF StartQEMU, FreshRun, RunsOf, TypeInv, LockInv, ThreadKinds,
     ProcInv, StartsAlone, HoldsOpMu
<1>1. Moves(t, "commit") /\ Keeps(t) /\ arg'[t] = r
  BY Zenon, HoldMoves DEF StartQEMU
<1>2. proc' = proc /\ rec' = rec /\ svc' = svc
  BY Zenon DEF StartQEMU, svcVars, entryVars
<1>3. /\ qemu'[r] = "running"
      /\ \A q \in Run : q # r => qemu'[q] = qemu[q] \/ (qemu[q] = "ended" /\ qemu'[q] = "released")
      /\ \A q \in Run : q[1] # v => qemu'[q] = qemu[q]
  BY Zenon, <1>0 DEF StartQEMU
<1>4. VMOf(t)' = v
  BY Zenon, <1>1, Kinds DEF Keeps, VMOf
<1>5. \A q \in Run : q[1] = v => qemu[q] # "running"
  <2> SUFFICES ASSUME NEW q \in Run, q[1] = v, qemu[q] = "running" PROVE FALSE
    BY Zenon
  <2>1. CASE Systemd
    BY Zenon, <2>1 DEF StartQEMU, UnitFree, Running, RunsOf
  <2>2. CASE ~Systemd
    <3>1. PICK u \in Thread : pc[u] = "commit" /\ arg[u] = q
      BY Zenon, <2>2, <1>0, Kinds DEF ProcInv, Tracked
    <3>2. VMOf(u) = v /\ HoldsOpMu(u) /\ u # t
      BY Zenon, <3>1, <1>0 DEF LockInv, StartsOwnRun, HoldsOpMu
    <3> QED BY Zenon, <3>2, <1>0, Exclusion
  <2> QED BY Zenon, <2>1, <2>2
<1> HIDE DEF v
<1>6. ProcessIsSupervised'
  BY <1>0, <1>1, <1>2, <1>3, Kinds DEF ProcInv, ProcessIsSupervised, Moves, ctxDone, TypeInv, EntryType
<1>7. StartsAlone'
  <2> SUFFICES ASSUME NEW u \in Thread
               PROVE /\ pc'[u] \in {"start", "commit"} => proc'[VMOf(u)'] = NoRun
                     /\ pc'[u] = "commit" => qemu'[arg'[u]] # "unused"
    BY Zenon DEF StartsAlone
  <2>1. CASE u = t
    BY Zenon, <2>1, <1>0, <1>1, <1>2, <1>3, <1>4 DEF Moves
  <2>2. CASE u # t
    <3>1. pc'[u] = pc[u] /\ arg'[u] = arg[u] /\ VMOf(u)' = VMOf(u)
      BY Zenon, <2>2, <1>1, Others DEF Moves
    <3>2. pc[u] \in {"start", "commit"} => proc[VMOf(u)] = NoRun
      BY Zenon DEF ProcInv, StartsAlone
    <3>3. ASSUME pc[u] = "commit" PROVE qemu'[arg[u]] # "unused"
      <4>1. arg[u] \in Run /\ qemu[arg[u]] # "unused"
        BY Zenon, <3>3 DEF LockInv, StartsOwnRun, ProcInv, StartsAlone
      <4> QED BY Zenon, <4>1, <1>3
    <3> QED BY Zenon, <3>1, <3>2, <3>3, <1>2
  <2> QED BY Zenon, <2>1, <2>2
<1>8. CallsBootInstalled'
  BY Zenon, <1>1, <1>2, Kinds DEF Moves, ProcInv, CallsBootInstalled
<1>9. \A d \in Call : Installing(d)' => Installing(d) /\ tgt'[d] = tgt[d] /\ tgt[d] # v
  <2> SUFFICES ASSUME NEW d \in Call, Installing(d)'
               PROVE Installing(d) /\ tgt'[d] = tgt[d] /\ tgt[d] # v
    BY Zenon
  <2>1. d # t
    BY Zenon, <1>1 DEF Moves, Installing
  <2>2. Installing(d) /\ tgt'[d] = tgt[d] /\ VMOf(d) = tgt[d]
    BY Zenon, <2>1, <1>1, Installers, Kinds DEF Moves, VMOf
  <2>3. ASSUME tgt[d] = v PROVE FALSE
    <3>1. ~rec[v].installed /\ \A q \in Run : q[1] = v => qemu[q] = "unused"
      BY Zenon, <2>2, <2>3 DEF ProcInv, CreatesFirst
    <3>2. t \in Call
      BY Zenon, <1>0, <3>1, Kinds DEF Thread, ProcInv, ProcessIsSupervised, VMOf, v
    <3>3. tgt[t] = v
      BY Zenon, <3>2, Kinds DEF VMOf, v
    <3>4. op[t] = "Create"
      BY Zenon, <1>0, <3>1, <3>2, <3>3 DEF ProcInv, CallsBootInstalled
    <3> QED BY Zenon, <1>0, <2>1, <2>2, <2>3, <3>2, <3>3, <3>4 DEF Installing, ProcInv, CreatesFirst
  <2> QED BY Zenon, <2>2, <2>3
<1>10. CreatesFirst'
  BY <1>2, <1>3, <1>9 DEF ProcInv, CreatesFirst
<1>11. Tracked'
  BY <1>0, <1>1, <1>2, <1>3 DEF ProcInv, Tracked, Moves
<1>12. OneQEMU'
  BY Zenon, <1>0, <1>3, <1>5 DEF ProcInv, OneQEMU
<1> QED BY Zenon, <1>6, <1>7, <1>8, <1>10, <1>11, <1>12 DEF ProcInv

\* The record takes the process over: it had none, and the committing thread is
\* alone inside opMu.
LEMMA CommitProc ==
  ASSUME TypeInv, LockInv, ProcInv, NEW t \in Thread, Commit(t) PROVE ProcInv'
<1> DEFINE v == VMOf(t)
           r == arg[t]
<1>0. /\ pc[t] = "commit" /\ v \in VM /\ r \in Run /\ r[1] = v /\ proc[v] = NoRun
      /\ HoldsOpMu(t) /\ t \notin VM /\ qemu[r] # "unused"
  BY Zenon, ActiveVM, Kinds DEF Commit, TypeInv, LockInv, ThreadKinds, StartsOwnRun,
     ProcInv, StartsAlone, HoldsOpMu
<1>1. \A u \in Thread : pc'[u] = IF u = r THEN "select" ELSE IF u = t THEN "idle" ELSE pc[u]
  BY Zenon DEF Commit, TypeInv, ThreadInv, ThreadType
<1>2. \A u \in Thread : u # t => op'[u] = op[u] /\ tgt'[u] = tgt[u] /\ arg'[u] = arg[u]
  BY Zenon DEF Commit, TypeInv, ThreadInv, ThreadType
<1>3. proc'[v] = r /\ \A w \in VM : w # v => proc'[w] = proc[w]
  BY Zenon, <1>0 DEF Commit, TypeInv, EntryType
<1>4. qemu' = qemu /\ svc' = svc
  BY Zenon DEF Commit, svcVars
<1>5. RecordsKeep
  <2> DEFINE x == [rec[v] EXCEPT
                     !.state = IF PhaseOf(t) = "install" THEN "installing" ELSE "booting",
                     !.phase = PhaseOf(t), !.handles = TRUE]
  <2>1. rec[v] \in Record /\ rec \in [VM -> Record]
    BY Zenon, <1>0 DEF TypeInv, EntryType
  <2>2. x.state # "none" /\ x.installed = rec[v].installed
    BY Zenon, <2>1 DEF Record
  <2>3. rec' = [rec EXCEPT ![v] = x]
    BY Zenon DEF Commit, Save
  <2> HIDE DEF x
  <2> QED BY Zenon, <1>0, <2>1, <2>2, <2>3 DEF RecordsKeep
<1>6. \A u \in Thread : HoldsOpMu(u) /\ VMOf(u) = v => u = t
  BY Zenon, <1>0, Exclusion
<1>7. \A u \in Thread : u # t => VMOf(u)' = VMOf(u)
  BY Zenon, <1>2, Kinds DEF VMOf
<1> HIDE DEF v, r
<1>8. ProcessIsSupervised'
  BY <1>0, <1>1, <1>3, <1>4, Kinds DEF ProcInv, ProcessIsSupervised, ctxDone
<1>9. StartsAlone'
  <2> SUFFICES ASSUME NEW u \in Thread, pc'[u] \in {"start", "commit"}
               PROVE /\ proc'[VMOf(u)'] = NoRun
                     /\ pc'[u] = "commit" => qemu'[arg'[u]] # "unused"
    BY Zenon DEF StartsAlone
  <2>1. u # t /\ pc'[u] = pc[u] /\ VMOf(u)' = VMOf(u)
    BY Zenon, <1>1, <1>7
  <2>2. VMOf(u) \in VM /\ VMOf(u) # v
    BY Zenon, <2>1, <1>6, ActiveVM DEF HoldsOpMu, TypeInv
  <2> QED BY Zenon, <2>1, <2>2, <1>2, <1>3, <1>4 DEF ProcInv, StartsAlone
<1>10. CallsBootInstalled'
  BY Zenon, <1>0, <1>1, <1>2, <1>5, Kinds DEF ProcInv, CallsBootInstalled, RecordsKeep, TypeInv,
     ThreadInv, Targets
<1>11. \A d \in Call : Installing(d)' => Installing(d) /\ tgt'[d] = tgt[d] /\ tgt[d] \in VM
  BY Zenon, <1>0, <1>1, <1>2, Kinds DEF Installing, TypeInv, ThreadInv, Targets
<1>12. CreatesFirst'
  BY <1>4, <1>5, <1>11 DEF ProcInv, CreatesFirst, RecordsKeep
<1>13. Tracked'
  <2> SUFFICES ASSUME ~Systemd, NEW q \in Run, qemu'[q] = "running", proc'[q[1]] # q
               PROVE \E u \in Thread : pc'[u] = "commit" /\ arg'[u] = q
    BY Zenon DEF Tracked
  <2>1. proc[q[1]] # q
    BY Zenon, <1>0, <1>3, Kinds
  <2>2. PICK u \in Thread : pc[u] = "commit" /\ arg[u] = q
    BY Zenon, <2>1, <1>4 DEF ProcInv, Tracked
  <2>3. u # t
    BY Zenon, <2>2, <1>0, <1>3 DEF r
  <2>4. u # r
    BY Zenon, <2>2, <2>3, <1>0, <1>6, Kinds DEF HoldsOpMu, VMOf
  <2> QED BY Zenon, <2>2, <2>3, <2>4, <1>1, <1>2
<1>14. OneQEMU'
  BY Zenon, <1>4 DEF ProcInv, OneQEMU
<1> QED BY Zenon, <1>8, <1>9, <1>10, <1>12, <1>13, <1>14 DEF ProcInv

\* The exit of a process clears the entry of its VM, and no other.
LEMMA onExitProc ==
  ASSUME TypeInv, LockInv, ProcInv, NEW r \in Run, onExit(r) PROVE ProcInv'
<1> DEFINE v == r[1]
<1>0. r \in Thread /\ r \notin Call /\ v \in VM /\ pc[r] = "select" /\ qemu[r] = "released" /\ proc[v] = r
  BY Zenon, Kinds DEF onExit, ProcInv, ProcessIsSupervised
<1>1. Moves(r, "boot") \/ Moves(r, "idle")
  BY Zenon, <1>0, GotoMoves, ReturnMoves DEF onExit
<1>2. proc'[v] = NoRun /\ \A w \in VM : w # v => proc'[w] = proc[w]
  BY Zenon, <1>0 DEF onExit, TypeInv, EntryType
<1>3. qemu' = qemu /\ svc' = svc
  BY Zenon DEF onExit, svcVars
<1>4. /\ \A w \in VM : w # v => rec'[w] = rec[w]
      /\ rec[v].installed => rec'[v].installed
  <2> DEFINE x == [rec[v] EXCEPT !.state = ExitState(r), !.handles = FALSE,
                                 !.installed = @ \/ InstallSucceeded(r)]
  <2>1. rec[v] \in Record /\ rec \in [VM -> Record]
    BY Zenon, <1>0 DEF TypeInv, EntryType
  <2>2. rec[v].installed => x.installed
    BY Zenon, <2>1 DEF Record
  <2>3. rec' = [rec EXCEPT ![v] = x]
    BY Zenon DEF onExit, Save
  <2> HIDE DEF x
  <2> QED BY Zenon, <1>0, <2>1, <2>2, <2>3
<1> HIDE DEF v
<1>5. ProcessIsSupervised'
  BY <1>0, <1>1, <1>2, <1>3, Kinds DEF ProcInv, ProcessIsSupervised, ctxDone, Moves, v
<1>6. StartsAlone'
  <2> SUFFICES ASSUME NEW u \in Thread, pc'[u] \in {"start", "commit"}
               PROVE /\ proc'[VMOf(u)'] = NoRun
                     /\ pc'[u] = "commit" => qemu'[arg'[u]] # "unused"
    BY Zenon DEF StartsAlone
  <2>1. u # r /\ pc'[u] = pc[u] /\ arg'[u] = arg[u]
    BY Zenon, <1>1 DEF Moves
  <2>2. VMOf(u)' = VMOf(u)
    BY Zenon, <2>1, <1>0, <1>1, Others
  <2>3. VMOf(u) \in VM
    BY Zenon, <2>1, ActiveVM DEF TypeInv
  <2> QED BY Zenon, <2>1, <2>2, <2>3, <1>2, <1>3 DEF ProcInv, StartsAlone
<1>7. CallsBootInstalled'
  <2> SUFFICES ASSUME NEW c \in Call, pc'[c] = "start", op'[c] # "Create"
               PROVE rec'[tgt'[c]].installed
    BY Zenon DEF CallsBootInstalled
  <2>1. pc[c] = "start" /\ op[c] # "Create" /\ tgt'[c] = tgt[c] /\ tgt[c] \in VM
    BY Zenon, <1>0, <1>1, Kinds DEF Moves, TypeInv, ThreadInv, Targets
  <2>2. rec[tgt[c]].installed
    BY Zenon, <2>1 DEF ProcInv, CallsBootInstalled
  <2> QED BY Zenon, <2>1, <2>2, <1>4
<1>8. \A d \in Call : Installing(d)' => Installing(d) /\ tgt'[d] = tgt[d] /\ tgt[d] \in VM /\ tgt[d] # v
  <2> SUFFICES ASSUME NEW d \in Call, Installing(d)'
               PROVE Installing(d) /\ tgt'[d] = tgt[d] /\ tgt[d] \in VM /\ tgt[d] # v
    BY Zenon
  <2>1. Installing(d) /\ tgt'[d] = tgt[d]
    BY Zenon, <1>0, <1>1, Installers, Kinds DEF Moves
  <2>2. tgt[d] \in VM
    BY Zenon, <2>1 DEF Installing, TypeInv, ThreadInv, Targets
  <2>3. tgt[d] # v
    BY Zenon, <2>1, <1>0 DEF ProcInv, CreatesFirst, v
  <2> QED BY Zenon, <2>1, <2>2, <2>3
<1>9. CreatesFirst'
  BY <1>3, <1>4, <1>8 DEF ProcInv, CreatesFirst
<1>10. Tracked'
  <2> SUFFICES ASSUME ~Systemd, NEW q \in Run, qemu'[q] = "running", proc'[q[1]] # q
               PROVE \E u \in Thread : pc'[u] = "commit" /\ arg'[u] = q
    BY Zenon DEF Tracked
  <2>1. qemu[q] = "running" /\ proc[q[1]] # q
    BY Zenon, <1>0, <1>2, <1>3, Kinds
  <2>2. PICK u \in Thread : pc[u] = "commit" /\ arg[u] = q
    BY Zenon, <2>1 DEF ProcInv, Tracked
  <2> QED BY Zenon, <2>2, <1>0, <1>1 DEF Moves
<1>11. OneQEMU'
  BY Zenon, <1>3 DEF ProcInv, OneQEMU
<1> QED BY Zenon, <1>5, <1>6, <1>7, <1>9, <1>10, <1>11 DEF ProcInv

\* Steps that move no thread and touch neither proc nor who is installed; a run
\* may end or be released, and a VM may be taken from unloaded.
LEMMA NoMoveProc ==
  ASSUME TypeInv, ProcInv, UNCHANGED threadVars, proc' = proc, ctxDone => ctxDone',
         \A r \in Run : (qemu'[r] # "unused" <=> qemu[r] # "unused")
                        /\ (qemu'[r] = "running" => qemu[r] = "running"),
         \A c \in Call : pc[c] \in {"launch", "provision", "start"} =>
            /\ rec'[tgt[c]].installed <=> rec[tgt[c]].installed
            /\ rec[tgt[c]].state # "none" => rec'[tgt[c]].state # "none",
         StartsOwnRun
  PROVE ProcInv'
<1>1. pc' = pc /\ op' = op /\ tgt' = tgt /\ arg' = arg
  BY Zenon DEF threadVars
<1>2. \A u \in Thread : VMOf(u)' = VMOf(u)
  BY Zenon, <1>1 DEF VMOf
<1>3. \A c \in Call : Installing(c)' <=> Installing(c)
  BY Zenon, <1>1 DEF Installing
<1>4. ProcessIsSupervised'
  BY Zenon, <1>1 DEF ProcInv, ProcessIsSupervised
<1>5. StartsAlone'
  BY Zenon, <1>1, <1>2 DEF ProcInv, StartsAlone, StartsOwnRun
<1>6. CallsBootInstalled'
  BY Zenon, <1>1 DEF ProcInv, CallsBootInstalled
<1>7. CreatesFirst'
  BY Zenon, <1>1, <1>3 DEF ProcInv, CreatesFirst, Installing
<1>8. Tracked' /\ OneQEMU'
  <2>1. Tracked'
    BY Zenon, <1>1 DEF ProcInv, Tracked
  <2>2. OneQEMU'
    BY Zenon DEF ProcInv, OneQEMU
  <2> QED BY Zenon, <2>1, <2>2
<1> QED BY Zenon, <1>4, <1>5, <1>6, <1>7, <1>8 DEF ProcInv

\* READY=1, timers, the end of QEMU and the unit watcher move no thread:
\* keeps the process layer.
LEMMA RunStepProc ==
  ASSUME TypeInv, LockInv, ProcInv, NEW r \in Run,
         onNotify(r) \/ onTimeout(r) \/ QEMUExits(r) \/ Settle(r)
  PROVE ProcInv'
<1>1. UNCHANGED threadVars /\ proc' = proc /\ svc' = svc
  BY Zenon DEF onNotify, onTimeout, QEMUExits, Settle, svcVars, entryVars
<1>2. \A q \in Run : (qemu'[q] # "unused" <=> qemu[q] # "unused")
                     /\ (qemu'[q] = "running" => qemu[q] = "running")
  BY Zenon DEF onNotify, onTimeout, QEMUExits, Settle, runVars, TypeInv, RunType
<1>3. RecordsKeep
  <2>1. r[1] \in VM
    BY Zenon, Kinds
  <2> QED BY <2>1, StateKeeps, SameKeeps, UnchangedKeeps, Zenon
          DEF onNotify, onTimeout, QEMUExits, Settle, entryVars, State
<1>4. \A c \in Call : pc[c] # "idle" => tgt[c] \in VM
  BY Zenon DEF TypeInv, ThreadInv, Targets
<1> QED BY Zenon, <1>1, <1>2, <1>3, <1>4, NoMoveProc DEF RecordsKeep, ctxDone, LockInv

\* While Load runs there is no call whose record could change under it.
LEMMA LoadSettledProc ==
  ASSUME TypeInv, LockInv, ProcInv, NEW v \in VM, LoadSettled(v) PROVE ProcInv'
<1>1. UNCHANGED threadVars /\ proc' = proc /\ svc' = svc /\ qemu' = qemu /\ svc = "loading"
  BY Zenon DEF LoadSettled
<1>2. \A c \in Call : pc[c] \in {"idle", "guest"}
  BY Zenon, <1>1 DEF LockInv, LoadingIsQuiet
<1> QED BY Zenon, <1>1, <1>2, NoMoveProc DEF ctxDone, LockInv

\* reattach: the entry gets the running unit and a supervisor: keeps the
\* process layer.
LEMMA ReattachProc ==
  ASSUME TypeInv, LockInv, ProcInv, NEW v \in VM, NEW r \in Run, Reattach(v, r)
  PROVE ProcInv'
<1>0. /\ r \in Thread /\ r \notin Call /\ r[1] = v /\ svc = "loading" /\ v \in unloaded /\ Systemd
      /\ qemu[r] # "unused"
  BY Zenon, Kinds DEF Reattach, Attachable, RunsOf
<1>1. Moves(r, "select") /\ qemu' = qemu /\ svc' = svc
  BY Zenon, <1>0, GotoMoves DEF Reattach
<1>2. proc'[v] = r /\ \A w \in VM : w # v => proc'[w] = proc[w]
  BY Zenon DEF Reattach, TypeInv, EntryType
<1>3. /\ \A c \in Call : pc[c] \in {"idle", "guest"}
      /\ \A q \in Run : q[1] = v => pc[q] = "idle"
      /\ \A w \in VM : pc[w] = "idle"
  BY Zenon, <1>0 DEF LockInv, LoadingIsQuiet
<1>4. ProcessIsSupervised'
  BY <1>0, <1>1, <1>2, <1>3, Kinds DEF ProcInv, ProcessIsSupervised, ctxDone, Moves
<1>5. StartsAlone'
  <2> SUFFICES ASSUME NEW u \in Thread, pc'[u] \in {"start", "commit"}
               PROVE /\ proc'[VMOf(u)'] = NoRun
                     /\ pc'[u] = "commit" => qemu'[arg'[u]] # "unused"
    BY Zenon DEF StartsAlone
  <2>1. u # r /\ pc'[u] = pc[u] /\ arg'[u] = arg[u]
    BY Zenon, <1>1 DEF Moves
  <2>2. u \in Run /\ u[1] # v
    BY Zenon, <2>1, <1>3 DEF Thread
  <2>3. VMOf(u)' = VMOf(u) /\ VMOf(u) = u[1] /\ u[1] \in VM
    BY Zenon, <2>2, Kinds DEF VMOf
  <2> QED BY Zenon, <2>1, <2>2, <2>3, <1>1, <1>2 DEF ProcInv, StartsAlone
<1>6. CallsBootInstalled' /\ CreatesFirst'
  BY Zenon, <1>0, <1>1, <1>3, Kinds DEF CallsBootInstalled, CreatesFirst, Installing, Moves
<1>7. Tracked' /\ OneQEMU'
  BY Zenon, <1>0, <1>1 DEF ProcInv, Tracked, OneQEMU
<1> QED BY Zenon, <1>4, <1>5, <1>6, <1>7 DEF ProcInv

\* Load, Serve, Close, Cancel and Closed start and end no process.
LEMMA ServiceProc ==
  ASSUME TypeInv, LockInv, ProcInv, Load \/ Serve \/ Close \/ Cancel \/ Closed
  PROVE ProcInv'
<1>1. proc' = proc /\ rec' = rec /\ qemu' = qemu /\ op' = op /\ tgt' = tgt /\ arg' = arg
  BY Zenon DEF Load, Serve, Close, Cancel, Closed, entryVars, runVars, threadVars
<1>2. /\ \A t \in Thread : t \notin VM => pc'[t] = pc[t]
      /\ \A v \in VM : pc'[v] = pc[v] \/ pc'[v] = "visit"
  BY Zenon, Kinds DEF Load, Serve, Close, Cancel, Closed, threadVars
<1>3. ctxDone => ctxDone'
  BY Zenon DEF Load, Serve, Close, Cancel, Closed, ctxDone
<1>4. \A v \in VM : pc[v] \notin {"start", "commit"}
  BY Zenon DEF LockInv, ThreadKinds
<1>5. ProcessIsSupervised'
  BY Zenon, <1>1, <1>2, <1>3, Kinds DEF ProcInv, ProcessIsSupervised
<1>6. \A u \in Thread : VMOf(u)' = VMOf(u)
  BY Zenon, <1>1 DEF VMOf
<1>7. StartsAlone'
  BY Zenon, <1>1, <1>2, <1>4, <1>6 DEF ProcInv, StartsAlone
<1>8. CallsBootInstalled' /\ CreatesFirst'
  <2>1. \A c \in Call : pc'[c] = pc[c]
    BY Zenon, <1>2, Kinds
  <2>2. CallsBootInstalled'
    BY Zenon, <1>1, <2>1 DEF ProcInv, CallsBootInstalled
  <2>3. \A c \in Call : Installing(c)' <=> Installing(c)
    BY Zenon, <1>1, <2>1 DEF Installing
  <2>4. CreatesFirst'
    BY Zenon, <1>1, <2>3 DEF ProcInv, CreatesFirst
  <2> QED BY Zenon, <2>2, <2>4
<1>9. Tracked' /\ OneQEMU'
  BY <1>1, <1>2, <1>4 DEF ProcInv, Tracked, OneQEMU
<1> QED BY Zenon, <1>5, <1>7, <1>8, <1>9 DEF ProcInv

\* The end of vm-manager leaves units alone and takes children with it.
LEMMA ProcessEndsProc == ASSUME TypeInv, ProcInv, ProcessEnds PROVE ProcInv'
<1>1. /\ \A t \in Thread : pc'[t] = "idle"
      /\ \A v \in VM : proc'[v] = NoRun
      /\ \A r \in Run : qemu'[r] = "running" => qemu[r] = "running" /\ Systemd
  BY Zenon DEF ProcessEnds
<1>2. ProcessIsSupervised' /\ StartsAlone'
  BY Zenon, <1>1, Kinds DEF ProcessIsSupervised, StartsAlone
<1>3. CallsBootInstalled' /\ CreatesFirst'
  BY Zenon, <1>1, Kinds DEF CallsBootInstalled, CreatesFirst, Installing
<1>4. Tracked' /\ OneQEMU'
  BY Zenon, <1>1 DEF ProcInv, Tracked, OneQEMU
<1> QED BY Zenon, <1>2, <1>3, <1>4 DEF ProcInv

\* A vm-manager that has not started has no process.
LEMMA ProcInit == Init => ProcInv
<1> SUFFICES ASSUME Init PROVE ProcInv
  BY Zenon
<1>1. /\ \A t \in Thread : pc[t] = "idle"
      /\ \A v \in VM : proc[v] = NoRun
      /\ \A r \in Run : qemu[r] = "unused"
  BY Zenon DEF Init
<1>2. ProcessIsSupervised /\ StartsAlone /\ CallsBootInstalled /\ CreatesFirst
  BY Zenon, <1>1, Kinds DEF ProcessIsSupervised, StartsAlone, CallsBootInstalled, CreatesFirst, Installing
<1>3. Tracked /\ OneQEMU
  BY Zenon, <1>1 DEF Tracked, OneQEMU
<1> QED BY Zenon, <1>2, <1>3 DEF ProcInv

\* Every step keeps the process layer.
LEMMA ProcStep == TypeInv /\ LockInv /\ ProcInv /\ [Next]_vars => ProcInv'
<1> SUFFICES ASSUME TypeInv, LockInv, ProcInv, [Next]_vars PROVE ProcInv'
  BY Zenon
<1>1. CASE Request
  BY Zenon, <1>1, AllocateProc, GuestRequestProc, BeginProc DEF Request
<1>2. ASSUME NEW c \in Call, CallStep(c) PROVE ProcInv'
  BY Zenon, <1>2, LaunchProc, ProvisionProc, StartProc, DeleteProc, DeleteWaitsProc,
     TeardownProc, ForgetProc, onNonceProc DEF CallStep
<1>3. ASSUME NEW t \in Thread, StartStep(t) \/ Commit(t) \/ Stop(t) \/ StopReturns(t)
      PROVE ProcInv'
  BY Zenon, <1>3, StartFailsProc, StartQEMUProc, CommitProc, StopProc, StopReturnsProc DEF StartStep
<1>4. ASSUME NEW r \in Run, SupervisorStep(r) \/ QEMUExits(r) \/ Settle(r) PROVE ProcInv'
  BY Zenon, <1>4, SupervisorLeavesProc, onExitProc, BootProc, RunStepProc DEF SupervisorStep
<1>5. CASE LoadStep
  BY Zenon, <1>5, LoadSettledProc, ReattachProc DEF LoadStep
<1>6. CASE Load \/ Serve \/ Close \/ Cancel \/ Closed
  BY Zenon, <1>6, ServiceProc
<1>7. CASE \E v \in VM : Visit(v)
  BY Zenon, <1>7, VisitProc
<1>8. CASE Exit \/ Crash
  BY Zenon, <1>8, ProcessEndsProc DEF Exit, Crash
<1>9. CASE UNCHANGED vars
  BY Zenon, <1>9, NoMoveProc DEF vars, svcVars, entryVars, runVars, ctxDone, LockInv
<1> QED BY Zenon, <1>1, <1>2, <1>3, <1>4, <1>5, <1>6, <1>7, <1>8, <1>9 DEF Next

\* Two QEMUs never run on the disk of one VM, for any number of VMs, calls,
\* runs and crashes, with units and with child processes.
THEOREM OneQEMUPerVM == Spec => []OneQEMU
<1>1. ProcInv => OneQEMU
  BY Zenon DEF ProcInv
<1> QED BY TypeInit, TypeStep, LockInit, LockStep, ProcInit, ProcStep, <1>1, PTL DEF Spec

\* The supervisor in its select and the process of the entry are the same run
\* until Close cancels: who waits on p.done waits for a live supervisor.
THEOREM SupervisorOwns == Spec => []SupervisorOwnsProcess
<1>1. TypeInv /\ ProcInv => SupervisorOwnsProcess
  BY Kinds DEF TypeInv, EntryType, ProcInv, ProcessIsSupervised, SupervisorOwnsProcess
<1> QED BY TypeInit, TypeStep, LockInit, LockStep, ProcInit, ProcStep, <1>1, PTL DEF Spec
=============================================================================
