---------------------------- MODULE UnitsProofs -----------------------------
(***************************************************************************)
(* Units for every number of processes, restarts and failing systemctl     *)
(* calls: one process runs per unit, an exit is reported after it, a       *)
(* watcher settles its own unit, swtpm outlives QEMU, and no wait without  *)
(* a timeout is for an exit that nobody reports.  The first half of the    *)
(* inductive invariant is the types, what the host runs for a unit         *)
(* (HostInv), and what the service holds at each point of a start, a boot  *)
(* or an attach (DriverInv).                                               *)
(***************************************************************************)
EXTENDS Units, TLAPS

-----------------------------------------------------------------------------
(* Types.                                                                  *)

DriverPC ==
  {"idle", "show", "clean", "run", "look", "ready", "prepare", "kill", "killwait", "up",
   "tterm", "tkill", "tkwait", "settle", "atpm", "aqemu", "aready"}

StopPC == {"idle", "powerdown", "term", "kill", "killagain", "killwait", "done"}

AnyRun == Run \cup {NoRun}

HostType ==
  /\ os \in [Role -> [Run -> {"unused", "running", "dead"}]]
  /\ killed \subseteq Role \X Run
  /\ unit \in [Role -> [proc : AnyRun, reaped : BOOLEAN]]
  /\ sock \in AnyRun /\ pidfd \in BOOLEAN

WatchType ==
  /\ w \in [Role -> [Run -> {"none", "watch", "poll", "status", "release", "done"}]]
  /\ status \in [Role -> [Run -> AnyRun]]

ServiceType ==
  /\ drv \in [pc : DriverPC, role : Role \cup {"none"}]
  /\ cur \in [Role -> AnyRun] /\ proc \in AnyRun
  /\ stp \in [pc : StopPC, qemu : AnyRun]
  /\ rec \in [state : {"stopped", "live", "stopping"}, handles : BOOLEAN]
  /\ mgr \in {"up", "down"} /\ faults \in Nat

UnitType == HostType /\ WatchType /\ ServiceType

-----------------------------------------------------------------------------
(* The inductive invariant.                                                *)

\* What runs is the main process of its unit, and what anyone knows of was
\* started.
HostInv ==
  /\ \A r \in Role, n \in Run :
       /\ os[r][n] = "running" => unit[r].proc = n /\ ~unit[r].reaped
       /\ <<r, n>> \in killed => os[r][n] = "running"
       /\ n \in {unit[r].proc, cur[r]} \/ w[r][n] # "none" => os[r][n] # "unused"

\* The pcs of a start of role r before its process is known.
Starting(r) == drv.role = r /\ drv.pc \in {"show", "clean", "run", "look"}

\* The pcs at which the service holds the process of r and waits for it.
Holding(r) ==
  IF r = "qemu"
  THEN drv.pc \in {"kill", "killwait", "up", "aready"} \/ (drv.pc = "ready" /\ drv.role = "qemu")
  ELSE \/ drv.pc \in {"ready", "prepare", "kill", "killwait", "up", "aqemu", "aready",
                      "tterm", "tkill", "tkwait"}
       \/ Starting("qemu")

\* Where the driver is says what it holds.
DriverInv ==
  /\ drv.pc \in {"show", "clean", "run", "look", "ready"} => drv.role \in Role
  /\ drv.pc = "prepare" => drv.role = "swtpm"
  /\ \A r \in Role : Starting(r) /\ drv.pc # "look" => Used(r) # Run
  /\ Starting("swtpm") \/ drv.pc = "prepare" \/ (drv.pc = "ready" /\ drv.role = "swtpm") =>
       Used("qemu") # Run
  /\ drv.pc = "look" => /\ cur[drv.role] # NoRun /\ w[drv.role][cur[drv.role]] = "none"
                        /\ unit[drv.role].proc \in {NoRun, cur[drv.role]}
  /\ \A r \in Role : cur[r] # NoRun => w[r][cur[r]] # "none" \/ (drv.pc = "look" /\ drv.role = r)
  /\ drv.pc = "ready" => cur[drv.role] # NoRun
  /\ drv.pc \in {"kill", "killwait", "up", "aready"} => cur["qemu"] # NoRun
  /\ drv.pc \in {"tkill", "tkwait"} => cur["swtpm"] # NoRun
  /\ drv.pc \notin {"up", "tterm", "tkill", "tkwait", "settle"} => proc = NoRun
  /\ drv.pc = "up" => proc = cur["qemu"]
  /\ mgr = "down" => drv.pc = "idle" /\ stp.pc = "idle"
  /\ drv.pc \in {"atpm", "aqemu", "aready"} => stp.pc = "idle"

-----------------------------------------------------------------------------
(* Lemmas about the operators.                                             *)

\* systemd-run starts a process that did not exist before.
LEMMA FreshRun ==
  ASSUME NEW r, Used(r) # Run
  PROVE Fresh(r) \in Run /\ os[r][Fresh(r)] = "unused"
<1>1. \E n \in Run : n \notin Used(r)
  BY DEF Used
<1>2. Fresh(r) \in Run /\ Fresh(r) \notin Used(r)
  BY <1>1 DEF Fresh
<1> QED BY <1>2 DEF Used

\* A watcher moves, and the others do not.
LEMMA WatcherSet ==
  ASSUME WatchType, NEW r \in Role, NEW n \in Run, NEW x, w' = [w EXCEPT ![r][n] = x]
  PROVE /\ w'[r][n] = x
        /\ \A s \in Role, m \in Run : s # r \/ m # n => w'[s][m] = w[s][m]
  BY DEF WatchType

\* The label of a watcher that begins.
WatcherLabel(r, n) ==
  IF ~HasMainPID(r) \/ unit[r].proc # n THEN "status" ELSE IF pidfd THEN "watch" ELSE "poll"

\* release: the unit and its process, or nothing.
LEMMA ReleaseSteps ==
  ASSUME HostType, NEW r \in Role, Release(r)
  PROVE \/ /\ faults' = faults
           /\ \A s \in Role, m \in Run :
                os'[s][m] = IF s = r /\ m = unit[r].proc /\ os[s][m] = "running"
                            THEN "dead" ELSE os[s][m]
           /\ killed' = killed \ {<<r, unit[r].proc>>}
           /\ unit' = [unit EXCEPT ![r] = NoUnit]
        \/ faults' = faults + 1 /\ os' = os /\ killed' = killed /\ unit' = unit
<1>1. CASE Works /\ os' = [os EXCEPT ![r] = [n \in Run |->
                     IF n = unit[r].proc /\ os[r][n] = "running" THEN "dead" ELSE os[r][n]]]
    /\ killed' = killed \ {<<r, unit[r].proc>>} /\ unit' = [unit EXCEPT ![r] = NoUnit]
  BY <1>1 DEF HostType, Works
<1>2. CASE Fault /\ UNCHANGED <<os, killed, unit>>
  BY <1>2 DEF Fault
<1> QED BY <1>1, <1>2 DEF Release

\* release keeps the types of the host.
LEMMA ReleaseType ==
  ASSUME HostType, NEW r \in Role, Release(r), sock' = sock, pidfd' = pidfd
  PROVE HostType'
<1>1. NoUnit \in [proc : AnyRun, reaped : BOOLEAN]
  BY DEF NoUnit, AnyRun
<1>2. unit' \in [Role -> [proc : AnyRun, reaped : BOOLEAN]]
  BY <1>1 DEF HostType, Release
<1>3. os' \in [Role -> [Run -> {"unused", "running", "dead"}]]
  BY DEF HostType, Release
<1>4. killed' \subseteq Role \X Run
  BY DEF HostType, Release
<1> QED BY <1>2, <1>3, <1>4 DEF HostType

\* release starts nothing, and its unit has its process or none.
LEMMA ReleaseKeeps ==
  ASSUME HostType, NEW r \in Role, Release(r)
  PROVE /\ \A s \in Role, m \in Run : os'[s][m] = "unused" <=> os[s][m] = "unused"
        /\ \A s \in Role, m \in Run : os[s][m] = "dead" => os'[s][m] = "dead"
        /\ \A s \in Role : unit'[s] = unit[s] \/ (s = r /\ unit'[s].proc = NoRun)
        /\ \A s \in Role, m \in Run : <<s, m>> \in killed /\ os[s][m] = "running" =>
             os'[s][m] = "dead" \/ <<s, m>> \in killed'
        /\ faults' \in {faults, faults + 1}
<1>1. NoUnit.proc = NoRun
  BY DEF NoUnit
<1>2. CASE /\ faults' = faults
           /\ \A s \in Role, m \in Run :
                os'[s][m] = IF s = r /\ m = unit[r].proc /\ os[s][m] = "running"
                            THEN "dead" ELSE os[s][m]
           /\ killed' = killed \ {<<r, unit[r].proc>>}
           /\ unit' = [unit EXCEPT ![r] = NoUnit]
  <2>1. \A s \in Role : unit'[s] = unit[s] \/ (s = r /\ unit'[s].proc = NoRun)
    BY <1>1, <1>2 DEF HostType
  <2> QED BY <1>2, <2>1
<1>3. CASE faults' = faults + 1 /\ os' = os /\ killed' = killed /\ unit' = unit
  BY <1>3
<1> QED BY <1>2, <1>3, ReleaseSteps

\* SIGKILL reaches a process that runs.
LEMMA SigKillSteps ==
  ASSUME HostType, NEW r \in Role, NEW n \in AnyRun, SigKill(r, n)
  PROVE /\ killed' \subseteq Role \X Run /\ killed \subseteq killed'
        /\ \A p \in killed' \ killed : p = <<r, n>> /\ n \in Run /\ os[r][n] = "running"
        /\ n \in Run /\ os[r][n] = "running" => <<r, n>> \in killed'
  BY DEF HostType, SigKill, Running, AnyRun, NoRun, Run

-----------------------------------------------------------------------------
(* Types are kept.                                                         *)

\* The driver goes to a label.
LEMMA GotoType ==
  ASSUME ServiceType, NEW l \in DriverPC, Goto(l)
  PROVE drv' \in [pc : DriverPC, role : Role \cup {"none"}] /\ drv'.pc = l /\ drv'.role = drv.role
  BY DEF ServiceType, Goto

\* A start that fails goes on to stop swtpm or to settle.
LEMMA StartFailedSteps ==
  ASSUME ServiceType, StartFailed
  PROVE /\ drv' \in [pc : DriverPC, role : Role \cup {"none"}]
        /\ drv'.pc = (IF drv.role = "qemu" THEN "tterm" ELSE "settle") /\ drv'.role = drv.role
  BY GotoType DEF StartFailed, DriverPC

\* Stop goes to a label.
LEMMA StopGotoType ==
  ASSUME ServiceType, NEW l \in StopPC, StopGoto(l)
  PROVE stp' \in [pc : StopPC, qemu : AnyRun] /\ stp'.pc = l /\ stp'.qemu = stp.qemu
  BY DEF ServiceType, StopGoto

\* What a watcher does keeps the types of the watchers.
LEMMA WatcherType ==
  ASSUME WatchType, NEW r \in Role, NEW n \in Run,
         NEW x \in {"none", "watch", "poll", "status", "release", "done"}, w' = [w EXCEPT ![r][n] = x]
  PROVE w' \in [Role -> [Run -> {"none", "watch", "poll", "status", "release", "done"}]]
  BY DEF WatchType

\* systemctl either works or is counted.
LEMMA FaultType ==
  ASSUME faults \in Nat, Works \/ Fault
  PROVE faults' \in Nat /\ faults' >= faults
  BY DEF Works, Fault

\* The state at the start is well-typed.
LEMMA UnitTypeInit == Init => UnitType
<1> SUFFICES ASSUME Init PROVE UnitType
  OBVIOUS
<1>1. HostType
  BY DEF Init, HostType, PerRun, NoUnit, AnyRun
<1>2. WatchType
  BY DEF Init, WatchType, PerRun, AnyRun
<1>3. drv \in [pc : DriverPC, role : Role \cup {"none"}] /\ stp \in [pc : StopPC, qemu : AnyRun]
  BY DEF Init, IdleDriver, IdleStop, DriverPC, StopPC, AnyRun
<1>4. rec \in [state : {"stopped", "live", "stopping"}, handles : BOOLEAN]
  BY DEF Init, Stopped
<1>5. cur \in [Role -> AnyRun] /\ proc \in AnyRun /\ mgr \in {"up", "down"} /\ faults \in Nat
  BY DEF Init, NoneHeld, AnyRun
<1> QED BY <1>1, <1>2, <1>3, <1>4, <1>5 DEF UnitType, ServiceType

\* A process the service commits, and the one it holds, are processes or none.
LEMMA HeldRuns ==
  ASSUME ServiceType
  PROVE /\ cur["qemu"] \in AnyRun /\ cur["swtpm"] \in AnyRun /\ stp.qemu \in AnyRun
        /\ \A r \in Role, x \in AnyRun : [cur EXCEPT ![r] = x] \in [Role -> AnyRun]
  BY DEF ServiceType, Role

\* The steps of the host and of the watchers keep the types.
LEMMA HostTypeStep ==
  ASSUME UnitType, NEW r \in Role, NEW n \in Run, Reap(r) \/ ProcessExits(r, n) \/ WatcherStep(r, n)
  PROVE UnitType'
<1> USE DEF UnitType
<1>1. CASE Reap(r)
  <2>1. unit' \in [Role -> [proc : AnyRun, reaped : BOOLEAN]]
    BY Zenon, <1>1 DEF Reap, HostType
  <2> QED BY <1>1, <2>1 DEF Reap, HostType, WatchType, ServiceType, watchVars
<1>2. CASE ProcessExits(r, n)
  <2>1. os' \in [Role -> [Run -> {"unused", "running", "dead"}]]
    BY <1>2 DEF ProcessExits, HostType
  <2> QED BY <1>2, <2>1 DEF ProcessExits, HostType, WatchType, ServiceType, watchVars
<1>3. CASE Watch(r, n)
  <2>1. WatchType'
    BY Zenon, <1>3, WatcherType DEF Watch, WatchType
  <2> QED BY <1>3, <2>1 DEF Watch, HostType, ServiceType, hostVars
<1>4. CASE Poll(r, n)
  <2>1. WatchType'
    BY Zenon, <1>4, WatcherType DEF Poll, WatchType
  <2>2. faults' \in Nat
    BY <1>4, FaultType DEF Poll, ServiceType
  <2> QED BY <1>4, <2>1, <2>2 DEF Poll, HostType, ServiceType, hostVars
<1>5. CASE ExitStatus(r, n)
  <2>1. unit[r].proc \in AnyRun /\ NoRun \in AnyRun
    BY DEF HostType, AnyRun
  <2>2. PICK st \in AnyRun, next \in {"release", "done"} : Settle(r, n, st, next) /\ (Works \/ Fault)
    BY <1>5, <2>1 DEF ExitStatus
  <2>3. status' \in [Role -> [Run -> AnyRun]]
    BY <2>2 DEF Settle, WatchType
  <2>4. WatchType'
    BY Zenon, <2>2, <2>3, WatcherType DEF Settle, WatchType
  <2>5. faults' \in Nat
    BY <2>2, FaultType DEF ServiceType
  <2> QED BY <1>5, <2>4, <2>5 DEF ExitStatus, HostType, ServiceType, hostVars
<1>6. CASE SettleRelease(r, n)
  <2>1. WatchType'
    BY Zenon, <1>6, WatcherType DEF SettleRelease, WatchType
  <2>2. HostType'
    BY <1>6, ReleaseType DEF SettleRelease
  <2>3. faults' \in Nat
    BY <1>6, FaultType DEF SettleRelease, Release, ServiceType
  <2> QED BY <1>6, <2>1, <2>2, <2>3 DEF SettleRelease, ServiceType
<1> QED BY <1>1, <1>2, <1>3, <1>4, <1>5, <1>6 DEF WatcherStep

\* The labels a watcher begins at.
LEMMA WatcherBegins ==
  ASSUME NEW r \in Role, NEW n, Watcher(r, n)
  PROVE /\ w' = [w EXCEPT ![r][n] = WatcherLabel(r, n)]
        /\ WatcherLabel(r, n) \in {"none", "watch", "poll", "status", "release", "done"}
  BY DEF Watcher, WatcherLabel

\* The steps of a start keep the types.
LEMMA StartTypeStep ==
  ASSUME UnitType, DriverInv,
         \/ Begin \/ Show \/ Clean \/ RunUnit \/ Look \/ TPMReady \/ Prepare \/ QEMUReady
         \/ KillQEMU \/ KillWait
  PROVE UnitType'
<1> USE DEF UnitType
<1>1. CASE Begin \/ Prepare
  <2>1. drv' \in [pc : DriverPC, role : Role \cup {"none"}]
    BY <1>1 DEF Begin, Prepare, DriverPC, Role
  <2>2. HostType'
    BY <1>1 DEF Begin, Prepare, HostType, hostVars, AnyRun
  <2> QED BY <1>1, <2>1, <2>2 DEF Begin, Prepare, WatchType, ServiceType, watchVars
<1>2. CASE Show
  <2>1. drv' \in [pc : DriverPC, role : Role \cup {"none"}]
    BY <1>2, StartFailedSteps, GotoType DEF Show, DriverPC
  <2>2. faults' \in Nat
    BY <1>2, FaultType DEF Show, ServiceType
  <2> QED BY <1>2, <2>1, <2>2 DEF Show, HostType, WatchType, ServiceType, watchVars, hostVars
<1>3. CASE Clean
  <2>1. drv' \in [pc : DriverPC, role : Role \cup {"none"}]
    BY <1>3, GotoType DEF Clean, DriverPC
  <2>2. faults' \in Nat
    BY <1>3, FaultType DEF Clean, Release, ServiceType
  <2>3. HostType'
    BY <1>3, ReleaseType DEF Clean, DriverInv
  <2> QED BY <1>3, <2>1, <2>2, <2>3 DEF Clean, WatchType, ServiceType, watchVars
<1>4. CASE RunUnit
  <2>1. drv' \in [pc : DriverPC, role : Role \cup {"none"}]
    BY <1>4, StartFailedSteps, GotoType DEF RunUnit, DriverPC
  <2>2. faults' \in Nat
    BY <1>4, FaultType DEF RunUnit, ServiceType
  <2>3. drv.role \in Role /\ Fresh(drv.role) \in Run
    BY <1>4, FreshRun DEF RunUnit, DriverInv, Starting
  <2>4. Fresh(drv.role) \in AnyRun
    BY <2>3 DEF AnyRun
  <2>5. os' \in [Role -> [Run -> {"unused", "running", "dead"}]]
    <3>1. [os EXCEPT ![drv.role][Fresh(drv.role)] = "running"]
            \in [Role -> [Run -> {"unused", "running", "dead"}]]
      BY <2>3 DEF HostType
    <3> QED BY Zenon, <1>4, <3>1 DEF RunUnit, HostType
  <2>6. unit' \in [Role -> [proc : AnyRun, reaped : BOOLEAN]]
    <3>1. [proc |-> Fresh(drv.role), reaped |-> FALSE] \in [proc : AnyRun, reaped : BOOLEAN]
      BY <2>4
    <3>2. [unit EXCEPT ![drv.role] = [proc |-> Fresh(drv.role), reaped |-> FALSE]]
            \in [Role -> [proc : AnyRun, reaped : BOOLEAN]]
      BY <2>3, <3>1 DEF HostType
    <3> QED BY Zenon, <1>4, <3>2 DEF RunUnit, HostType
  <2>7. sock' \in AnyRun
    BY <1>4, <2>4 DEF RunUnit, HostType
  <2>8. cur' \in [Role -> AnyRun]
    BY <1>4, <2>3, <2>4 DEF RunUnit, ServiceType
  <2> QED BY <1>4, <2>1, <2>2, <2>5, <2>6, <2>7, <2>8 DEF RunUnit, HostType, WatchType, ServiceType, watchVars
<1>5. CASE Look
  <2>1. drv' \in [pc : DriverPC, role : Role \cup {"none"}]
    BY <1>5, StartFailedSteps, GotoType DEF Look, DriverPC
  <2>2. faults' \in Nat
    BY <1>5, FaultType DEF Look, ServiceType
  <2>3. drv.role \in Role /\ cur[drv.role] \in Run
    BY <1>5 DEF Look, DriverInv, ServiceType, AnyRun
  <2>4. cur' \in [Role -> AnyRun]
    BY <1>5 DEF Look, ServiceType, AnyRun
  <2>5. WatchType'
    BY <1>5, <2>3, WatcherBegins, WatcherType DEF Look, WatchType
  <2> QED BY <1>5, <2>1, <2>2, <2>4, <2>5 DEF Look, HostType, ServiceType, hostVars
<1>6. CASE TPMReady
  <2>1. drv' \in [pc : DriverPC, role : Role \cup {"none"}]
    BY <1>6, GotoType DEF TPMReady, DriverPC
  <2>2. faults' \in Nat
    BY <1>6, FaultType DEF TPMReady, ServiceType
  <2>3. killed' \subseteq Role \X Run
    BY Zenon, <1>6, HeldRuns, SigKillSteps DEF TPMReady, HostType, Role
  <2>4. cur' \in [Role -> AnyRun]
    BY <1>6 DEF TPMReady, ServiceType, AnyRun, Role
  <2> QED BY <1>6, <2>1, <2>2, <2>3, <2>4 DEF TPMReady, HostType, WatchType, ServiceType
<1>7. CASE QEMUReady
  <2>1. drv' \in [pc : DriverPC, role : Role \cup {"none"}]
    BY <1>7, GotoType DEF QEMUReady, DriverPC
  <2>2. proc' \in AnyRun
    BY <1>7, HeldRuns DEF QEMUReady, ServiceType
  <2>3. rec' \in [state : {"stopped", "live", "stopping"}, handles : BOOLEAN]
    <3>1. [state |-> "live", handles |-> TRUE] \in [state : {"stopped", "live", "stopping"}, handles : BOOLEAN]
      OBVIOUS
    <3> QED BY Zenon, <1>7, <3>1 DEF QEMUReady, ServiceType
  <2> QED BY <1>7, <2>1, <2>2, <2>3 DEF QEMUReady, HostType, WatchType, ServiceType, watchVars, hostVars
<1>8. CASE KillQEMU
  <2>1. drv' \in [pc : DriverPC, role : Role \cup {"none"}]
    BY <1>8, GotoType DEF KillQEMU, DriverPC
  <2>2. faults' \in Nat
    BY <1>8, FaultType DEF KillQEMU, ServiceType
  <2>3. killed' \subseteq Role \X Run
    BY Zenon, <1>8, HeldRuns, SigKillSteps DEF KillQEMU, HostType, Role
  <2> QED BY <1>8, <2>1, <2>2, <2>3 DEF KillQEMU, HostType, WatchType, ServiceType
<1>9. CASE KillWait
  <2>1. drv' \in [pc : DriverPC, role : Role \cup {"none"}]
    BY <1>9, GotoType DEF KillWait, DriverPC
  <2> QED BY <1>9, <2>1 DEF KillWait, HostType, WatchType, ServiceType, watchVars, hostVars
<1> QED BY <1>1, <1>2, <1>3, <1>4, <1>5, <1>6, <1>7, <1>8, <1>9

\* The steps of the supervisor and of a reattachment keep the types.
LEMMA SupervisorTypeStep ==
  ASSUME UnitType,
         \/ OnExit \/ TPMTerm \/ TPMKill \/ TPMKillWait \/ SettleRecord
         \/ AttachTPM \/ AttachQEMU \/ AttachReady
  PROVE UnitType'
<1> USE DEF UnitType
<1>1. CASE OnExit \/ TPMTerm \/ TPMKillWait
  <2>1. drv' \in [pc : DriverPC, role : Role \cup {"none"}]
    BY <1>1, GotoType DEF OnExit, TPMTerm, TPMKillWait, DriverPC
  <2> QED BY <1>1, <2>1 DEF OnExit, TPMTerm, TPMKillWait, HostType, WatchType, ServiceType, watchVars, hostVars
<1>2. CASE TPMKill
  <2>1. drv' \in [pc : DriverPC, role : Role \cup {"none"}]
    BY <1>2, GotoType DEF TPMKill, DriverPC
  <2>2. faults' \in Nat
    BY <1>2, FaultType DEF TPMKill, ServiceType
  <2>3. killed' \subseteq Role \X Run
    BY Zenon, <1>2, HeldRuns, SigKillSteps DEF TPMKill, HostType, Role
  <2> QED BY <1>2, <2>1, <2>2, <2>3 DEF TPMKill, HostType, WatchType, ServiceType
<1>3. CASE SettleRecord
  <2>1. drv' \in [pc : DriverPC, role : Role \cup {"none"}]
    BY <1>3 DEF SettleRecord, IdleDriver, DriverPC
  <2>2. cur' \in [Role -> AnyRun] /\ proc' \in AnyRun
    BY <1>3 DEF SettleRecord, NoneHeld, AnyRun
  <2>3. rec' \in [state : {"stopped", "live", "stopping"}, handles : BOOLEAN]
    BY <1>3 DEF SettleRecord, Stopped
  <2> QED BY <1>3, <2>1, <2>2, <2>3 DEF SettleRecord, HostType, WatchType, ServiceType, watchVars, hostVars
<1>4. ASSUME NEW r \in Role, NEW l \in DriverPC, NEW k \in DriverPC, Attach(r, l, k), UNCHANGED status
      PROVE /\ drv' \in [pc : DriverPC, role : Role \cup {"none"}] /\ faults' \in Nat
            /\ cur' \in [Role -> AnyRun] /\ WatchType'
  <2>1. unit[r].proc \in AnyRun /\ (Loaded(r) => unit[r].proc \in Run)
    BY DEF HostType, AnyRun, Loaded
  <2>2. drv' \in [pc : DriverPC, role : Role \cup {"none"}]
    BY <1>4, GotoType DEF Attach
  <2>3. faults' \in Nat
    BY <1>4, FaultType DEF Attach, ServiceType
  <2>4. cur' \in [Role -> AnyRun]
    BY <1>4, <2>1, HeldRuns DEF Attach, ServiceType
  <2>5. WatchType'
    <3>1. CASE w' = w
      BY <1>4, <3>1 DEF WatchType
    <3>2. CASE Loaded(r) /\ Watcher(r, unit[r].proc)
      <4>1. w' \in [Role -> [Run -> {"none", "watch", "poll", "status", "release", "done"}]]
        BY <2>1, <3>2, WatcherBegins, WatcherType
      <4> QED BY <1>4, <4>1 DEF WatchType
    <3> QED BY <1>4, <3>1, <3>2 DEF Attach
  <2> QED BY <2>2, <2>3, <2>4, <2>5
<1>5. CASE AttachTPM \/ AttachQEMU
  <2>1. /\ drv' \in [pc : DriverPC, role : Role \cup {"none"}] /\ faults' \in Nat
        /\ cur' \in [Role -> AnyRun] /\ WatchType'
    BY Zenon, <1>4, <1>5 DEF AttachTPM, AttachQEMU, Role, DriverPC
  <2> QED BY <1>5, <2>1 DEF AttachTPM, AttachQEMU, HostType, ServiceType, hostVars
<1>6. CASE AttachReady
  <2>1. drv' \in [pc : DriverPC, role : Role \cup {"none"}]
    BY <1>6, GotoType DEF AttachReady, DriverPC
  <2>2. proc' \in AnyRun
    BY <1>6, HeldRuns DEF AttachReady, ServiceType
  <2>3. stp' \in [pc : StopPC, qemu : AnyRun]
    <3>1. [pc |-> "powerdown", qemu |-> cur["qemu"]] \in [pc : StopPC, qemu : AnyRun]
      BY HeldRuns DEF StopPC
    <3> QED BY <1>6, <3>1 DEF AttachReady, ServiceType
  <2> QED BY <1>6, <2>1, <2>2, <2>3 DEF AttachReady, HostType, WatchType, ServiceType, hostVars
<1> QED BY <1>1, <1>2, <1>3, <1>5, <1>6

\* The steps of Stop and the restarts of vm-manager keep the types.
LEMMA StopTypeStep ==
  ASSUME UnitType, Stop \/ StopperStep \/ Restart \/ Load
  PROVE UnitType'
<1> USE DEF UnitType
<1>1. CASE Stop
  <2>1. stp' \in [pc : StopPC, qemu : AnyRun]
    BY <1>1 DEF Stop, ServiceType, StopPC
  <2>2. rec' \in [state : {"stopped", "live", "stopping"}, handles : BOOLEAN]
    BY <1>1 DEF Stop, ServiceType
  <2> QED BY <1>1, <2>1, <2>2 DEF Stop, StopUnchanged, Works, HostType, WatchType, ServiceType, watchVars
<1>2. ASSUME NEW l \in StopPC, NEW k \in StopPC, StopStep(l, k) PROVE UnitType'
  <2>1. stp' \in [pc : StopPC, qemu : AnyRun]
    BY <1>2, StopGotoType DEF StopStep, StopPC
  <2> QED BY <1>2, <2>1 DEF StopStep, StopUnchanged, Works, HostType, WatchType, ServiceType, watchVars
<1>3. ASSUME NEW l \in StopPC, NEW k \in StopPC, StopKill(l, k) PROVE UnitType'
  <2>1. stp' \in [pc : StopPC, qemu : AnyRun]
    BY <1>3, StopGotoType DEF StopKill, StopPC
  <2>2. faults' \in Nat
    BY <1>3, FaultType DEF StopKill, ServiceType
  <2>3. killed' \subseteq Role \X Run
    BY Zenon, <1>3, HeldRuns, SigKillSteps DEF StopKill, HostType, Role
  <2> QED BY <1>3, <2>1, <2>2, <2>3 DEF StopKill, StopUnchanged, HostType, WatchType, ServiceType, watchVars
<1>4. CASE StopKillWait
  <2>1. stp' \in [pc : StopPC, qemu : AnyRun]
    BY <1>4, StopGotoType DEF StopKillWait, StopPC
  <2> QED BY <1>4, <2>1 DEF StopKillWait, StopUnchanged, Works, HostType, WatchType, ServiceType, watchVars
<1>5. CASE StopReturn
  <2>1. stp' \in [pc : StopPC, qemu : AnyRun]
    BY <1>5 DEF StopReturn, IdleStop, StopPC, AnyRun
  <2> QED BY <1>5, <2>1 DEF StopReturn, StopUnchanged, Works, HostType, WatchType, ServiceType, watchVars
<1>6. CASE Restart
  <2>1. WatchType'
    BY <1>6 DEF Restart, WatchType, PerRun, AnyRun
  <2>2. drv' \in [pc : DriverPC, role : Role \cup {"none"}] /\ stp' \in [pc : StopPC, qemu : AnyRun]
    BY <1>6 DEF Restart, IdleDriver, IdleStop, DriverPC, StopPC, AnyRun
  <2>3. cur' \in [Role -> AnyRun] /\ proc' \in AnyRun
    BY <1>6 DEF Restart, NoneHeld, AnyRun
  <2> QED BY <1>6, <2>1, <2>2, <2>3 DEF Restart, HostType, ServiceType, hostVars
<1>7. CASE Load
  <2>1. drv' \in [pc : DriverPC, role : Role \cup {"none"}]
    BY <1>7, GotoType DEF Load, DriverPC, ServiceType
  <2>2. rec' \in [state : {"stopped", "live", "stopping"}, handles : BOOLEAN]
    <3>1. Stopped \in [state : {"stopped", "live", "stopping"}, handles : BOOLEAN]
      BY DEF Stopped
    <3> QED BY <1>7, <3>1 DEF Load, ServiceType
  <2> QED BY <1>7, <2>1, <2>2 DEF Load, HostType, WatchType, ServiceType, hostVars, watchVars
<1> QED BY <1>1, <1>2, <1>3, <1>4, <1>5, <1>6, <1>7
        DEF StopperStep, Powerdown, Term, Kill, KillAgain, StopPC

\* Every step keeps the types.
LEMMA UnitTypeStep == UnitType /\ DriverInv /\ [Next]_vars => UnitType'
<1> SUFFICES ASSUME UnitType, DriverInv, [Next]_vars PROVE UnitType'
  OBVIOUS
<1>1. CASE UNCHANGED vars
  BY <1>1 DEF vars, hostVars, watchVars, UnitType, HostType, WatchType, ServiceType
<1>2. ASSUME NEW r \in Role, Reap(r) PROVE UnitType'
  <2>1. unit[r].proc \in Run
    BY <1>2 DEF Reap, HasMainPID, Loaded, UnitType, HostType, AnyRun
  <2> QED BY <1>2, <2>1, HostTypeStep
<1> QED BY <1>1, <1>2, HostTypeStep, StartTypeStep, SupervisorTypeStep, StopTypeStep DEF Next, DriverStep

-----------------------------------------------------------------------------
(* HostInv is kept.                                                        *)

\* A step that starts, ends, watches and holds no other process.
LEMMA HostKeeps ==
  ASSUME UnitType, HostInv, os' = os, unit' = unit, killed' = killed,
         \A r \in Role, n \in Run : w'[r][n] # "none" => w[r][n] # "none" \/ n \in {cur[r], unit[r].proc},
         \A r \in Role : cur'[r] \in {cur[r], unit[r].proc, NoRun}
  PROVE HostInv'
<1>1. NoRun \notin Run
  BY DEF NoRun, Run
<1> QED BY <1>1 DEF HostInv

\* A SIGKILL reaches what runs.
LEMMA HostKills ==
  ASSUME UnitType, HostInv, NEW r \in Role, NEW n \in AnyRun, SigKill(r, n),
         os' = os, unit' = unit, w' = w, \A s \in Role : cur'[s] \in {cur[s], NoRun}
  PROVE HostInv'
<1>1. NoRun \notin Run
  BY DEF NoRun, Run
<1>2. \A p \in killed' \ killed : p = <<r, n>> /\ n \in Run /\ os[r][n] = "running"
  BY Zenon, SigKillSteps DEF UnitType
<1> QED BY <1>1, <1>2 DEF HostInv

\* release ends the process of its unit.
LEMMA HostReleases ==
  ASSUME UnitType, HostInv, NEW r \in Role, Release(r), cur' = cur,
         \A s \in Role, n \in Run : w'[s][n] # "none" => w[s][n] # "none"
  PROVE HostInv'
<1>1. NoRun \notin Run /\ NoUnit.proc = NoRun
  BY DEF NoRun, Run, NoUnit
<1>2. CASE os' = os /\ killed' = killed /\ unit' = unit
  BY <1>2, HostKeeps
<1>3. CASE /\ \A s \in Role, m \in Run :
                os'[s][m] = IF s = r /\ m = unit[r].proc /\ os[s][m] = "running"
                            THEN "dead" ELSE os[s][m]
           /\ killed' = killed \ {<<r, unit[r].proc>>}
           /\ unit' = [unit EXCEPT ![r] = NoUnit]
  <2>1. unit'[r].proc = NoRun /\ \A s \in Role \ {r} : unit'[s] = unit[s]
    BY <1>1, <1>3 DEF UnitType, HostType
  <2> SUFFICES ASSUME NEW s \in Role, NEW n \in Run
               PROVE /\ os'[s][n] = "running" => unit'[s].proc = n /\ ~unit'[s].reaped
                     /\ <<s, n>> \in killed' => os'[s][n] = "running"
                     /\ n \in {unit'[s].proc, cur'[s]} \/ w'[s][n] # "none" => os'[s][n] # "unused"
    BY DEF HostInv
  <2>2. CASE s # r
    <3>1. os'[s][n] = os[s][n] /\ unit'[s] = unit[s] /\ cur'[s] = cur[s]
      BY Zenon, <1>3, <2>1, <2>2
    <3>2. <<s, n>> \in killed' => <<s, n>> \in killed
      BY Zenon, <1>3
    <3>3. w'[s][n] # "none" => w[s][n] # "none"
      BY Zenon
    <3>4. /\ os[s][n] = "running" => unit[s].proc = n /\ ~unit[s].reaped
          /\ <<s, n>> \in killed => os[s][n] = "running"
          /\ n \in {unit[s].proc, cur[s]} \/ w[s][n] # "none" => os[s][n] # "unused"
      BY Zenon DEF HostInv
    <3> QED BY <3>1, <3>2, <3>3, <3>4
  <2>3. CASE s = r
    BY <1>1, <1>3, <2>1, <2>3 DEF HostInv
  <2> QED BY <2>2, <2>3
<1> QED BY <1>2, <1>3, ReleaseSteps DEF UnitType

\* Every step keeps HostInv.
LEMMA HostInvStep == UnitType /\ DriverInv /\ HostInv /\ [Next]_vars => HostInv'
<1> SUFFICES ASSUME UnitType, DriverInv, HostInv, [Next]_vars PROVE HostInv'
  OBVIOUS
<1>1. ASSUME NEW r \in Role, Reap(r) PROVE HostInv'
  <2>1. unit'[r].proc = unit[r].proc /\ \A s \in Role \ {r} : unit'[s] = unit[s]
    BY <1>1 DEF Reap, UnitType, HostType
  <2>2. \A n \in Run : os[r][n] # "running"
    BY Zenon, <1>1 DEF Reap, HostInv
  <2>3. os' = os /\ killed' = killed /\ w' = w /\ cur' = cur
    BY <1>1 DEF Reap, watchVars
  <2> QED BY <2>1, <2>2, <2>3 DEF HostInv
<1>2. ASSUME NEW r \in Role, NEW n \in Run, ProcessExits(r, n) PROVE HostInv'
  <2>1. os'[r][n] = "dead" /\ \A s \in Role, m \in Run : s # r \/ m # n => os'[s][m] = os[s][m]
    BY <1>2 DEF ProcessExits, UnitType, HostType
  <2>2. killed' = killed \ {<<r, n>>} /\ unit' = unit /\ w' = w /\ cur' = cur
    BY <1>2 DEF ProcessExits, watchVars
  <2> QED BY <2>1, <2>2 DEF HostInv
<1>3. ASSUME NEW r \in Role, NEW n \in Run, Watch(r, n) \/ Poll(r, n) \/ ExitStatus(r, n) PROVE HostInv'
  <2>1. PICK x : w' = [w EXCEPT ![r][n] = x] /\ w[r][n] # "none"
    BY <1>3 DEF Watch, Poll, ExitStatus, Settle
  <2>2. \A s \in Role, m \in Run : w'[s][m] # "none" => w[s][m] # "none"
    BY <2>1, WatcherSet DEF UnitType
  <2>3. os' = os /\ unit' = unit /\ killed' = killed /\ cur' = cur
    BY <1>3 DEF Watch, Poll, ExitStatus, hostVars
  <2> QED BY <2>2, <2>3, HostKeeps
<1>4. ASSUME NEW r \in Role, NEW n \in Run, SettleRelease(r, n) PROVE HostInv'
  <2>1. \A s \in Role, m \in Run : w'[s][m] # "none" => w[s][m] # "none"
    BY <1>4, WatcherSet DEF SettleRelease, UnitType
  <2> QED BY <1>4, <2>1, HostReleases DEF SettleRelease
<1>5. CASE \/ Begin \/ Show \/ Prepare \/ QEMUReady \/ KillWait \/ OnExit \/ TPMTerm \/ TPMKillWait
           \/ Stop \/ Powerdown \/ Term \/ StopKillWait \/ StopReturn \/ Load \/ AttachReady
  <2>1. os' = os /\ unit' = unit /\ killed' = killed /\ cur' = cur /\ w' = w
    BY <1>5 DEF Begin, Show, Prepare, QEMUReady, KillWait, OnExit, TPMTerm, TPMKillWait, Stop, Powerdown,
       Term, StopStep, StopKillWait, StopReturn, Load, AttachReady, StopUnchanged, hostVars, watchVars
  <2> QED BY <2>1, HostKeeps
<1>6. CASE TPMReady \/ KillQEMU \/ TPMKill
  <2>1. os' = os /\ unit' = unit /\ w' = w /\ \A s \in Role : cur'[s] \in {cur[s], NoRun}
    BY <1>6 DEF TPMReady, KillQEMU, TPMKill, UnitType, ServiceType
  <2>2. cur["swtpm"] \in AnyRun /\ cur["qemu"] \in AnyRun /\ {"swtpm", "qemu"} = Role
    BY HeldRuns DEF UnitType, Role
  <2>3. killed' = killed \/ \E r \in Role, n \in AnyRun : SigKill(r, n)
    BY <1>6, <2>2 DEF TPMReady, KillQEMU, TPMKill
  <2> QED BY <2>1, <2>3, HostKeeps, HostKills
<1>7. CASE Kill \/ KillAgain
  <2>1. os' = os /\ unit' = unit /\ w' = w /\ cur' = cur
    BY <1>7 DEF Kill, KillAgain, StopKill, StopUnchanged, watchVars
  <2>2. stp.qemu \in AnyRun /\ "qemu" \in Role
    BY HeldRuns DEF UnitType, Role
  <2>3. killed' = killed \/ \E r \in Role, n \in AnyRun : SigKill(r, n)
    BY <1>7, <2>2 DEF Kill, KillAgain, StopKill
  <2> QED BY Zenon, <2>1, <2>3, HostKeeps, HostKills
<1>8. CASE Clean
  <2>1. drv.role \in Role
    BY <1>8 DEF Clean, DriverInv
  <2> QED BY <1>8, <2>1, HostReleases DEF Clean, watchVars
<1>9. CASE RunUnit
  <2> DEFINE r == drv.role
             n == Fresh(r)
  <2>1. drv.role \in Role /\ n \in Run /\ os[r][n] = "unused"
    BY <1>9, FreshRun DEF RunUnit, DriverInv, Starting
  <2>2. killed' = killed /\ w' = w
    BY <1>9 DEF RunUnit, watchVars
  <2>3. CASE os' = os /\ unit' = unit /\ cur' = cur
    BY <2>2, <2>3, HostKeeps
  <2>4. CASE /\ ~Loaded(r) /\ os' = [os EXCEPT ![r][n] = "running"]
             /\ unit' = [unit EXCEPT ![r] = [proc |-> n, reaped |-> FALSE]]
             /\ cur' = [cur EXCEPT ![r] = n]
    <3>1. os'[r][n] = "running" /\ \A s \in Role, m \in Run : s # r \/ m # n => os'[s][m] = os[s][m]
      BY <2>1, <2>4 DEF UnitType, HostType
    <3>2. /\ unit'[r].proc = n /\ ~unit'[r].reaped /\ \A s \in Role \ {r} : unit'[s] = unit[s]
          /\ cur'[r] = n /\ \A s \in Role \ {r} : cur'[s] = cur[s]
      BY <2>1, <2>4 DEF UnitType, HostType, ServiceType
    <3>5. r \in Role /\ unit[r].proc = NoRun
      BY <2>1, <2>4 DEF Loaded
    <3>6. NoRun \notin Run
      BY DEF NoRun, Run
    <3> HIDE DEF r, n
    <3>3. \A m \in Run : os[r][m] # "running"
      BY Zenon, <3>5, <3>6 DEF HostInv
    <3>4. <<r, n>> \notin killed /\ w[r][n] = "none"
      BY <2>1, <3>5 DEF HostInv
    <3> SUFFICES ASSUME NEW s \in Role, NEW m \in Run
                 PROVE /\ os'[s][m] = "running" => unit'[s].proc = m /\ ~unit'[s].reaped
                       /\ <<s, m>> \in killed' => os'[s][m] = "running"
                       /\ m \in {unit'[s].proc, cur'[s]} \/ w'[s][m] # "none" => os'[s][m] # "unused"
      BY DEF HostInv
    <3>7. CASE s # r
      BY <2>2, <3>1, <3>2, <3>7 DEF HostInv
    <3>8. CASE s = r
      BY <2>1, <2>2, <3>1, <3>2, <3>3, <3>4, <3>5, <3>8 DEF HostInv
    <3> QED BY <3>7, <3>8
  <2> QED BY <1>9, <2>3, <2>4 DEF RunUnit, NameTaken
<1>10. CASE Look
  <2>1. drv.role \in Role /\ cur[drv.role] \in Run
    BY <1>10 DEF Look, DriverInv, UnitType, ServiceType, AnyRun
  <2>2. os' = os /\ unit' = unit /\ killed' = killed /\ \A s \in Role : cur'[s] \in {cur[s], NoRun}
    BY <1>10 DEF Look, hostVars, UnitType, ServiceType
  <2>3. w' = w \/ Watcher(drv.role, cur[drv.role])
    BY <1>10 DEF Look
  <2>4. ASSUME NEW s \in Role, NEW m \in Run, w'[s][m] # "none"
        PROVE w[s][m] # "none" \/ m \in {cur[s], unit[s].proc}
    <3>1. Watcher(drv.role, cur[drv.role]) =>
            (s = drv.role /\ m = cur[drv.role]) \/ w'[s][m] = w[s][m]
      BY <2>1 DEF Watcher, UnitType, WatchType
    <3> QED BY <2>3, <2>4, <3>1
  <2> QED BY <2>2, <2>4, HostKeeps
<1>11. CASE AttachTPM \/ AttachQEMU
  <2>1. PICK r \in Role, l \in DriverPC, k \in DriverPC : Attach(r, l, k)
    BY <1>11 DEF AttachTPM, AttachQEMU, Role, DriverPC
  <2>2. Loaded(r) => unit[r].proc \in Run
    BY DEF UnitType, HostType, AnyRun, Loaded
  <2>3. os' = os /\ unit' = unit /\ killed' = killed
    BY <1>11 DEF AttachTPM, AttachQEMU, hostVars
  <2>4. \A s \in Role : cur'[s] \in {cur[s], unit[s].proc}
    BY <2>1 DEF Attach, UnitType, ServiceType
  <2>5. w' = w \/ (Loaded(r) /\ Watcher(r, unit[r].proc))
    BY <2>1 DEF Attach
  <2>6. ASSUME NEW s \in Role, NEW m \in Run, w'[s][m] # "none"
        PROVE w[s][m] # "none" \/ m \in {cur[s], unit[s].proc}
    <3>1. Watcher(r, unit[r].proc) => (s = r /\ m = unit[r].proc) \/ w'[s][m] = w[s][m]
      BY <2>2 DEF Watcher, UnitType, WatchType
    <3> QED BY <2>5, <2>6, <3>1
  <2> QED BY <2>3, <2>4, <2>6, HostKeeps
<1>12. CASE SettleRecord \/ Restart
  <2>1. os' = os /\ unit' = unit /\ killed' = killed /\ \A s \in Role : cur'[s] = NoRun
    BY <1>12 DEF SettleRecord, Restart, NoneHeld, hostVars
  <2>2. \A s \in Role, m \in Run : w'[s][m] # "none" => w[s][m] # "none"
    BY <1>12 DEF SettleRecord, Restart, PerRun, watchVars
  <2> QED BY <2>1, <2>2, HostKeeps
<1>13. CASE UNCHANGED vars
  <2>1. os' = os /\ unit' = unit /\ killed' = killed /\ cur' = cur /\ w' = w
    BY <1>13 DEF vars, hostVars, watchVars
  <2> QED BY <2>1, HostKeeps
<1> QED BY <1>1, <1>2, <1>3, <1>4, <1>5, <1>6, <1>7, <1>8, <1>9, <1>10, <1>11, <1>12, <1>13
        DEF Next, WatcherStep, DriverStep, StopperStep

-----------------------------------------------------------------------------
(* DriverInv is kept.                                                      *)

\* The driver stays where it is; the processes it knows stay known.
LEMMA DriverKeeps ==
  ASSUME UnitType, DriverInv, drv' = drv, cur' = cur, proc' = proc, mgr' = mgr,
         stp'.pc = "idle" \/ (mgr = "up" /\ drv.pc \notin {"atpm", "aqemu", "aready"}),
         \A r \in Role, n \in Run : os'[r][n] = "unused" <=> os[r][n] = "unused",
         \A r \in Role, n \in Run : w'[r][n] = "none" <=> w[r][n] = "none",
         \A r \in Role : unit'[r].proc \in {unit[r].proc, NoRun}
  PROVE DriverInv'
<1>1. \A r \in Role : Used(r)' = Used(r)
  BY Zenon DEF Used
<1>2. \A r \in Role : cur[r] # NoRun => cur[r] \in Run
  <2>1. cur \in [Role -> AnyRun]
    BY Zenon DEF UnitType, ServiceType
  <2> QED BY <2>1 DEF AnyRun
<1>3. \A r \in Role : cur[r] # NoRun => (w'[r][cur[r]] = "none" <=> w[r][cur[r]] = "none")
  BY Zenon, <1>2
<1>4. "qemu" \in Role /\ "swtpm" \in Role
  BY DEF Role
<1>5. /\ \A r \in Role : Starting(r) /\ drv.pc # "look" => Used(r)' # Run
      /\ Starting("swtpm") \/ drv.pc = "prepare" \/ (drv.pc = "ready" /\ drv.role = "swtpm") =>
           Used("qemu")' # Run
  BY <1>1, <1>4 DEF DriverInv
<1>6. drv.pc = "look" => /\ drv.role \in Role
                         /\ cur[drv.role] # NoRun /\ w'[drv.role][cur[drv.role]] = "none"
                         /\ unit'[drv.role].proc \in {NoRun, cur[drv.role]}
  BY <1>3 DEF DriverInv
<1>7. \A r \in Role : cur[r] # NoRun => w'[r][cur[r]] # "none" \/ (drv.pc = "look" /\ drv.role = r)
  <2> SUFFICES ASSUME NEW r \in Role, cur[r] # NoRun
               PROVE w'[r][cur[r]] # "none" \/ (drv.pc = "look" /\ drv.role = r)
    BY Zenon
  <2>1. w[r][cur[r]] # "none" \/ (drv.pc = "look" /\ drv.role = r)
    BY DEF DriverInv
  <2> QED BY Zenon, <1>3, <2>1
<1>8. /\ mgr = "down" => drv.pc = "idle" /\ stp'.pc = "idle"
      /\ drv.pc \in {"atpm", "aqemu", "aready"} => stp'.pc = "idle"
  BY DEF DriverInv
<1>9. \A r \in Role : Starting(r)' <=> Starting(r)
  BY Zenon DEF Starting
<1>10. /\ \A r \in Role : Starting(r)' /\ drv'.pc # "look" => Used(r)' # Run
       /\ Starting("swtpm")' \/ drv'.pc = "prepare" \/ (drv'.pc = "ready" /\ drv'.role = "swtpm") =>
            Used("qemu")' # Run
  BY Zenon, <1>4, <1>5, <1>9
<1>11. /\ drv'.pc \in {"show", "clean", "run", "look", "ready"} => drv'.role \in Role
       /\ drv'.pc = "prepare" => drv'.role = "swtpm"
       /\ drv'.pc = "ready" => cur'[drv'.role] # NoRun
       /\ drv'.pc \in {"kill", "killwait", "up", "aready"} => cur'["qemu"] # NoRun
       /\ drv'.pc \in {"tkill", "tkwait"} => cur'["swtpm"] # NoRun
       /\ drv'.pc \notin {"up", "tterm", "tkill", "tkwait", "settle"} => proc' = NoRun
       /\ drv'.pc = "up" => proc' = cur'["qemu"]
  BY Zenon DEF DriverInv
<1>12. /\ mgr' = "down" => drv'.pc = "idle" /\ stp'.pc = "idle"
       /\ drv'.pc \in {"atpm", "aqemu", "aready"} => stp'.pc = "idle"
  BY Zenon, <1>8
<1>13. /\ drv'.pc = "look" => /\ cur'[drv'.role] # NoRun /\ w'[drv'.role][cur'[drv'.role]] = "none"
                              /\ unit'[drv'.role].proc \in {NoRun, cur'[drv'.role]}
       /\ \A r \in Role :
             cur'[r] # NoRun => w'[r][cur'[r]] # "none" \/ (drv'.pc = "look" /\ drv'.role = r)
  BY Zenon, <1>6, <1>7
<1> QED BY Zenon, <1>10, <1>11, <1>12, <1>13 DEF DriverInv

\* Every step keeps DriverInv.
LEMMA DriverInvStep == UnitType /\ HostInv /\ DriverInv /\ [Next]_vars => DriverInv'
<1> SUFFICES ASSUME UnitType, HostInv, DriverInv, [Next]_vars PROVE DriverInv'
  OBVIOUS
<1> DEFINE Up == mgr = "up" /\ drv.pc \notin {"atpm", "aqemu", "aready"}
<1>1. ASSUME NEW r \in Role, Reap(r) PROVE DriverInv'
  <2>1. \A s \in Role : unit'[s].proc = unit[s].proc
    BY <1>1 DEF Reap, UnitType, HostType
  <2>2. /\ os' = os /\ w' = w /\ drv' = drv /\ cur' = cur /\ proc' = proc /\ mgr' = mgr /\ stp' = stp
    BY <1>1 DEF Reap, watchVars
  <2>3. stp'.pc = "idle" \/ Up
    BY <2>2 DEF DriverInv, UnitType, ServiceType
  <2> QED BY <2>1, <2>2, <2>3, DriverKeeps
<1>2. ASSUME NEW r \in Role, NEW n \in Run, ProcessExits(r, n) PROVE DriverInv'
  <2>1. \A s \in Role, m \in Run : os'[s][m] = "unused" <=> os[s][m] = "unused"
    BY <1>2 DEF ProcessExits, UnitType, HostType
  <2>2. /\ unit' = unit /\ w' = w /\ drv' = drv /\ cur' = cur /\ proc' = proc /\ mgr' = mgr /\ stp' = stp
    BY <1>2 DEF ProcessExits, watchVars
  <2>3. stp'.pc = "idle" \/ Up
    BY <2>2 DEF DriverInv, UnitType, ServiceType
  <2> QED BY <2>1, <2>2, <2>3, DriverKeeps
<1>3. ASSUME NEW r \in Role, NEW n \in Run, WatcherStep(r, n) PROVE DriverInv'
  <2>1. PICK x : w' = [w EXCEPT ![r][n] = x] /\ w[r][n] # "none" /\ x # "none"
    BY <1>3 DEF WatcherStep, Watch, Poll, ExitStatus, Settle, SettleRelease
  <2>2. \A s \in Role, m \in Run : w'[s][m] = "none" <=> w[s][m] = "none"
    BY <2>1, WatcherSet DEF UnitType
  <2>3. drv' = drv /\ cur' = cur /\ proc' = proc /\ mgr' = mgr /\ stp' = stp
    BY <1>3 DEF WatcherStep, Watch, Poll, ExitStatus, SettleRelease
  <2>4. stp'.pc = "idle" \/ Up
    BY <2>3 DEF DriverInv, UnitType, ServiceType
  <2>5. (os' = os /\ unit' = unit) \/ Release(r)
    BY <1>3 DEF WatcherStep, Watch, Poll, ExitStatus, SettleRelease, hostVars
  <2>6. CASE os' = os /\ unit' = unit
    BY Zenon, <2>2, <2>3, <2>4, <2>6, DriverKeeps
  <2>7. CASE Release(r)
    BY Zenon, <2>2, <2>3, <2>4, <2>7, ReleaseKeeps, DriverKeeps DEF UnitType
  <2> QED BY <2>5, <2>6, <2>7
<1>4. CASE Stop \/ StopperStep
  <2>1. /\ os' = os /\ w' = w /\ drv' = drv /\ cur' = cur /\ proc' = proc /\ mgr' = mgr /\ unit' = unit
    BY <1>4 DEF Stop, StopperStep, Powerdown, Term, StopStep, Kill, KillAgain, StopKill, StopKillWait,
       StopReturn, StopUnchanged, watchVars
  <2>2. stp.pc # "idle" \/ (mgr = "up" /\ proc # NoRun)
    BY <1>4 DEF Stop, StopperStep, Powerdown, Term, StopStep, Kill, KillAgain, StopKill, StopKillWait,
       StopReturn
  <2>3. Up
    BY <2>2 DEF DriverInv, UnitType, ServiceType
  <2> QED BY <2>1, <2>3, DriverKeeps
<1>5. ASSUME os' = os, unit' = unit, w' = w, cur' = cur, mgr' = mgr, stp' = stp, proc' = proc,
             drv'.role = drv.role, drv.pc # "look", drv'.pc # "look",
             \/ drv.pc = "show" /\ drv'.pc \in {"clean", "run"}
             \/ drv'.pc = "settle" /\ drv.pc # "idle"
             \/ drv.pc \in {"show", "run", "kill", "killwait", "up"} /\ drv'.pc = "tterm"
             \/ drv.pc = "ready" /\ drv.role = "swtpm" /\ drv'.pc = "prepare"
             \/ drv.pc = "ready" /\ drv.role = "qemu" /\ drv'.pc = "kill"
             \/ drv.pc = "kill" /\ drv'.pc = "killwait"
             \/ drv.pc = "tterm" /\ drv'.pc = "tkill" /\ cur["swtpm"] # NoRun
             \/ drv.pc = "tkill" /\ drv'.pc = "tkwait"
      PROVE DriverInv'
  <2>1. \A r \in Role : Used(r)' = Used(r)
    BY <1>5 DEF Used
  <2>2. mgr = "up" /\ "swtpm" \in Role /\ "qemu" \in Role
    BY Zenon, <1>5 DEF DriverInv, UnitType, ServiceType, Role
  <2>3. \A r \in Role : cur'[r] # NoRun => w'[r][cur'[r]] # "none"
    BY <1>5 DEF DriverInv
  <2> QED BY Zenon, <1>5, <2>1, <2>2, <2>3 DEF DriverInv, Starting
<1>6. CASE Show
  <2>1. os' = os /\ unit' = unit /\ w' = w /\ cur' = cur /\ mgr' = mgr /\ stp' = stp /\ proc' = proc
    BY <1>6 DEF Show, hostVars, watchVars
  <2>2. drv'.role = drv.role /\ drv'.pc \in {"clean", "run", "settle", "tterm"}
    BY <1>6, GotoType, StartFailedSteps DEF Show, DriverPC, UnitType
  <2> QED BY <1>5, <1>6, <2>1, <2>2 DEF Show
<1>7. CASE \/ KillWait \/ OnExit \/ TPMTerm \/ TPMKillWait \/ TPMKill \/ KillQEMU
  <2>1. os' = os /\ unit' = unit /\ w' = w /\ cur' = cur /\ mgr' = mgr /\ stp' = stp /\ proc' = proc
    BY <1>7 DEF KillWait, OnExit, TPMTerm, TPMKillWait, TPMKill, KillQEMU, hostVars, watchVars
  <2>2. /\ drv'.role = drv.role
        /\ \/ drv.pc \in {"kill", "killwait", "up"} /\ drv'.pc = "tterm"
           \/ drv.pc = "kill" /\ drv'.pc = "killwait"
           \/ drv.pc = "tterm" /\ drv'.pc = "tkill" /\ cur["swtpm"] # NoRun
           \/ drv.pc = "tkill" /\ drv'.pc = "tkwait"
           \/ drv.pc \in {"tterm", "tkill", "tkwait"} /\ drv'.pc = "settle"
    BY <1>7, GotoType DEF KillWait, OnExit, TPMTerm, TPMKillWait, TPMKill, KillQEMU, DriverPC, UnitType
  <2> QED BY <1>5, <2>1, <2>2
<1>8. CASE QEMUReady
  <2>1. os' = os /\ unit' = unit /\ w' = w /\ cur' = cur /\ mgr' = mgr /\ stp' = stp
    BY <1>8 DEF QEMUReady, hostVars, watchVars
  <2>2. CASE Goto("kill") /\ UNCHANGED <<proc, rec>>
    <3>1. drv'.role = drv.role /\ drv'.pc = "kill"
      BY <2>2, GotoType DEF DriverPC, UnitType
    <3> QED BY <1>5, <1>8, <2>1, <2>2, <3>1 DEF QEMUReady
  <2>3. CASE Goto("up") /\ proc' = cur["qemu"]
    <3>1. drv'.role = drv.role /\ drv'.pc = "up"
      BY <2>3, GotoType DEF DriverPC, UnitType
    <3>2. drv.pc = "ready" /\ drv.role = "qemu" /\ mgr = "up"
      BY Zenon, <1>8 DEF QEMUReady, DriverInv, UnitType, ServiceType
    <3>3. \A r \in Role : Used(r)' = Used(r)
      BY <2>1 DEF Used
    <3> QED BY <2>1, <2>3, <3>1, <3>2, <3>3 DEF DriverInv, Starting
  <2> QED BY <1>8, <2>2, <2>3 DEF QEMUReady
<1>9. CASE TPMReady
  <2>1. os' = os /\ unit' = unit /\ w' = w /\ mgr' = mgr /\ stp' = stp /\ proc' = proc
    BY <1>9 DEF TPMReady
  <2>2. CASE Goto("prepare") /\ cur' = cur
    <3>1. drv'.role = drv.role /\ drv'.pc = "prepare"
      BY <2>2, GotoType DEF DriverPC, UnitType
    <3> QED BY <1>5, <1>9, <2>1, <2>2, <3>1 DEF TPMReady
  <2>3. CASE Goto("settle") /\ cur' = [cur EXCEPT !["swtpm"] = NoRun]
    <3>1. drv'.role = drv.role /\ drv'.pc = "settle" /\ drv.pc = "ready" /\ mgr = "up"
      BY Zenon, <1>9, <2>3, GotoType DEF TPMReady, DriverPC, UnitType, DriverInv, ServiceType
    <3>2. \A r \in Role : cur'[r] \in {cur[r], NoRun}
      BY <2>3 DEF UnitType, ServiceType
    <3> QED BY Zenon, <2>1, <3>1, <3>2 DEF DriverInv, Starting
  <2> QED BY <1>9, <2>2, <2>3 DEF TPMReady
<1>10. CASE Begin
  <2>1. os' = os /\ unit' = unit /\ w' = w /\ cur' = cur /\ mgr' = mgr /\ stp' = stp /\ proc' = proc
    BY <1>10 DEF Begin, hostVars, watchVars
  <2>2. drv'.pc = "show" /\ drv'.role = "swtpm" /\ mgr = "up" /\ drv.pc = "idle"
    BY <1>10 DEF Begin
  <2>3. \A r \in Role : Used(r)' = Used(r) /\ Used(r) # Run
    BY <1>10, <2>1 DEF Begin, Used
  <2>4. "swtpm" \in Role /\ "qemu" \in Role
    BY DEF Role
  <2> QED BY <2>1, <2>2, <2>3, <2>4 DEF DriverInv, Starting
<1>11. CASE Prepare
  <2>1. os' = os /\ unit' = unit /\ w' = w /\ cur' = cur /\ mgr' = mgr /\ stp' = stp /\ proc' = proc
    BY <1>11 DEF Prepare, hostVars, watchVars
  <2>2. drv'.pc = "show" /\ drv'.role = "qemu" /\ mgr = "up" /\ drv.pc = "prepare"
    BY <1>11 DEF Prepare, DriverInv, UnitType, ServiceType
  <2>3. \A r \in Role : Used(r)' = Used(r)
    BY <2>1 DEF Used
  <2>4. "swtpm" \in Role /\ "qemu" \in Role
    BY DEF Role
  <2> QED BY Zenon, <2>1, <2>2, <2>3, <2>4 DEF DriverInv, Starting
<1>12. CASE Clean
  <2>1. /\ \A r \in Role, n \in Run : os'[r][n] = "unused" <=> os[r][n] = "unused"
        /\ \A r \in Role : unit'[r].proc \in {unit[r].proc, NoRun}
    BY Zenon, <1>12, ReleaseKeeps DEF Clean, UnitType, DriverInv
  <2>2. w' = w /\ cur' = cur /\ mgr' = mgr /\ stp' = stp /\ proc' = proc
    BY <1>12 DEF Clean, watchVars
  <2>3. drv'.role = drv.role /\ drv'.pc = "run" /\ drv.pc = "clean" /\ mgr = "up"
    BY Zenon, <1>12, GotoType DEF Clean, DriverPC, UnitType, DriverInv, ServiceType
  <2>4. \A r \in Role : Used(r)' = Used(r)
    BY <2>1 DEF Used
  <2>5. "swtpm" \in Role /\ "qemu" \in Role
    BY DEF Role
  <2> QED BY ZenonT(30), <2>1, <2>2, <2>3, <2>4, <2>5 DEF DriverInv, Starting
<1>13. CASE RunUnit
  <2> DEFINE r == drv.role
             n == Fresh(r)
  <2>1. r \in Role /\ n \in Run /\ os[r][n] = "unused" /\ mgr = "up" /\ drv.pc = "run"
    BY <1>13, FreshRun DEF RunUnit, DriverInv, Starting, UnitType, ServiceType
  <2>2. w' = w /\ mgr' = mgr /\ stp' = stp /\ proc' = proc
    BY <1>13 DEF RunUnit, watchVars
  <2>3. CASE StartFailed /\ UNCHANGED <<os, unit, sock, cur>>
    <3>1. drv'.role = drv.role /\ drv'.pc \in {"settle", "tterm"}
      BY <2>3, StartFailedSteps DEF UnitType
    <3> QED BY <1>5, <2>1, <2>2, <2>3, <3>1
  <2>4. CASE /\ os' = [os EXCEPT ![r][n] = "running"]
             /\ unit' = [unit EXCEPT ![r] = [proc |-> n, reaped |-> FALSE]]
             /\ cur' = [cur EXCEPT ![r] = n] /\ Goto("look")
    <3>1. drv'.role = r /\ drv'.pc = "look"
      BY <2>4, GotoType DEF UnitType, DriverPC
    <3>2. unit'[r].proc = n /\ cur'[r] = n /\ \A s \in Role \ {r} : cur'[s] = cur[s]
      BY <2>1, <2>4 DEF UnitType, HostType, ServiceType
    <3>3. w[r][n] = "none"
      <4> HIDE DEF n, r
      <4> QED BY Zenon, <2>1 DEF HostInv
    <3>4. \A s \in Role, m \in Run : s # r => os'[s][m] = os[s][m]
      BY <2>1, <2>4 DEF UnitType, HostType
    <3>5. \A s \in Role \ {r} : Used(s)' = Used(s)
      BY <3>4 DEF Used
    <3>6. NoRun \notin Run /\ "swtpm" \in Role /\ "qemu" \in Role
      BY DEF NoRun, Run, Role
    <3>7. r = "swtpm" => Used("qemu") # Run
      BY <2>1 DEF DriverInv, Starting
    <3>8. r = drv.role
      OBVIOUS
    <3>9. r = "swtpm" => Used("qemu")' # Run
      BY <3>5, <3>6, <3>7
    <3> HIDE DEF n, r
    <3>10. \A s \in Role : cur'[s] # NoRun => w'[s][cur'[s]] # "none" \/ s = r
      BY <2>1, <2>2, <3>2, <3>8 DEF DriverInv
    <3>11. proc' = NoRun
      BY <2>1, <2>2 DEF DriverInv
    <3> QED BY Zenon, <2>1, <2>2, <3>1, <3>2, <3>3, <3>6, <3>9, <3>10, <3>11 DEF DriverInv, Starting
  <2> QED BY <1>13, <2>3, <2>4 DEF RunUnit
<1>14. CASE Look
  <2> DEFINE r == drv.role
             n == cur[r]
  <2>1. r \in Role /\ n \in Run /\ mgr = "up" /\ drv.pc = "look"
    BY <1>14 DEF Look, DriverInv, UnitType, ServiceType, AnyRun
  <2>2. os' = os /\ unit' = unit /\ mgr' = mgr /\ stp' = stp /\ proc' = proc
    BY <1>14 DEF Look, hostVars
  <2>3. \A s \in Role : Used(s)' = Used(s)
    BY <2>2 DEF Used
  <2>4. NoRun \notin Run /\ "swtpm" \in Role /\ "qemu" \in Role /\ proc = NoRun
    <3>1. NoRun \notin Run
      BY DEF NoRun, Run
    <3>2. proc = NoRun
      BY Zenon, <2>1 DEF DriverInv
    <3> QED BY Zenon, <3>1, <3>2 DEF Role
  <2>5. CASE StartFailed /\ cur' = [cur EXCEPT ![r] = NoRun] /\ w' = w
    <3>1. drv'.role = r /\ drv'.pc \in {"settle", "tterm"}
      BY <2>5, StartFailedSteps DEF UnitType
    <3>2. cur'[r] = NoRun /\ \A s \in Role \ {r} : cur'[s] = cur[s]
      BY <2>1, <2>5 DEF UnitType, ServiceType
    <3>3. \A s \in Role : cur'[s] # NoRun => w'[s][cur'[s]] # "none"
      BY <2>1, <2>5, <3>2 DEF DriverInv
    <3> QED BY Zenon, <2>1, <2>2, <2>4, <3>1, <3>3 DEF DriverInv, Starting
  <2>6. CASE Watcher(r, n) /\ Goto("ready") /\ cur' = cur
    <3>1. drv'.role = r /\ drv'.pc = "ready"
      BY <2>6, GotoType DEF UnitType, DriverPC
    <3>2. w'[r][n] # "none" /\ \A s \in Role, m \in Run : w[s][m] # "none" => w'[s][m] # "none"
      BY <2>1, <2>6 DEF Watcher, UnitType, WatchType
    <3>3. \A s \in Role : cur[s] # NoRun => cur[s] \in Run
      BY DEF UnitType, ServiceType, AnyRun
    <3>4. \A s \in Role : cur'[s] # NoRun => w'[s][cur'[s]] # "none"
      BY Zenon, <2>6, <3>2, <3>3 DEF DriverInv
    <3>5. r = "swtpm" => Used("qemu")' # Run
      BY Zenon, <2>1, <2>3, <2>4 DEF DriverInv, Starting
    <3>6. cur'[r] # NoRun
      BY <2>1, <2>4, <2>6
    <3> QED BY Zenon, <2>1, <2>2, <2>4, <3>1, <3>4, <3>5, <3>6 DEF DriverInv, Starting
  <2> QED BY <1>14, <2>5, <2>6 DEF Look
<1>15. CASE SettleRecord \/ Restart
  <2>1. drv' = IdleDriver /\ drv'.pc = "idle" /\ proc' = NoRun /\ \A r \in Role : cur'[r] = NoRun
    BY <1>15 DEF SettleRecord, Restart, IdleDriver, NoneHeld
  <2>2. mgr' = "down" => stp'.pc = "idle"
    <3>1. CASE SettleRecord
      BY <3>1 DEF SettleRecord, DriverInv
    <3>2. CASE Restart
      BY <3>2 DEF Restart, IdleStop
    <3> QED BY <1>15, <3>1, <3>2
  <2> QED BY Zenon, <2>1, <2>2 DEF DriverInv, Starting
<1>16. CASE Load
  <2>1. os' = os /\ unit' = unit /\ w' = w /\ cur' = cur /\ mgr' = "up" /\ stp' = stp /\ proc' = proc
    BY <1>16 DEF Load, hostVars, watchVars
  <2>2. drv.pc = "idle" /\ stp.pc = "idle" /\ drv'.pc \in {"atpm", "idle"}
    BY <1>16, GotoType DEF Load, DriverInv, UnitType, DriverPC
  <2> QED BY Zenon, <2>1, <2>2 DEF DriverInv, Starting
<1>17. ASSUME NEW r \in Role, NEW l \in DriverPC, NEW k \in DriverPC, Attach(r, l, k),
              <<r, l, k, drv.pc>> \in {<<"swtpm", "aqemu", "aqemu", "atpm">>, <<"qemu", "aready", "tterm", "aqemu">>},
              os' = os, unit' = unit, mgr' = mgr, stp' = stp, proc' = proc
       PROVE DriverInv'
  <2>1. drv'.role = drv.role /\ drv'.pc \in {l, k} /\ (cur' = cur \/ drv'.pc = l)
    BY <1>17, GotoType DEF Attach, UnitType
  <2>2. mgr = "up" /\ stp.pc = "idle" /\ proc = NoRun
    BY <1>17 DEF DriverInv, UnitType, ServiceType
  <2>3. CASE Goto(k) /\ cur' = cur /\ w' = w
    <3>1. drv'.pc = k
      BY <2>3, GotoType DEF UnitType
    <3> QED BY Zenon, <1>17, <2>1, <2>2, <2>3, <3>1 DEF DriverInv, Starting
  <2>4. CASE Goto(l) /\ Loaded(r) /\ Watcher(r, unit[r].proc) /\ cur' = [cur EXCEPT ![r] = unit[r].proc]
    <3>1. unit[r].proc \in Run /\ NoRun \notin Run
      <4>1. unit[r].proc \in Run \cup {NoRun}
        BY <1>17 DEF UnitType, HostType, AnyRun
      <4>2. unit[r].proc # NoRun /\ NoRun \notin Run
        BY <2>4 DEF Loaded, NoRun, Run
      <4> QED BY <4>1, <4>2
    <3>2. cur'[r] = unit[r].proc /\ \A s \in Role \ {r} : cur'[s] = cur[s]
      BY <1>17, <2>4 DEF UnitType, ServiceType
    <3>3. w'[r][unit[r].proc] # "none" /\ \A s \in Role, m \in Run : w[s][m] # "none" => w'[s][m] # "none"
      BY <1>17, <2>4, <3>1 DEF Watcher, UnitType, WatchType
    <3>4. \A s \in Role : cur[s] # NoRun => cur[s] \in Run /\ w[s][cur[s]] # "none"
      BY <1>17 DEF UnitType, ServiceType, AnyRun, DriverInv
    <3>5. \A s \in Role : cur'[s] # NoRun => w'[s][cur'[s]] # "none"
      BY Zenon, <3>1, <3>2, <3>3, <3>4
    <3>6. drv'.pc = l
      BY <2>4, GotoType DEF UnitType
    <3> QED BY Zenon, <1>17, <2>1, <2>2, <3>1, <3>2, <3>5, <3>6 DEF DriverInv, Starting
  <2> QED BY <1>17, <2>3, <2>4 DEF Attach
<1>18. CASE AttachTPM \/ AttachQEMU
  <2>1. "swtpm" \in Role /\ "qemu" \in Role /\ {"aqemu", "aready", "tterm"} \subseteq DriverPC
    BY DEF Role, DriverPC
  <2>2. CASE AttachTPM
    BY <1>17, <2>1, <2>2 DEF AttachTPM, hostVars
  <2>3. CASE AttachQEMU
    BY <1>17, <2>1, <2>3 DEF AttachQEMU, hostVars
  <2> QED BY <1>18, <2>2, <2>3
<1>19. CASE AttachReady
  <2>1. os' = os /\ unit' = unit /\ w' = w /\ cur' = cur /\ mgr' = mgr
    BY <1>19 DEF AttachReady, hostVars
  <2>2. drv.pc = "aready" /\ mgr = "up"
    BY Zenon, <1>19 DEF AttachReady, UnitType, DriverInv, ServiceType
  <2>3. \/ Goto("up") /\ proc' = cur["qemu"]
        \/ Goto("tterm") /\ proc' = proc
    BY <1>19 DEF AttachReady
  <2>4. drv'.role = drv.role /\ ((drv'.pc = "up" /\ proc' = cur["qemu"]) \/ (drv'.pc = "tterm" /\ proc' = proc))
    <3>1. CASE Goto("up") /\ proc' = cur["qemu"]
      <4>1. drv'.role = drv.role /\ drv'.pc = "up"
        BY <3>1, GotoType DEF DriverPC, UnitType
      <4> QED BY <3>1, <4>1
    <3>2. CASE Goto("tterm") /\ proc' = proc
      BY <3>2, GotoType DEF DriverPC, UnitType
    <3> QED BY <2>3, <3>1, <3>2
  <2> QED BY Zenon, <2>1, <2>2, <2>4 DEF DriverInv, Starting
<1>20. CASE UNCHANGED vars
  <2>1. os' = os /\ unit' = unit /\ w' = w /\ drv' = drv /\ cur' = cur /\ proc' = proc /\ mgr' = mgr /\ stp' = stp
    BY <1>20 DEF vars, hostVars, watchVars
  <2>2. stp'.pc = "idle" \/ Up
    BY <2>1 DEF DriverInv, UnitType, ServiceType
  <2> QED BY <2>1, <2>2, DriverKeeps
<1> QED BY <1>1, <1>2, <1>3, <1>4, <1>6, <1>7, <1>8, <1>9, <1>10, <1>11, <1>12, <1>13, <1>14, <1>15,
        <1>16, <1>18, <1>19, <1>20
        DEF Next, DriverStep

-----------------------------------------------------------------------------
(* The rest of the inductive invariant.                                    *)

\* A watcher that goes on watching is the one the service waits for, and the
\* unit is still that of its process.
WatchOf(r, n) ==
  /\ w[r][n] \in {"status", "release", "done"} /\ <<r, n>> \notin blind => os[r][n] = "dead"
  /\ <<r, n>> \notin abandoned \cup blind =>
       /\ w[r][n] \in {"watch", "poll", "status", "release"} =>
            cur[r] = n /\ unit[r].proc \in {NoRun, n} /\ Holding(r)
       /\ status[r][n] \in {NoRun, n}

WatchInv == \A r \in Role, n \in Run : WatchOf(r, n)

\* What is stopped, by the supervisor and by Stop.
StopInv ==
  /\ proc # NoRun => w["qemu"][proc] # "none"
  /\ drv.pc \in {"tterm", "tkill", "tkwait"} => proc = NoRun \/ w["qemu"][proc] = "done"
  /\ stp.pc # "idle" => stp.qemu # NoRun /\ w["qemu"][stp.qemu] # "none"
  /\ stp.pc = "killagain" => faults >= 1
  /\ stp.pc = "done" => w["qemu"][stp.qemu] = "done" \/ faults >= 2

UnitInv == UnitType /\ HostInv /\ DriverInv /\ WatchInv /\ StopInv /\ WaitsEnd

-----------------------------------------------------------------------------
(* WatchInv is kept.                                                       *)

\* A process that was started and is not the main process of its unit is dead.
LEMMA GoneIsDead ==
  ASSUME UnitType, HostInv, NEW r \in Role, NEW n \in Run, ~HasMainPID(r) \/ unit[r].proc # n,
         \/ n = unit[r].proc \/ n = cur[r] \/ w[r][n] # "none"
  PROVE os[r][n] = "dead"
<1>1. NoRun \notin Run
  BY DEF NoRun, Run
<1>2. os[r][n] \in {"unused", "running", "dead"}
  BY DEF UnitType, HostType
<1>3. os[r][n] # "running"
  BY Zenon, <1>1 DEF HostInv, HasMainPID, Loaded
<1> QED BY Zenon, <1>2, <1>3 DEF HostInv

\* No watcher moves; what the service lets go of is settled or abandoned.
LEMMA WatchKeeps ==
  ASSUME WatchInv, w' = w, status' = status, blind' = blind, abandoned \subseteq abandoned',
         \A r \in Role, n \in Run : os[r][n] = "dead" => os'[r][n] = "dead",
         \A r \in Role : Holding(r) =>
            \/ Holding(r)' /\ cur'[r] = cur[r] /\ unit'[r].proc \in {unit[r].proc, NoRun}
            \/ cur[r] \notin Run
            \/ w[r][cur[r]] = "done"
            \/ <<r, cur[r]>> \in abandoned'
  PROVE WatchInv'
<1> SUFFICES ASSUME NEW r \in Role, NEW n \in Run PROVE WatchOf(r, n)'
  BY DEF WatchInv
<1>1. WatchOf(r, n)
  BY DEF WatchInv
<1>2. CASE ~Holding(r)
  BY <1>1, <1>2 DEF WatchOf
<1>3. CASE Holding(r) /\ cur[r] # n
  BY <1>1, <1>3 DEF WatchOf
<1>4. CASE Holding(r) /\ cur[r] = n
  <2>1. \/ Holding(r)' /\ cur'[r] = cur[r] /\ unit'[r].proc \in {unit[r].proc, NoRun}
        \/ w[r][n] = "done"
        \/ <<r, n>> \in abandoned'
    BY <1>4
  <2> QED BY <1>1, <1>4, <2>1 DEF WatchOf
<1> QED BY <1>2, <1>3, <1>4

\* A watcher begins for a process that nobody waited for.
LEMMA WatchBegins ==
  ASSUME UnitType, HostInv, WatchInv, NEW r \in Role, NEW n \in Run, Watcher(r, n),
         status' = status, blind' = blind, abandoned' = abandoned, os' = os, unit' = unit,
         unit[r].proc \in {NoRun, n}, n \in {unit[r].proc, cur[r]}, ~Holding(r),
         cur'[r] = n, Holding(r)',
         \A s \in Role \ {r} : cur'[s] = cur[s] /\ (Holding(s) => Holding(s)')
  PROVE WatchInv'
<1> SUFFICES ASSUME NEW s \in Role, NEW m \in Run PROVE WatchOf(s, m)'
  BY DEF WatchInv
<1>1. WatchOf(s, m)
  BY DEF WatchInv
<1>2. CASE s # r
  <2>1. w'[s][m] = w[s][m]
    BY <1>2 DEF Watcher, UnitType, WatchType
  <2> QED BY <1>1, <1>2, <2>1 DEF WatchOf
<1>3. CASE s = r /\ m # n
  <2>1. w'[s][m] = w[s][m]
    BY <1>3 DEF Watcher, UnitType, WatchType
  <2> QED BY <1>1, <1>3, <2>1 DEF WatchOf
<1>4. CASE s = r /\ m = n
  <2>1. \/ w'[r][n] = "status" /\ (~HasMainPID(r) \/ unit[r].proc # n)
        \/ w'[r][n] \in {"watch", "poll"}
    BY DEF Watcher, UnitType, WatchType
  <2>2. w'[r][n] = "status" => os[r][n] = "dead"
    BY <2>1, GoneIsDead
  <2> QED BY <1>1, <1>4, <2>1, <2>2 DEF WatchOf
<1> QED BY <1>2, <1>3, <1>4

\* Every step of the host and of a watcher keeps WatchInv.
LEMMA WatchInvHost ==
  ASSUME UnitType, HostInv, WatchInv, NEW r \in Role, NEW n \in Run,
         Reap(r) \/ ProcessExits(r, n) \/ WatcherStep(r, n)
  PROVE WatchInv'
<1> SUFFICES ASSUME NEW s \in Role, NEW m \in Run PROVE WatchOf(s, m)'
  BY DEF WatchInv
<1>a. WatchOf(s, m) /\ WatchOf(r, n)
  BY DEF WatchInv
<1>1. CASE Reap(r)
  <2>1. unit'[s].proc = unit[s].proc
    BY <1>1 DEF Reap, UnitType, HostType
  <2>2. /\ os' = os /\ w' = w /\ status' = status /\ blind' = blind /\ abandoned' = abandoned
        /\ drv' = drv /\ cur' = cur
    BY <1>1 DEF Reap, watchVars
  <2>3. Holding(s)' = Holding(s)
    BY <2>2 DEF Holding, Starting
  <2> QED BY <1>a, <2>1, <2>2, <2>3 DEF WatchOf
<1>2. CASE ProcessExits(r, n)
  <2>1. os[s][m] = "dead" => os'[s][m] = "dead"
    BY <1>2 DEF ProcessExits, UnitType, HostType
  <2>2. /\ unit' = unit /\ w' = w /\ status' = status /\ blind' = blind /\ abandoned' = abandoned
        /\ drv' = drv /\ cur' = cur
    BY <1>2 DEF ProcessExits, watchVars
  <2>3. Holding(s)' = Holding(s)
    BY <2>2 DEF Holding, Starting
  <2> QED BY <1>a, <2>1, <2>2, <2>3 DEF WatchOf
<1>3. CASE Watch(r, n)
  <2>1. /\ w'[r][n] = "status" /\ w[r][n] = "watch" /\ os[r][n] = "dead"
        /\ (s # r \/ m # n) => w'[s][m] = w[s][m]
    <3>1. w' = [w EXCEPT ![r][n] = "status"]
      BY <1>3 DEF Watch
    <3>2. w'[r][n] = "status" /\ ((s # r \/ m # n) => w'[s][m] = w[s][m])
      BY <3>1 DEF UnitType, WatchType
    <3> QED BY <1>3, <3>2 DEF Watch
  <2>2. /\ os' = os /\ unit' = unit /\ status' = status /\ blind' = blind /\ abandoned' = abandoned
        /\ drv' = drv /\ cur' = cur
    BY <1>3 DEF Watch, hostVars
  <2>h. Holding(s)' = Holding(s)
    BY <2>2 DEF Holding, Starting
  <2>3. CASE s # r \/ m # n
    BY <1>a, <2>1, <2>2, <2>3, <2>h DEF WatchOf
  <2>4. CASE s = r /\ m = n
    BY <1>a, <2>1, <2>2, <2>4, <2>h DEF WatchOf
  <2> QED BY <2>3, <2>4
<1>4. CASE Poll(r, n)
  <2>1. /\ w'[r][n] = "status" /\ w[r][n] = "poll"
        /\ (s # r \/ m # n) => w'[s][m] = w[s][m]
    <3>1. w' = [w EXCEPT ![r][n] = "status"]
      BY <1>4 DEF Poll
    <3>2. w'[r][n] = "status" /\ ((s # r \/ m # n) => w'[s][m] = w[s][m])
      BY <3>1 DEF UnitType, WatchType
    <3> QED BY <1>4, <3>2 DEF Poll
  <2>2. /\ os' = os /\ unit' = unit /\ status' = status /\ abandoned' = abandoned
        /\ drv' = drv /\ cur' = cur
    BY <1>4 DEF Poll, hostVars
  <2>3. (blind' = blind /\ ~HasMainPID(r)) \/ blind' = blind \cup {<<r, n>>}
    BY <1>4 DEF Poll
  <2>4. CASE s # r \/ m # n
    <3>1. <<s, m>> \in blind' <=> <<s, m>> \in blind
      BY <2>3, <2>4
    <3>2. Holding(s)' = Holding(s)
      BY <2>2 DEF Holding, Starting
    <3> QED BY <1>a, <2>1, <2>2, <2>4, <3>1, <3>2 DEF WatchOf
  <2>5. CASE s = r /\ m = n
    <3>1. <<r, n>> \in blind' \/ (os[r][n] = "dead" /\ blind' = blind)
      BY <2>1, <2>3, GoneIsDead
    <3>2. Holding(s)' = Holding(s)
      BY <2>2 DEF Holding, Starting
    <3> QED BY <1>a, <2>1, <2>2, <2>5, <3>1, <3>2 DEF WatchOf
  <2> QED BY <2>4, <2>5
<1>5. CASE ExitStatus(r, n)
  <2>1. PICK st, x : Settle(r, n, st, x) /\ st \in {NoRun, unit[r].proc} /\ x \in {"release", "done"}
    BY <1>5 DEF ExitStatus
  <2>2. /\ w'[r][n] = x /\ w[r][n] = "status" /\ status'[r][n] = st
        /\ (s # r \/ m # n) => w'[s][m] = w[s][m] /\ status'[s][m] = status[s][m]
    <3>1. w' = [w EXCEPT ![r][n] = x] /\ status' = [status EXCEPT ![r][n] = st] /\ w[r][n] = "status"
      BY <1>5, <2>1 DEF ExitStatus, Settle
    <3>2. w'[r][n] = x /\ ((s # r \/ m # n) => w'[s][m] = w[s][m])
      BY <3>1 DEF UnitType, WatchType
    <3>3. status'[r][n] = st /\ ((s # r \/ m # n) => status'[s][m] = status[s][m])
      BY <3>1 DEF UnitType, WatchType
    <3> QED BY <3>1, <3>2, <3>3
  <2>3. /\ os' = os /\ unit' = unit /\ blind' = blind /\ abandoned' = abandoned
        /\ drv' = drv /\ cur' = cur
    BY <1>5 DEF ExitStatus, hostVars
  <2>h. Holding(s)' = Holding(s)
    BY <2>3 DEF Holding, Starting
  <2>4. CASE s # r \/ m # n
    BY <1>a, <2>2, <2>3, <2>4, <2>h DEF WatchOf
  <2>5. CASE s = r /\ m = n
    BY <1>a, <2>1, <2>2, <2>3, <2>5, <2>h DEF WatchOf
  <2> QED BY <2>4, <2>5
<1>6. CASE SettleRelease(r, n)
  <2>1. /\ w'[r][n] = "done" /\ w[r][n] = "release"
        /\ (s # r \/ m # n) => w'[s][m] = w[s][m]
    <3>1. w' = [w EXCEPT ![r][n] = "done"]
      BY <1>6 DEF SettleRelease
    <3>2. w'[r][n] = "done" /\ ((s # r \/ m # n) => w'[s][m] = w[s][m])
      BY <3>1 DEF UnitType, WatchType
    <3> QED BY <1>6, <3>2 DEF SettleRelease
  <2>2. status' = status /\ blind' = blind /\ abandoned' = abandoned /\ drv' = drv /\ cur' = cur
    BY <1>6 DEF SettleRelease
  <2>h. Holding(s)' = Holding(s)
    BY <2>2 DEF Holding, Starting
  <2>3. (os[s][m] = "dead" => os'[s][m] = "dead") /\ unit'[s].proc \in {unit[s].proc, NoRun}
    BY <1>6, ReleaseKeeps DEF SettleRelease, UnitType
  <2>4. CASE s # r \/ m # n
    BY <1>a, <2>1, <2>2, <2>3, <2>4, <2>h DEF WatchOf
  <2>5. CASE s = r /\ m = n
    BY <1>a, <2>1, <2>2, <2>3, <2>5 DEF WatchOf
  <2> QED BY <2>4, <2>5
<1> QED BY <1>1, <1>2, <1>3, <1>4, <1>5, <1>6 DEF WatcherStep

\* Every other step keeps WatchInv.
LEMMA WatchInvStep ==
  ASSUME UnitType, HostInv, DriverInv, WatchInv, [Next]_vars
  PROVE WatchInv'
<1>1. ASSUME NEW r \in Role, Reap(r) PROVE WatchInv'
  <2>1. unit[r].proc \in Run
    BY <1>1 DEF Reap, HasMainPID, Loaded, UnitType, HostType, AnyRun
  <2> QED BY <1>1, <2>1, WatchInvHost
<1>2. ASSUME NEW r \in Role, NEW n \in Run, ProcessExits(r, n) \/ WatcherStep(r, n) PROVE WatchInv'
  BY <1>2, WatchInvHost
<1>h. /\ \A r \in Role : cur[r] \in Run \/ cur[r] = NoRun
      /\ NoRun \notin Run
      /\ \A r \in Role : r = "qemu" \/ r = "swtpm"
  BY DEF UnitType, ServiceType, AnyRun, NoRun, Run, Role
<1>3. ASSUME w' = w, status' = status, blind' = blind, abandoned' = abandoned, os' = os, unit' = unit,
             cur' = cur, drv'.pc = drv.pc, drv'.role = drv.role
      PROVE WatchInv'
  <2>1. \A r \in Role : Holding(r)' = Holding(r)
    BY <1>3 DEF Holding, Starting
  <2> QED BY <1>3, <2>1, WatchKeeps
<1>4. CASE Stop \/ StopperStep \/ UNCHANGED vars
  <2>1. /\ os' = os /\ drv' = drv /\ cur' = cur /\ unit' = unit /\ watchVars' = watchVars
    BY <1>4 DEF Stop, StopperStep, Powerdown, Term, StopStep, Kill, KillAgain, StopKill, StopKillWait,
       StopReturn, StopUnchanged, vars, hostVars
  <2>2. w' = w /\ status' = status /\ blind' = blind /\ abandoned' = abandoned
    BY <2>1 DEF watchVars
  <2> QED BY <1>3, <2>1, <2>2
<1>5. ASSUME w' = w, status' = status, blind' = blind, abandoned \subseteq abandoned', cur' = cur,
             \A r \in Role, n \in Run : os[r][n] = "dead" => os'[r][n] = "dead",
             \A r \in Role : unit'[r].proc \in {unit[r].proc, NoRun},
             \/ ~Holding("qemu") \/ Holding("qemu")' \/ w["qemu"][cur["qemu"]] = "done"
                \/ <<"qemu", cur["qemu"]>> \in abandoned',
             \/ ~Holding("swtpm") \/ Holding("swtpm")' \/ cur["swtpm"] = NoRun
                \/ w["swtpm"][cur["swtpm"]] = "done" \/ <<"swtpm", cur["swtpm"]>> \in abandoned'
      PROVE WatchInv'
  <2> SUFFICES ASSUME NEW r \in Role, Holding(r)
               PROVE \/ Holding(r)' /\ cur'[r] = cur[r] /\ unit'[r].proc \in {unit[r].proc, NoRun}
                     \/ cur[r] \notin Run
                     \/ w[r][cur[r]] = "done"
                     \/ <<r, cur[r]>> \in abandoned'
    BY Zenon, <1>5, WatchKeeps
  <2>1. cur'[r] = cur[r] /\ unit'[r].proc \in {unit[r].proc, NoRun}
    BY Zenon, <1>5
  <2>2. CASE r = "qemu"
    BY Zenon, <1>5, <2>1, <2>2
  <2>3. CASE r = "swtpm"
    <3>1. cur[r] = NoRun => cur[r] \notin Run
      BY DEF NoRun, Run
    <3> QED BY Zenon, <1>5, <2>1, <2>3, <3>1
  <2> QED BY Zenon, <2>2, <2>3 DEF Role
<1>6. CASE Begin \/ Prepare \/ Show \/ QEMUReady
  <2>1. /\ w' = w /\ status' = status /\ blind' = blind /\ abandoned' = abandoned /\ cur' = cur
        /\ os' = os /\ unit' = unit
    BY <1>6 DEF Begin, Prepare, Show, QEMUReady, hostVars, watchVars
  <2>2. \/ drv.pc = "idle" /\ drv'.pc = "show"
        \/ drv.pc = "prepare" /\ drv'.pc = "show" /\ drv'.role = "qemu"
        \/ drv.pc = "show" /\ drv'.pc \in {"clean", "run"} /\ drv'.role = drv.role
        \/ drv.pc = "show" /\ drv'.pc = (IF drv.role = "qemu" THEN "tterm" ELSE "settle")
        \/ drv.pc = "ready" /\ drv.role = "qemu" /\ drv'.pc \in {"kill", "up"}
    <3>1. ServiceType /\ {"clean", "run", "kill", "up"} \subseteq DriverPC
      BY Zenon DEF UnitType, DriverPC
    <3>2. \A l \in DriverPC : Goto(l) => drv'.pc = l /\ drv'.role = drv.role
      BY Zenon, <3>1, GotoType
    <3>3. StartFailed => drv'.pc = (IF drv.role = "qemu" THEN "tterm" ELSE "settle")
      BY Zenon, <3>1, StartFailedSteps
    <3>4. CASE Begin \/ Prepare
      BY <3>4 DEF Begin, Prepare
    <3>5. CASE Show
      BY Zenon, <3>1, <3>2, <3>3, <3>5 DEF Show
    <3>6. CASE QEMUReady
      BY Zenon, <3>1, <3>2, <3>6 DEF QEMUReady
    <3> QED BY Zenon, <1>6, <3>4, <3>5, <3>6
  <2>3. (Holding("qemu") => Holding("qemu")') /\ (Holding("swtpm") => Holding("swtpm")')
    BY <2>2 DEF Holding, Starting
  <2> QED BY <1>5, <2>1, <2>3
<1>7. CASE KillWait \/ OnExit \/ KillQEMU \/ AttachReady
  <2>1. /\ w' = w /\ status' = status /\ blind' = blind /\ abandoned \subseteq abandoned' /\ cur' = cur
        /\ os' = os /\ unit' = unit
    BY <1>7 DEF KillWait, OnExit, KillQEMU, AttachReady, Abandon, hostVars, watchVars
  <2>2. drv.pc \in {"kill", "killwait", "up", "aready"} /\ drv'.pc \in {"killwait", "tterm", "up"}
    BY <1>7, GotoType DEF KillWait, OnExit, KillQEMU, AttachReady, DriverPC, UnitType
  <2>3. \/ drv'.pc \in {"killwait", "up"} \/ Exited("qemu", cur["qemu"])
        \/ <<"qemu", cur["qemu"]>> \in abandoned'
    BY <1>7, GotoType
       DEF KillWait, Reaped, OnExit, ExitSeen, KillQEMU, AttachReady, Abandon, DriverInv, DriverPC, UnitType
  <2>4. Holding("swtpm")' /\ (drv'.pc \in {"killwait", "up"} => Holding("qemu")')
    BY <2>2 DEF Holding
  <2> QED BY <1>5, <2>1, <2>3, <2>4 DEF Exited
<1>8. CASE TPMTerm \/ TPMKill \/ TPMKillWait
  <2>1. /\ w' = w /\ status' = status /\ blind' = blind /\ abandoned \subseteq abandoned' /\ cur' = cur
        /\ os' = os /\ unit' = unit
    BY <1>8 DEF TPMTerm, TPMKill, TPMKillWait, Abandon, hostVars, watchVars
  <2>2. drv.pc \in {"tterm", "tkill", "tkwait"} /\ drv'.pc \in {"tkill", "tkwait", "settle"}
    BY <1>8, GotoType DEF TPMTerm, TPMKill, TPMKillWait, DriverPC, UnitType
  <2>3. \/ drv'.pc \in {"tkill", "tkwait"} \/ cur["swtpm"] = NoRun \/ Exited("swtpm", cur["swtpm"])
        \/ <<"swtpm", cur["swtpm"]>> \in abandoned'
    BY <1>8, GotoType DEF TPMTerm, TPMKill, TPMKillWait, Reaped, Abandon, DriverPC, UnitType
  <2>4. ~Holding("qemu") /\ (drv'.pc \in {"tkill", "tkwait"} => Holding("swtpm")')
    BY <2>2 DEF Holding
  <2> QED BY <1>5, <2>1, <2>3, <2>4 DEF Exited
<1>9. CASE Clean
  <2>1. /\ w' = w /\ status' = status /\ blind' = blind /\ abandoned' = abandoned /\ cur' = cur
    BY <1>9 DEF Clean, watchVars
  <2>2. /\ \A r \in Role, n \in Run : os[r][n] = "dead" => os'[r][n] = "dead"
        /\ \A r \in Role : unit'[r].proc \in {unit[r].proc, NoRun}
    BY <1>9, ReleaseKeeps DEF Clean, UnitType, DriverInv
  <2>3. drv.pc = "clean" /\ drv'.pc = "run" /\ drv'.role = drv.role
    BY <1>9, GotoType DEF Clean, DriverPC, UnitType
  <2>4. ~Holding("qemu") /\ (Holding("swtpm") => Holding("swtpm")')
    BY <2>3 DEF Holding, Starting
  <2> QED BY <1>5, <2>1, <2>2, <2>4
<1>10. CASE TPMReady
  <2>1. /\ w' = w /\ status' = status /\ blind' = blind /\ os' = os /\ unit' = unit
        /\ drv.pc = "ready" /\ drv.role = "swtpm"
    BY <1>10 DEF TPMReady
  <2>2. ~Holding("qemu")
    BY <2>1 DEF Holding
  <2>3. CASE Goto("prepare") /\ UNCHANGED <<killed, cur, abandoned>>
    <3>1. drv'.pc = "prepare"
      BY <2>3, GotoType DEF DriverPC, UnitType
    <3>2. Holding("swtpm")'
      BY <3>1 DEF Holding
    <3> QED BY <1>5, <2>1, <2>2, <2>3, <3>2
  <2>4. CASE Abandon("swtpm", cur["swtpm"])
    <3>1. <<"swtpm", cur["swtpm"]>> \in abandoned' /\ abandoned \subseteq abandoned'
      BY <2>4 DEF Abandon
    <3> QED BY <1>h, <2>1, <2>2, <3>1, WatchKeeps
  <2> QED BY <1>10, <2>3, <2>4 DEF TPMReady
<1>11. CASE SettleRecord \/ Load
  <2>1. /\ w' = w /\ status' = status /\ blind' = blind /\ abandoned' = abandoned
        /\ os' = os /\ unit' = unit
    BY <1>11 DEF SettleRecord, Load, hostVars, watchVars
  <2>2. drv.pc \in {"settle", "idle"}
    BY <1>11 DEF SettleRecord, Load, DriverInv
  <2>3. \A r \in Role : ~Holding(r)
    BY <1>h, <2>2 DEF Holding, Starting
  <2> QED BY <2>1, <2>3, WatchKeeps
<1>12. CASE Restart
  <2>1. \A r \in Role, n \in Run : w'[r][n] = "none" /\ status'[r][n] = NoRun
    BY <1>12 DEF Restart, PerRun
  <2> QED BY Zenon, <2>1 DEF WatchInv, WatchOf
<1>13. CASE RunUnit
  <2> DEFINE r == drv.role
             n == Fresh(r)
  <2>1. r \in Role /\ n \in Run /\ os[r][n] = "unused" /\ drv.pc = "run"
    BY <1>13, FreshRun DEF RunUnit, DriverInv, Starting
  <2>2. w' = w /\ status' = status /\ blind' = blind /\ abandoned' = abandoned
    BY <1>13 DEF RunUnit, watchVars
  <2>3. ~Holding(r)
    BY <2>1 DEF Holding, Starting, Role
  <2>4. CASE StartFailed /\ UNCHANGED <<os, unit, sock, cur>>
    <3>1. drv'.pc = IF drv.role = "qemu" THEN "tterm" ELSE "settle"
      BY <2>4, StartFailedSteps DEF UnitType
    <3>2. ~Holding("qemu") /\ (Holding("swtpm") => Holding("swtpm")')
      BY <2>1, <3>1 DEF Holding, Starting
    <3> QED BY <1>5, <2>2, <2>4, <3>2
  <2>5. CASE /\ os' = [os EXCEPT ![r][n] = "running"]
             /\ unit' = [unit EXCEPT ![r] = [proc |-> n, reaped |-> FALSE]]
             /\ cur' = [cur EXCEPT ![r] = n] /\ Goto("look")
    <3>1. drv'.role = r /\ drv'.pc = "look"
      BY <2>5, GotoType DEF UnitType, DriverPC
    <3>2. \A s \in Role \ {r} : unit'[s] = unit[s] /\ cur'[s] = cur[s]
      BY <2>1, <2>5 DEF UnitType, HostType, ServiceType
    <3>3. \A s \in Role, m \in Run : os[s][m] = "dead" => os'[s][m] = "dead"
      BY <2>1, <2>5 DEF UnitType, HostType
    <3>4. \A s \in Role : Holding(s) => Holding(s)'
      BY <1>h, <2>1, <3>1 DEF Holding, Starting
    <3> HIDE DEF n, r
    <3> QED BY <2>2, <2>3, <3>2, <3>3, <3>4, WatchKeeps
  <2> QED BY <1>13, <2>4, <2>5 DEF RunUnit
<1>14. CASE Look
  <2>r. PICK r : r = drv.role
    OBVIOUS
  <2>n. PICK n : n = cur[r]
    OBVIOUS
  <2>1. r \in Role /\ n \in Run /\ drv.pc = "look" /\ unit[r].proc \in {NoRun, n}
    BY <1>14, <2>r, <2>n DEF Look, DriverInv, UnitType, ServiceType, AnyRun
  <2>2. status' = status /\ blind' = blind /\ abandoned' = abandoned /\ os' = os /\ unit' = unit
    BY <1>14 DEF Look, hostVars
  <2>3. ~Holding(r)
    BY <2>1, <2>r DEF Holding, Starting, Role
  <2>4. CASE StartFailed /\ cur' = [cur EXCEPT ![r] = NoRun] /\ UNCHANGED w
    <3>1. drv'.pc = IF drv.role = "qemu" THEN "tterm" ELSE "settle"
      BY <2>4, <2>r, StartFailedSteps DEF UnitType
    <3>2. \A s \in Role : Holding(s) => Holding(s)' /\ s # r
      BY <1>h, <2>1, <2>r, <3>1 DEF Holding, Starting
    <3>3. \A s \in Role \ {r} : cur'[s] = cur[s]
      BY <2>1, <2>4 DEF UnitType, ServiceType
    <3> QED BY <2>2, <2>4, <3>2, <3>3, WatchKeeps
  <2>5. CASE Watcher(r, n) /\ Goto("ready") /\ UNCHANGED cur
    <3>1. drv'.role = r /\ drv'.pc = "ready"
      BY <2>5, <2>r, GotoType DEF UnitType, DriverPC
    <3>2. Holding(r)' /\ \A s \in Role : Holding(s) => Holding(s)'
      BY <1>h, <2>1, <2>r, <3>1 DEF Holding, Starting
    <3>3. n = cur[r] /\ cur' = cur /\ Watcher(r, n)
      BY <2>5, <2>n
    <3> QED BY <2>1, <2>2, <2>3, <3>2, <3>3, WatchBegins
  <2> QED BY <1>14, <2>4, <2>5, <2>r, <2>n DEF Look
<1>15. ASSUME NEW r \in Role, NEW l \in DriverPC, NEW k \in DriverPC, Attach(r, l, k),
              <<r, l, k, drv.pc>> \in {<<"swtpm", "aqemu", "aqemu", "atpm">>, <<"qemu", "aready", "tterm", "aqemu">>},
              os' = os, unit' = unit, status' = status, blind' = blind, abandoned' = abandoned
       PROVE WatchInv'
  <2>1. ~Holding(r)
    BY <1>15 DEF Holding, Starting
  <2>2. CASE Goto(k) /\ UNCHANGED <<cur, w>>
    <3>1. drv'.pc = k
      BY <2>2, GotoType DEF UnitType
    <3>2. \A s \in Role : Holding(s) => Holding(s)'
      BY <1>h, <1>15, <3>1 DEF Holding, Starting
    <3> QED BY <1>15, <2>2, <3>2, WatchKeeps
  <2>3. CASE /\ Loaded(r) /\ cur' = [cur EXCEPT ![r] = unit[r].proc]
             /\ Watcher(r, unit[r].proc) /\ Goto(l)
    <3>1. drv'.pc = l
      BY <2>3, GotoType DEF UnitType
    <3>2. Holding(r)' /\ \A s \in Role : Holding(s) => Holding(s)'
      BY <1>h, <1>15, <3>1 DEF Holding, Starting
    <3>3. unit[r].proc \in Run /\ cur'[r] = unit[r].proc /\ \A s \in Role \ {r} : cur'[s] = cur[s]
      BY <2>3 DEF UnitType, HostType, ServiceType, Loaded, AnyRun
    <3> QED BY <1>15, <2>1, <2>3, <3>2, <3>3, WatchBegins
  <2> QED BY <1>15, <2>2, <2>3 DEF Attach
<1>16. CASE AttachTPM \/ AttachQEMU
  <2>1. "swtpm" \in Role /\ "qemu" \in Role /\ {"aqemu", "aready", "tterm"} \subseteq DriverPC
    BY DEF Role, DriverPC
  <2>2. CASE AttachTPM
    BY <1>15, <2>1, <2>2 DEF AttachTPM, hostVars
  <2>3. CASE AttachQEMU
    BY <1>15, <2>1, <2>3 DEF AttachQEMU, hostVars
  <2> QED BY <1>16, <2>2, <2>3
<1> QED BY <1>1, <1>2, <1>4, <1>6, <1>7, <1>8, <1>9, <1>10, <1>11, <1>12, <1>13, <1>14, <1>16
        DEF Next, DriverStep

-----------------------------------------------------------------------------
(* StopInv and WaitsEnd are kept.                                          *)

\* The process is about to end, or has, and its watcher will say so.
Ending(r, n) == w[r][n] # "none" /\ (os[r][n] = "dead" \/ <<r, n>> \in killed)

\* What waiters rely on is not taken back while vm-manager is up.
Forward ==
  /\ \A r \in Role, n \in Run : w[r][n] # "none" => w'[r][n] # "none"
  /\ drv.pc \notin {"atpm", "aqemu"} =>
       \A r \in Role, n \in Run : w[r][n] = "done" => w'[r][n] = "done"
  /\ \A r \in Role, n \in Run : os[r][n] = "dead" \/ <<r, n>> \in killed =>
       os'[r][n] = "dead" \/ <<r, n>> \in killed'
  /\ faults' \in {faults, faults + 1}

\* Only a restart of vm-manager forgets a watcher, and nothing forgets a kill.
LEMMA StepsForward ==
  ASSUME UnitType, HostInv, DriverInv, [Next]_vars, ~Restart
  PROVE Forward
<1>f. (Works \/ Fault) => faults' \in {faults, faults + 1}
  BY DEF Works, Fault
<1>1. ASSUME NEW r \in Role, Reap(r) PROVE Forward
  BY <1>1 DEF Reap, watchVars, Forward
<1>2. ASSUME NEW r \in Role, NEW n \in Run, ProcessExits(r, n) PROVE Forward
  <2>1. os'[r][n] = "dead" /\ \A s \in Role, m \in Run : (s # r \/ m # n) => os'[s][m] = os[s][m]
    BY <1>2 DEF ProcessExits, UnitType, HostType
  <2> QED BY <1>2, <2>1 DEF ProcessExits, watchVars, Forward
<1>3. ASSUME NEW r \in Role, NEW n \in Run, WatcherStep(r, n) PROVE Forward
  <2>1. PICK x : w' = [w EXCEPT ![r][n] = x] /\ w[r][n] \notin {"none", "done"} /\ x # "none"
    BY <1>3 DEF WatcherStep, Watch, Poll, ExitStatus, Settle, SettleRelease
  <2>2. \A s \in Role, m \in Run : /\ w[s][m] # "none" => w'[s][m] # "none"
                                   /\ w[s][m] = "done" => w'[s][m] = "done"
    BY <2>1, WatcherSet DEF UnitType
  <2>3. (os' = os /\ killed' = killed) \/ Release(r)
    BY <1>3 DEF WatcherStep, Watch, Poll, ExitStatus, SettleRelease, hostVars
  <2>4. \A s \in Role, m \in Run : os[s][m] = "dead" \/ <<s, m>> \in killed =>
          os'[s][m] = "dead" \/ <<s, m>> \in killed'
    BY <2>3, ReleaseKeeps DEF UnitType, HostInv
  <2>5. faults' \in {faults, faults + 1}
    BY <1>3, <1>f DEF WatcherStep, Watch, Poll, ExitStatus, SettleRelease, Release
  <2> QED BY <2>2, <2>4, <2>5 DEF Forward
<1>4. CASE \/ Begin \/ Show \/ Prepare \/ QEMUReady \/ KillWait \/ OnExit \/ TPMTerm \/ TPMKillWait
           \/ SettleRecord \/ Stop \/ Powerdown \/ Term \/ StopKillWait \/ StopReturn \/ Load \/ AttachReady
           \/ UNCHANGED vars
  <2>1. os' = os /\ killed' = killed /\ w' = w
    BY Zenon, <1>4 DEF Begin, Show, Prepare, QEMUReady, KillWait, OnExit, TPMTerm, TPMKillWait, SettleRecord, Stop,
       Powerdown, Term, StopStep, StopKillWait, StopReturn, Load, AttachReady, StopUnchanged, hostVars,
       watchVars, vars
  <2>2. faults' \in {faults, faults + 1}
    BY <1>4, <1>f DEF Begin, Show, Prepare, QEMUReady, KillWait, OnExit, TPMTerm, TPMKillWait, SettleRecord,
       Stop, Powerdown, Term, StopStep, StopKillWait, StopReturn, Load, AttachReady, vars, Works
  <2> QED BY <2>1, <2>2 DEF Forward
<1>5. CASE TPMReady \/ KillQEMU \/ TPMKill \/ Kill \/ KillAgain
  <2>1. os' = os /\ w' = w /\ killed \subseteq killed'
    BY <1>5 DEF TPMReady, KillQEMU, TPMKill, Kill, KillAgain, StopKill, StopUnchanged, watchVars, SigKill
  <2>2. faults' \in {faults, faults + 1}
    BY <1>5, <1>f DEF TPMReady, KillQEMU, TPMKill, Kill, KillAgain, StopKill
  <2> QED BY <2>1, <2>2 DEF Forward
<1>6. CASE Clean
  <2>1. drv.role \in Role /\ Release(drv.role) /\ w' = w
    BY Zenon, <1>6 DEF Clean, DriverInv, watchVars
  <2>2. \A s \in Role, m \in Run : os[s][m] = "dead" \/ <<s, m>> \in killed =>
          os'[s][m] = "dead" \/ <<s, m>> \in killed'
    BY <2>1, ReleaseKeeps DEF UnitType, HostInv
  <2>3. faults' \in {faults, faults + 1}
    BY <2>1, <1>f DEF Release
  <2> QED BY <2>1, <2>2, <2>3 DEF Forward
<1>7. CASE RunUnit
  <2>1. PICK r \in Role, n \in Run : os[r][n] = "unused" /\ (os' = os \/ os' = [os EXCEPT ![r][n] = "running"])
    <3>1. drv.role \in Role /\ Fresh(drv.role) \in Run /\ os[drv.role][Fresh(drv.role)] = "unused"
      BY <1>7, FreshRun DEF RunUnit, DriverInv, Starting
    <3> QED BY <1>7, <3>1 DEF RunUnit
  <2>2. \A s \in Role, m \in Run : os[s][m] = "dead" => os'[s][m] = "dead"
    BY <2>1 DEF UnitType, HostType
  <2>3. w' = w /\ killed' = killed
    BY <1>7 DEF RunUnit, watchVars
  <2>4. faults' \in {faults, faults + 1}
    BY <1>7, <1>f DEF RunUnit
  <2> QED BY <2>2, <2>3, <2>4 DEF Forward
<1>8. CASE Look
  <2>1. drv.role \in Role /\ cur[drv.role] \in Run /\ w[drv.role][cur[drv.role]] = "none"
    BY <1>8 DEF Look, DriverInv, UnitType, ServiceType, AnyRun
  <2>2. os' = os /\ killed' = killed /\ faults' \in {faults, faults + 1}
    BY <1>8, <1>f DEF Look, hostVars
  <2>3. w' = w \/ Watcher(drv.role, cur[drv.role])
    BY <1>8 DEF Look
  <2>4. \A s \in Role, m \in Run : w[s][m] # "none" => w'[s][m] = w[s][m]
    BY <2>1, <2>3 DEF Watcher, UnitType, WatchType
  <2> QED BY <2>2, <2>4 DEF Forward
<1>9. CASE AttachTPM \/ AttachQEMU
  <2>1. PICK r \in Role, l \in DriverPC, k \in DriverPC : Attach(r, l, k)
    BY <1>9 DEF AttachTPM, AttachQEMU, Role, DriverPC
  <2>2. os' = os /\ killed' = killed /\ drv.pc \in {"atpm", "aqemu"}
    BY <1>9 DEF AttachTPM, AttachQEMU, hostVars
  <2>3. faults' \in {faults, faults + 1}
    BY <2>1, <1>f DEF Attach
  <2>4. \A s \in Role, m \in Run : w[s][m] # "none" => w'[s][m] # "none"
    BY <2>1 DEF Attach, Watcher, UnitType, WatchType
  <2> QED BY <2>2, <2>3, <2>4 DEF Forward
<1> QED BY <1>1, <1>2, <1>3, <1>4, <1>5, <1>6, <1>7, <1>8, <1>9 DEF Next, DriverStep, StopperStep

\* What a Stop relies on.
StopSide ==
  /\ stp.pc # "idle" => stp.qemu # NoRun /\ w["qemu"][stp.qemu] # "none"
  /\ stp.pc = "killagain" => faults >= 1
  /\ stp.pc = "done" => w["qemu"][stp.qemu] = "done" \/ faults >= 2
  /\ stp.pc = "killwait" => Ending("qemu", stp.qemu)

\* What the service relies on while it stops what it started.
DriverSide ==
  /\ proc # NoRun => w["qemu"][proc] # "none"
  /\ drv.pc \in {"tterm", "tkill", "tkwait"} => proc = NoRun \/ w["qemu"][proc] = "done"
  /\ drv.pc = "killwait" => Ending("qemu", cur["qemu"])
  /\ drv.pc = "tkwait" => Ending("swtpm", cur["swtpm"])

\* The two sides are StopInv and WaitsEnd.
LEMMA TwoSides ==
  (StopInv /\ WaitsEnd <=> StopSide /\ DriverSide) /\ (StopInv /\ WaitsEnd <=> StopSide /\ DriverSide)'
<1>1. StopInv /\ WaitsEnd <=> StopSide /\ DriverSide
  BY DEF StopInv, WaitsEnd, StopSide, DriverSide, Ending, Exited
<1>2. (StopInv /\ WaitsEnd <=> StopSide /\ DriverSide)'
  BY DEF StopInv, WaitsEnd, StopSide, DriverSide, Ending, Exited
<1> QED BY <1>1, <1>2

\* A SIGKILL to a process that has a watcher is to one that ends.
LEMMA KillEnds ==
  ASSUME UnitType, HostInv, NEW r \in Role, NEW n \in Run, w[r][n] # "none", SigKill(r, n),
         w' = w, os' = os
  PROVE Ending(r, n)'
<1>1. os[r][n] \in {"running", "dead"}
  <2>1. os[r][n] \in {"unused", "running", "dead"}
    BY DEF UnitType, HostType
  <2>2. os[r][n] # "unused"
    BY Zenon DEF HostInv
  <2> QED BY <2>1, <2>2
<1>2. n # NoRun
  BY DEF NoRun, Run
<1> QED BY <1>1, <1>2 DEF Ending, SigKill, Running

\* Every step keeps what a Stop relies on.
LEMMA StopSideStep ==
  ASSUME UnitType, HostInv, DriverInv, DriverSide, StopSide, [Next]_vars
  PROVE StopSide'
<1>t. /\ stp.qemu # NoRun => stp.qemu \in Run
      /\ "qemu" \in Role /\ faults \in Nat /\ NoRun \notin Run
  BY DEF UnitType, ServiceType, AnyRun, Role, NoRun, Run
<1>1. CASE Restart
  BY <1>1 DEF Restart, IdleStop, StopSide
<1>2. ASSUME Forward, stp' = stp PROVE StopSide'
  <2>1. CASE stp.pc = "idle"
    BY <1>2, <2>1 DEF StopSide
  <2>2. CASE stp.pc # "idle"
    <3>1. drv.pc \notin {"atpm", "aqemu"} /\ stp.qemu \in Run
      BY <1>t, <2>2 DEF DriverInv, StopSide
    <3>2. faults' \in {faults, faults + 1}
      BY <1>2 DEF Forward
    <3>3. /\ w["qemu"][stp.qemu] # "none" => w'["qemu"][stp.qemu] # "none"
          /\ w["qemu"][stp.qemu] = "done" => w'["qemu"][stp.qemu] = "done"
          /\ Ending("qemu", stp.qemu) => Ending("qemu", stp.qemu)'
      BY <1>2, <1>t, <3>1 DEF Forward, Ending
    <3>4. faults >= 1 => faults' >= 1
      BY <1>t, <3>2
    <3>5. faults >= 2 => faults' >= 2
      BY <1>t, <3>2
    <3> QED BY Zenon, <1>2, <3>3, <3>4, <3>5 DEF StopSide
  <2> QED BY <2>1, <2>2
<1>3. CASE Stop
  <2>1. stp'.pc = "powerdown" /\ stp'.qemu = proc /\ proc # NoRun /\ w' = w
    BY <1>3 DEF Stop, StopUnchanged, watchVars
  <2> QED BY <2>1 DEF StopSide, DriverSide
<1>4. CASE AttachReady
  <2>1. stp' = stp \/ (stp'.pc = "powerdown" /\ stp'.qemu = cur["qemu"])
    BY <1>4 DEF AttachReady
  <2>2. ~Restart
    BY <1>4 DEF AttachReady, Restart, UnitType, ServiceType
  <2>3. cur["qemu"] # NoRun /\ w["qemu"][cur["qemu"]] # "none" /\ w' = w
    BY <1>4, <1>t DEF AttachReady, DriverInv
  <2> QED BY <1>2, <2>1, <2>2, <2>3, StepsForward DEF StopSide
<1>5. CASE Powerdown \/ Term \/ StopKillWait
  <2>1. \/ stp.pc \in {"powerdown", "term"} /\ stp'.pc \in {"term", "kill"} /\ stp'.qemu = stp.qemu
        \/ /\ stp.pc \in {"powerdown", "term", "killwait"} /\ stp'.pc = "done" /\ stp'.qemu = stp.qemu
           /\ Exited("qemu", stp.qemu)
    BY <1>5 DEF Powerdown, Term, StopStep, StopKillWait, StopGoto, Reaped, UnitType, ServiceType
  <2>2. w' = w
    BY <1>5 DEF Powerdown, Term, StopStep, StopKillWait, StopUnchanged, watchVars
  <2> QED BY <2>1, <2>2 DEF StopSide, Exited
<1>6. ASSUME NEW from \in {"kill", "killagain"}, NEW failed \in {"killagain", "done"}, StopKill(from, failed),
             <<from, failed>> \in {<<"kill", "killagain">>, <<"killagain", "done">>}
      PROVE StopSide'
  <2>1. stp.pc = from /\ w' = w /\ os' = os
    BY <1>6 DEF StopKill, StopUnchanged, watchVars
  <2>2. stp.qemu \in Run /\ w["qemu"][stp.qemu] # "none"
    BY <1>6, <1>t, <2>1 DEF StopSide
  <2>3. CASE Exited("qemu", stp.qemu) /\ StopGoto("done")
    <3>1. stp'.pc = "done" /\ stp'.qemu = stp.qemu
      BY <2>3, StopGotoType DEF UnitType, StopPC
    <3> QED BY <2>1, <2>2, <2>3, <3>1, <1>t DEF StopSide, Exited
  <2>4. CASE SigKill("qemu", stp.qemu) /\ StopGoto("killwait")
    <3>1. stp'.pc = "killwait" /\ stp'.qemu = stp.qemu
      BY <2>4, StopGotoType DEF UnitType, StopPC
    <3>2. PICK n \in Run : n = stp.qemu
      BY <2>2
    <3>3. Ending("qemu", n)'
      BY <1>t, <2>1, <2>2, <2>4, <3>2, KillEnds
    <3>4. Ending("qemu", stp.qemu)'
      BY <3>1, <3>2, <3>3 DEF Ending
    <3> QED BY <2>1, <2>2, <3>1, <3>4, <1>t DEF StopSide
  <2>5. CASE Fault /\ StopGoto(failed)
    <3>1. stp'.pc = failed /\ stp'.qemu = stp.qemu
      BY <2>5, StopGotoType DEF UnitType, StopPC
    <3>2. faults' = faults + 1
      BY <2>5 DEF Fault
    <3>3. from = "killagain" => faults >= 1
      BY <2>1 DEF StopSide
    <3>4. /\ failed = "killagain" => faults' >= 1
          /\ failed = "done" => faults' >= 2
      BY <1>6, <1>t, <3>2, <3>3
    <3> QED BY <2>1, <2>2, <3>1, <3>4, <1>t DEF StopSide
  <2> QED BY <1>6, <2>3, <2>4, <2>5 DEF StopKill
<1>7. CASE Kill \/ KillAgain
  BY <1>6, <1>7 DEF Kill, KillAgain
<1>8. CASE StopReturn
  BY <1>8 DEF StopReturn, IdleStop, StopSide
<1>9. CASE stp' = stp
  BY <1>1, <1>2, <1>9, StepsForward
<1>10. ASSUME NEW r \in Role, Reap(r) PROVE stp' = stp
  BY <1>10 DEF Reap
<1>11. ASSUME NEW r \in Role, NEW n \in Run, ProcessExits(r, n) \/ WatcherStep(r, n) PROVE stp' = stp
  BY <1>11 DEF ProcessExits, WatcherStep, Watch, Poll, ExitStatus, SettleRelease
<1>12. ASSUME \/ Begin \/ Load \/ UNCHANGED vars \/ (DriverStep /\ ~AttachReady) PROVE stp' = stp
  BY Zenon, <1>12 DEF Begin, Load, vars, DriverStep, Show, Clean, RunUnit, Look, TPMReady, Prepare, QEMUReady,
     KillQEMU, KillWait, OnExit, TPMTerm, TPMKill, TPMKillWait, SettleRecord, AttachTPM, AttachQEMU
<1> QED BY <1>1, <1>3, <1>4, <1>5, <1>7, <1>8, <1>9, <1>10, <1>11, <1>12 DEF Next, StopperStep

\* Every step keeps what the service relies on.
LEMMA DriverSideStep ==
  ASSUME UnitType, HostInv, DriverInv, DriverSide, [Next]_vars
  PROVE DriverSide'
<1>t. /\ proc # NoRun => proc \in Run
      /\ \A r \in Role : cur[r] # NoRun => cur[r] \in Run
      /\ "qemu" \in Role /\ "swtpm" \in Role /\ NoRun \notin Run
  BY DEF UnitType, ServiceType, AnyRun, Role, NoRun, Run
<1>1. CASE Restart \/ SettleRecord
  <2>1. drv' = IdleDriver /\ proc' = NoRun
    BY Zenon, <1>1 DEF Restart, SettleRecord
  <2>2. drv'.pc = "idle"
    BY <2>1 DEF IdleDriver
  <2> QED BY <2>1, <2>2 DEF DriverSide
<1>2. ASSUME Forward, drv' = drv, cur' = cur, proc' = proc PROVE DriverSide'
  <2>1. proc # NoRun => drv.pc \notin {"atpm", "aqemu"}
    BY DEF DriverInv
  <2>2. proc # NoRun => /\ w["qemu"][proc] # "none" => w'["qemu"][proc] # "none"
                        /\ w["qemu"][proc] = "done" => w'["qemu"][proc] = "done"
    BY <1>2, <1>t, <2>1 DEF Forward
  <2>3. \A r \in Role : cur[r] # NoRun /\ Ending(r, cur[r]) => Ending(r, cur[r])'
    BY <1>2, <1>t DEF Forward, Ending
  <2>4. drv.pc = "killwait" => cur["qemu"] # NoRun
    BY DEF DriverInv
  <2>5. drv.pc = "tkwait" => cur["swtpm"] # NoRun
    BY DEF DriverInv
  <2> QED BY <1>2, <1>t, <2>2, <2>3, <2>4, <2>5 DEF DriverSide
<1>3. ASSUME NEW r \in Role, Reap(r) PROVE DriverSide'
  <2>1. drv' = drv /\ cur' = cur /\ proc' = proc
    BY <1>3 DEF Reap
  <2> QED BY <1>1, <1>2, <2>1, StepsForward
<1>4. ASSUME NEW r \in Role, NEW n \in Run, ProcessExits(r, n) \/ WatcherStep(r, n) PROVE DriverSide'
  <2>1. drv' = drv /\ cur' = cur /\ proc' = proc
    BY <1>4 DEF ProcessExits, WatcherStep, Watch, Poll, ExitStatus, SettleRelease
  <2> QED BY <1>1, <1>2, <2>1, StepsForward
<1>5. CASE Stop \/ StopperStep \/ UNCHANGED vars
  <2>1. drv' = drv /\ cur' = cur /\ proc' = proc
    BY <1>5 DEF Stop, StopperStep, Powerdown, Term, StopStep, Kill, KillAgain, StopKill, StopKillWait,
       StopReturn, StopUnchanged, vars
  <2> QED BY <1>1, <1>2, <2>1, StepsForward
<1>6. ASSUME proc = NoRun, proc' = NoRun, drv'.pc \notin {"killwait", "tkwait"} PROVE DriverSide'
  BY <1>6 DEF DriverSide
<1>7. CASE Begin \/ Show \/ Clean \/ RunUnit \/ Look \/ Prepare \/ TPMReady
  <2>1. drv.pc \in {"idle", "show", "clean", "run", "look", "prepare", "ready"} /\ proc' = proc
    BY <1>7 DEF Begin, Show, Clean, RunUnit, Look, Prepare, TPMReady
  <2>2. drv'.pc \in {"show", "clean", "run", "look", "ready", "prepare", "settle", "tterm"}
    <3>1. ServiceType /\ {"ready", "prepare", "settle", "clean", "run", "look"} \subseteq DriverPC
      BY Zenon DEF UnitType, DriverPC
    <3>2. \A l \in DriverPC : Goto(l) => drv'.pc = l
      BY Zenon, <3>1, GotoType
    <3>3. StartFailed => drv'.pc \in {"tterm", "settle"}
      BY Zenon, <3>1, StartFailedSteps
    <3>4. CASE Begin \/ Prepare
      BY <3>4 DEF Begin, Prepare
    <3>5. CASE Show \/ Clean
      BY Zenon, <3>1, <3>2, <3>3, <3>5 DEF Show, Clean
    <3>6. CASE RunUnit \/ Look
      BY Zenon, <3>1, <3>2, <3>3, <3>6 DEF RunUnit, Look
    <3>7. CASE TPMReady
      BY Zenon, <3>1, <3>2, <3>7 DEF TPMReady
    <3> QED BY Zenon, <1>7, <3>4, <3>5, <3>6, <3>7
  <2>3. proc = NoRun
    BY <2>1 DEF DriverInv
  <2> QED BY <1>6, <2>1, <2>2, <2>3
<1>8. CASE Load \/ AttachTPM \/ AttachQEMU
  <2>1. drv.pc \in {"idle", "atpm", "aqemu"} /\ proc' = proc
    BY <1>8 DEF Load, AttachTPM, AttachQEMU, DriverInv
  <2>2. drv'.pc \in {"idle", "atpm", "aqemu", "aready", "tterm"}
    BY <1>8, <2>1, GotoType DEF Load, AttachTPM, AttachQEMU, Attach, UnitType, DriverPC
  <2>3. proc = NoRun
    BY <2>1 DEF DriverInv
  <2> QED BY <1>6, <2>1, <2>2, <2>3
<1>9. CASE QEMUReady \/ AttachReady
  <2>1. /\ drv.pc \in {"ready", "aready"} /\ drv'.pc \in {"kill", "up", "tterm"} /\ w' = w
        /\ proc' \in {proc, cur["qemu"]}
    BY <1>9, GotoType DEF QEMUReady, AttachReady, UnitType, DriverPC, watchVars
  <2>2. proc = NoRun /\ (drv'.pc = "tterm" => proc' = proc)
    BY Zenon, <1>9, <2>1, GotoType DEF QEMUReady, AttachReady, UnitType, DriverPC, DriverInv
  <2>3. cur["qemu"] # NoRun => w["qemu"][cur["qemu"]] # "none"
    BY <1>t, <2>1 DEF DriverInv
  <2> QED BY <2>1, <2>2, <2>3 DEF DriverSide
<1>10. CASE KillWait \/ OnExit \/ TPMTerm \/ TPMKillWait
  <2>1. /\ w' = w /\ proc' = proc
        /\ \/ drv.pc = "killwait" /\ drv'.pc = "tterm"
           \/ drv.pc = "up" /\ drv'.pc = "tterm" /\ w["qemu"][proc] = "done"
           \/ drv.pc = "tterm" /\ drv'.pc = "tkill"
           \/ drv'.pc = "settle"
    BY <1>10, GotoType
       DEF KillWait, OnExit, ExitSeen, Exited, TPMTerm, TPMKillWait, UnitType, DriverPC, watchVars
  <2>2. drv.pc = "killwait" => proc = NoRun
    BY DEF DriverInv
  <2> QED BY <2>1, <2>2 DEF DriverSide
<1>11. CASE KillQEMU
  <2>1. drv.pc = "kill" /\ proc' = proc /\ w' = w /\ os' = os /\ cur' = cur
    BY <1>11 DEF KillQEMU
  <2>2. proc = NoRun /\ cur["qemu"] \in Run /\ w["qemu"][cur["qemu"]] # "none"
    BY <1>t, <2>1 DEF DriverInv
  <2>3. CASE Goto("tterm")
    <3>1. drv'.pc = "tterm"
      BY <2>3, GotoType DEF UnitType, DriverPC
    <3> QED BY <1>6, <2>1, <2>2, <3>1
  <2>4. CASE SigKill("qemu", cur["qemu"]) /\ Goto("killwait")
    <3>1. drv'.pc = "killwait"
      BY <2>4, GotoType DEF UnitType, DriverPC
    <3>2. PICK n \in Run : n = cur["qemu"]
      BY <2>2
    <3>3. Ending("qemu", n)'
      BY <1>t, <2>1, <2>2, <2>4, <3>2, KillEnds
    <3>4. Ending("qemu", cur["qemu"])'
      BY <2>1, <3>2, <3>3 DEF Ending
    <3> QED BY <2>1, <2>2, <3>1, <3>4 DEF DriverSide
  <2> QED BY <1>11, <2>3, <2>4 DEF KillQEMU
<1>12. CASE TPMKill
  <2>1. drv.pc = "tkill" /\ proc' = proc /\ w' = w /\ os' = os /\ cur' = cur
    BY <1>12 DEF TPMKill
  <2>2. cur["swtpm"] \in Run /\ w["swtpm"][cur["swtpm"]] # "none"
    BY <1>t, <2>1 DEF DriverInv
  <2>3. CASE Goto("settle")
    <3>1. drv'.pc = "settle"
      BY <2>3, GotoType DEF UnitType, DriverPC
    <3> QED BY <2>1, <3>1 DEF DriverSide
  <2>4. CASE SigKill("swtpm", cur["swtpm"]) /\ Goto("tkwait")
    <3>1. drv'.pc = "tkwait"
      BY <2>4, GotoType DEF UnitType, DriverPC
    <3>2. PICK n \in Run : n = cur["swtpm"]
      BY <2>2
    <3>3. Ending("swtpm", n)'
      BY <1>t, <2>1, <2>2, <2>4, <3>2, KillEnds
    <3>4. Ending("swtpm", cur["swtpm"])'
      BY <2>1, <3>2, <3>3 DEF Ending
    <3> QED BY <2>1, <3>1, <3>4 DEF DriverSide
  <2> QED BY <1>12, <2>3, <2>4 DEF TPMKill
<1> QED BY <1>1, <1>3, <1>4, <1>5, <1>7, <1>8, <1>9, <1>10, <1>11, <1>12 DEF Next, DriverStep

-----------------------------------------------------------------------------
(* The theorems.                                                           *)

\* UnitInv holds at the start.
LEMMA UnitInvInit == Init => UnitInv
<1> SUFFICES ASSUME Init PROVE UnitInv
  OBVIOUS
<1>1. \A r \in Role, n \in Run : os[r][n] = "unused" /\ w[r][n] = "none" /\ status[r][n] = NoRun
  BY DEF Init, PerRun
<1>2. \A r \in Role : unit[r].proc = NoRun /\ cur[r] = NoRun
  BY DEF Init, NoUnit, NoneHeld
<1>3. NoRun \notin Run /\ killed = {} /\ proc = NoRun /\ mgr = "up"
  BY DEF NoRun, Run, Init
<1>4. drv.pc = "idle" /\ stp.pc = "idle"
  BY DEF Init, IdleDriver, IdleStop
<1>5. HostInv
  BY <1>1, <1>2, <1>3 DEF HostInv
<1>6. DriverInv
  BY <1>2, <1>3, <1>4 DEF DriverInv, Starting
<1>7. WatchInv
  BY <1>1 DEF WatchInv, WatchOf
<1>8. StopSide /\ DriverSide
  BY <1>3, <1>4 DEF StopSide, DriverSide
<1> QED BY <1>5, <1>6, <1>7, <1>8, UnitTypeInit, TwoSides DEF UnitInv

\* Every step keeps UnitInv.
LEMMA UnitInvStep == UnitInv /\ [Next]_vars => UnitInv'
<1> SUFFICES ASSUME UnitInv, [Next]_vars PROVE UnitInv'
  OBVIOUS
<1>1. UnitType /\ HostInv /\ DriverInv /\ WatchInv /\ StopSide /\ DriverSide
  BY TwoSides DEF UnitInv
<1>2. UnitType'
  BY <1>1, UnitTypeStep
<1>3. HostInv' /\ DriverInv'
  BY <1>1, HostInvStep, DriverInvStep
<1>4. WatchInv'
  BY <1>1, WatchInvStep
<1>5. StopSide' /\ DriverSide'
  BY <1>1, StopSideStep, DriverSideStep
<1>6. (StopInv /\ WaitsEnd)'
  BY <1>5, TwoSides
<1> QED BY <1>2, <1>3, <1>4, <1>6 DEF UnitInv

\* UnitInv is an invariant of the units and of the service that drives them.
LEMMA UnitInvariant == Spec => []UnitInv
<1>1. Init => UnitInv
  BY UnitInvInit
<1>2. UnitInv /\ [Next]_vars => UnitInv'
  BY UnitInvStep
<1> QED BY <1>1, <1>2, PTL DEF Spec

\* systemd runs one process per unit, whatever start, stop or restart failed
\* half-way: what runs is the main process of its unit, and systemd-run
\* refuses the name of a loaded one.
THEOREM OneProcessPerUnit == Spec => []OnePerUnit
<1>1. UnitInv => OnePerUnit
  BY Zenon DEF UnitInv, HostInv, OnePerUnit
<1> QED BY <1>1, UnitInvariant, PTL

\* unitProcess closes done after its process has ended, unless poll gave up
\* on a failing systemctl show.
THEOREM DoneAfterExit == Spec => []DoneMeansDead
<1>1. UnitInv => DoneMeansDead
  BY DEF UnitInv, WatchInv, WatchOf, DoneMeansDead
<1> QED BY <1>1, UnitInvariant, PTL

\* settle releases the unit of its own process and reports its own status,
\* for every process whose holder waited for it.
THEOREM SettlesOwnUnit == Spec => []SettlesOwn
<1>1. UnitInv => SettlesOwn
  BY DEF UnitInv, WatchInv, WatchOf, SettlesOwn
<1> QED BY <1>1, UnitInvariant, PTL

\* onExit stops swtpm after the QEMU of the same VM has ended.
THEOREM SwtpmOutlivesQEMU == Spec => []TPMAfterQEMU
<1>1. UnitInv => TPMAfterQEMU
  <2> SUFFICES ASSUME UnitInv, drv.pc \in {"tterm", "tkill", "tkwait"}, Running("qemu", proc)
               PROVE <<"qemu", proc>> \in blind
    BY DEF TPMAfterQEMU
  <2>1. proc \in Run /\ "qemu" \in Role /\ os["qemu"][proc] = "running"
    BY DEF UnitInv, UnitType, ServiceType, AnyRun, Running, Role
  <2>2. w["qemu"][proc] = "done"
    BY DEF UnitInv, StopInv, Running
  <2>3. WatchOf("qemu", proc)
    BY <2>1 DEF UnitInv, WatchInv
  <2> QED BY <2>1, <2>2, <2>3 DEF WatchOf
<1> QED BY <1>1, UnitInvariant, PTL

\* A Kill that waits, and the wait at the end of a Stop, are for a process
\* that is dead or has been killed and that a watcher reports.
THEOREM WaitsForTheDying == Spec => []WaitsEnd
<1>1. UnitInv => WaitsEnd
  BY DEF UnitInv
<1> QED BY <1>1, UnitInvariant, PTL
=============================================================================
