------------------------- MODULE VMLifecycleProofs -------------------------
(***************************************************************************)
(* The records follow the processes, and vm.json follows the contract.     *)
(*                                                                         *)
(* But for the start and the end of vm-manager every step is of one VM:    *)
(* the entries, runs and threads of the others stay as they are, and with  *)
(* them what VMInv says of those.  So each lemma about an action is about  *)
(* one VM: Kept says that the step is of that VM alone, keeps VMInv of it  *)
(* and takes its persisted record where the contract allows.               *)
(***************************************************************************)
EXTENDS VMLifecycleProcesses

VMInv(v) == ProcessLife(v) /\ RecordLife(v) /\ InstallerVouches(v) /\ StaysStopped(v)

LifeInv == TypeInv /\ LockInv /\ ProcInv /\ \A v \in VM : VMInv(v)

\* The step is of v: the other VMs keep their entries and runs, and the
\* threads that work for them stay where they are.
Only(v) ==
  /\ svc' = svc
  /\ \A w \in VM : w # v =>
       /\ w \in unloaded' <=> w \in unloaded
       /\ rec'[w] = rec[w] /\ disk'[w] = disk[w] /\ present'[w] = present[w]
       /\ opMu'[w] = opMu[w] /\ proc'[w] = proc[w]
  /\ \A r \in Run : r[1] # v =>
       qemu'[r] = qemu[r] /\ code'[r] = code[r] /\ phase'[r] = phase[r] /\ done'[r] = done[r]
  /\ \A u \in Thread :
       \/ pc'[u] = pc[u] /\ op'[u] = op[u] /\ tgt'[u] = tgt[u] /\ arg'[u] = arg[u]
       \/ (pc[u] = "idle" \/ VMOf(u) = v) /\ (pc'[u] = "idle" \/ VMOf(u)' = v)

\* Where the contract lets the record a of a VM go.
Allows(a, b) ==
  \/ /\ b.installed = a.installed
     /\ \/ b.state = a.state
        \/ a.state = "none" /\ ~a.installed /\ b.state = "creating"
        \/ a.state = "creating" /\ b.state = "installing"
        \/ a.state \in {"installing", "stopped", "failed"} /\ a.installed /\ b.state \in {"booting", "failed"}
        \/ a.state = "booting" /\ b.state = "attesting"
        \/ a.state \in {"booting", "attesting", "running"} /\ b.state = "ready"
        \/ a.state \in {"booting", "attesting"} /\ b.state = "running"
        \/ a.state \in Live /\ b.state \in {"stopping", "stopped"}
        \/ a.state \in Live \ {"stopping"} /\ b.state = "failed"
        \/ a.state # "none" /\ b.state = "deleting"
        \/ a.state \in {"creating", "deleting"} /\ b.state = "failed"
        \/ a.state = "deleting" /\ ~a.installed /\ b.state = "installing"
  \/ a.state = "installing" /\ b.state = "installing" /\ b.installed = TRUE
  \/ a.state \in {"creating", "deleting"} /\ b.state = "none" /\ b.installed = FALSE
  \/ a.state = "none" /\ b.state = "deleting"

Kept(v) == Only(v) /\ VMInv(v)' /\ Allows(disk[v], disk'[v])

\* The service has loaded v.
Loaded(v) == svc # "down" /\ v \notin unloaded

-----------------------------------------------------------------------------
(* The contract.                                                           *)

\* A step of one VM that the contract allows is a step of the contract.
LEMMA ContractStep ==
  ASSUME TypeInv, TypeInv', NEW v \in VM, Allows(disk[v], disk'[v]),
         \A w \in VM : w # v => disk'[w] = disk[w]
  PROVE [Contract!Next]_(Contract!cvars)
<1> DEFINE S == [w \in VM |-> disk[w].state]
           I == [w \in VM |-> disk[w].installed]
           T == [w \in VM |-> disk'[w].state]
           J == [w \in VM |-> disk'[w].installed]
<1>1. disk[v] \in Record /\ disk'[v] \in Record
  BY Zenon DEF TypeInv, EntryType
<1>2. disk[v].installed \in BOOLEAN /\ disk'[v].installed \in BOOLEAN
  BY Zenon, <1>1 DEF Record
<1>3. T = [S EXCEPT ![v] = disk'[v].state] /\ J = [I EXCEPT ![v] = disk'[v].installed]
  BY Zenon
<1>4. S[v] = disk[v].state /\ I[v] = disk[v].installed
  BY Zenon
<1>5. disk'[v].state = disk[v].state => T = S
  BY Zenon
<1>6. disk'[v].installed = disk[v].installed => J = I
  BY Zenon
<1>7. S' = T /\ I' = J
  BY Zenon
<1> HIDE DEF S, I, T, J
<1>8. CASE disk'[v].installed = disk[v].installed /\ disk'[v].state = disk[v].state
  <2>1. S' = S /\ I' = I
    BY Zenon, <1>5, <1>6, <1>7, <1>8
  <2> QED BY Zenon, <2>1 DEF Contract!cvars, S, I
<1>9. CASE disk'[v].installed = disk[v].installed /\ disk'[v].state # disk[v].state
  <2>1. S' = [S EXCEPT ![v] = disk'[v].state] /\ I' = I
    BY Zenon, <1>3, <1>6, <1>7, <1>9
  <2>2. \/ disk[v].state = "none" /\ disk'[v].state = "deleting"
        \/ Contract!Create(v) \/ Contract!Install(v) \/ Contract!Boot(v)
        \/ Contract!Attest(v) \/ Contract!Ready(v) \/ Contract!Slow(v)
        \/ Contract!Stop(v) \/ Contract!Ended(v) \/ Contract!Stopped(v)
        \/ Contract!Delete(v) \/ Contract!Interrupted(v) \/ Contract!Overtaken(v)
        \/ (disk[v].state \in {"creating", "deleting"} /\ disk'[v].state = "none"
            /\ disk'[v].installed = FALSE)
    <3>1. disk[v].state = "none" /\ ~disk[v].installed /\ disk'[v].state = "creating" => Contract!Create(v)
      BY Zenon, <2>1 DEF Contract!Create, Contract!Move, S, I
    <3>2. disk[v].state = "creating" /\ disk'[v].state = "installing" => Contract!Install(v)
      BY Zenon, <2>1 DEF Contract!Install, Contract!Move, S, I
    <3>3. disk[v].state \in {"installing", "stopped", "failed"} /\ disk[v].installed
            /\ disk'[v].state \in {"booting", "failed"} => Contract!Boot(v)
      BY Zenon, <2>1 DEF Contract!Boot, Contract!Move, S, I
    <3>4. disk[v].state = "booting" /\ disk'[v].state = "attesting" => Contract!Attest(v)
      BY Zenon, <2>1 DEF Contract!Attest, Contract!Move, S, I
    <3>5. disk[v].state \in {"booting", "attesting", "running"} /\ disk'[v].state = "ready"
            => Contract!Ready(v)
      BY Zenon, <2>1 DEF Contract!Ready, Contract!Move, S, I
    <3>6. disk[v].state \in {"booting", "attesting"} /\ disk'[v].state = "running" => Contract!Slow(v)
      BY Zenon, <2>1 DEF Contract!Slow, Contract!Move, S, I
    <3>7. disk[v].state \in Live \ {"stopping"} /\ disk'[v].state = "stopping" => Contract!Stop(v)
      BY Zenon, <2>1 DEF Contract!Stop, Live, Contract!Live, Contract!Move, S, I
    <3>8. disk[v].state \in Live \ {"stopping"} /\ disk'[v].state \in {"stopped", "failed"}
            => Contract!Ended(v)
      BY Zenon, <2>1 DEF Contract!Ended, Live, Contract!Live, Contract!Move, S, I
    <3>9. disk[v].state = "stopping" /\ disk'[v].state = "stopped" => Contract!Stopped(v)
      BY Zenon, <2>1 DEF Contract!Stopped, Contract!Move, S, I
    <3>10. disk[v].state # "none" /\ disk'[v].state = "deleting" => Contract!Delete(v)
      BY Zenon, <2>1 DEF Contract!Delete, Contract!Move, S, I
    <3>11. disk[v].state \in {"creating", "deleting"} /\ disk'[v].state = "failed"
             => Contract!Interrupted(v)
      BY Zenon, <2>1 DEF Contract!Interrupted, Contract!Move, S, I
    <3>12. disk[v].state = "deleting" /\ ~disk[v].installed /\ disk'[v].state = "installing"
             => Contract!Overtaken(v)
      BY Zenon, <2>1 DEF Contract!Overtaken, Contract!Move, S, I
    <3> QED BY Zenon, <1>9, <3>1, <3>2, <3>3, <3>4, <3>5, <3>6, <3>7, <3>8, <3>9, <3>10, <3>11, <3>12
            DEF Allows
  <2>3. CASE disk[v].state = "none" /\ disk'[v].state = "deleting"
    <3>1. Contract!Reappear(v)
      BY Zenon, <1>2, <1>3, <1>7, <2>3 DEF Contract!Reappear, S, I
    <3> QED BY Zenon, <3>1 DEF Contract!Next
  <2>4. CASE disk[v].state \in {"creating", "deleting"} /\ disk'[v].state = "none"
             /\ disk'[v].installed = FALSE
    <3>1. Contract!Gone(v)
      BY Zenon, <1>3, <1>7, <2>4 DEF Contract!Gone, S, I
    <3> QED BY Zenon, <3>1 DEF Contract!Next
  <2> QED BY Zenon, <2>2, <2>3, <2>4 DEF Contract!Next
<1>10. CASE disk'[v].installed # disk[v].installed
  <2>1. \/ disk[v].state = "installing" /\ disk'[v].state = "installing" /\ disk'[v].installed = TRUE
        \/ disk[v].state \in {"creating", "deleting"} /\ disk'[v].state = "none"
           /\ disk'[v].installed = FALSE
        \/ disk[v].state = "none" /\ disk'[v].state = "deleting"
    BY Zenon, <1>10 DEF Allows
  <2>2. CASE disk[v].state = "installing" /\ disk'[v].state = "installing" /\ disk'[v].installed = TRUE
    <3>1. Contract!Installed(v)
      BY Zenon, <1>3, <1>5, <1>7, <2>2 DEF Contract!Installed, S, I
    <3> QED BY Zenon, <3>1 DEF Contract!Next
  <2>3. CASE disk[v].state \in {"creating", "deleting"} /\ disk'[v].state = "none"
             /\ disk'[v].installed = FALSE
    <3>1. Contract!Gone(v)
      BY Zenon, <1>3, <1>7, <2>3 DEF Contract!Gone, S, I
    <3> QED BY Zenon, <3>1 DEF Contract!Next
  <2>4. CASE disk[v].state = "none" /\ disk'[v].state = "deleting"
    <3>1. Contract!Reappear(v)
      BY Zenon, <1>2, <1>3, <1>7, <2>4 DEF Contract!Reappear, S, I
    <3> QED BY Zenon, <3>1 DEF Contract!Next
  <2> QED BY Zenon, <2>1, <2>2, <2>3, <2>4
<1> QED BY Zenon, <1>8, <1>9, <1>10

-----------------------------------------------------------------------------
(* The other VMs.                                                          *)

\* A thread at work for another VM stays where it is.
LEMMA ElsewhereStays ==
  ASSUME NEW v \in VM, Only(v), NEW w \in VM, w # v, NEW u \in Thread,
         (pc[u] # "idle" /\ VMOf(u) = w) \/ (pc'[u] # "idle" /\ VMOf(u)' = w)
  PROVE /\ pc'[u] = pc[u] /\ op'[u] = op[u] /\ tgt'[u] = tgt[u] /\ arg'[u] = arg[u]
        /\ VMOf(u)' = VMOf(u)
<1>1. pc'[u] = pc[u] /\ op'[u] = op[u] /\ tgt'[u] = tgt[u] /\ arg'[u] = arg[u]
  BY DEF Only
<1> QED BY Zenon, <1>1 DEF VMOf

\* Runs and visits of another VM stay where they are, or idle.
LEMMA ElsewhereRuns ==
  ASSUME NEW v \in VM, Only(v), NEW w \in VM, w # v
  PROVE /\ \A r \in Run : r[1] = w => pc'[r] = pc[r]
        /\ pc'[w] = pc[w]
<1>1. \A r \in Run : r \in Thread /\ VMOf(r) = r[1] /\ VMOf(r)' = r[1]
  BY Zenon, Kinds DEF VMOf
<1>2. w \in Thread /\ VMOf(w) = w /\ VMOf(w)' = w
  BY Zenon, Kinds DEF VMOf
<1> QED BY <1>1, <1>2 DEF Only

\* What VMInv says of another VM it says after the step.
LEMMA Elsewhere ==
  ASSUME TypeInv, LockInv, NEW v \in VM, Only(v), NEW w \in VM, w # v, VMInv(w)
  PROVE VMInv(w)'
<1>1. \A u \in Thread :
        (pc[u] # "idle" /\ VMOf(u) = w) \/ (pc'[u] # "idle" /\ VMOf(u)' = w) =>
          /\ pc'[u] = pc[u] /\ op'[u] = op[u] /\ tgt'[u] = tgt[u] /\ arg'[u] = arg[u]
          /\ VMOf(u)' = VMOf(u)
  BY Zenon, ElsewhereStays
<1>2. (\A r \in Run : r[1] = w => pc'[r] = pc[r]) /\ pc'[w] = pc[w]
  BY Zenon, ElsewhereRuns
<1>3. \A c \in Call : c \in Thread /\ VMOf(c) = tgt[c] /\ VMOf(c)' = tgt'[c]
  BY Zenon, Kinds DEF VMOf
<1>4. /\ svc' = svc /\ (w \in unloaded' <=> w \in unloaded)
      /\ rec'[w] = rec[w] /\ disk'[w] = disk[w] /\ present'[w] = present[w]
      /\ opMu'[w] = opMu[w] /\ proc'[w] = proc[w]
  BY Zenon DEF Only
<1>5. \A r \in Run : r[1] = w =>
        qemu'[r] = qemu[r] /\ code'[r] = code[r] /\ phase'[r] = phase[r] /\ done'[r] = done[r]
  BY Zenon DEF Only
<1>6. ProcessLife(w)'
  <2>1. NotLoaded(w)' /\ DoneIsFinal(w)'
    BY <1>1, <1>3, <1>4, <1>5 DEF VMInv, ProcessLife, NotLoaded, DoneIsFinal, RunsOf
  <2>2. WaitsForOwn(w)'
    BY Zenon, <1>1, <1>4 DEF VMInv, ProcessLife, WaitsForOwn, RunsOf
  <2>3. CommitsFresh(w)'
    BY <1>1, <1>2, <1>5 DEF VMInv, ProcessLife, CommitsFresh, LockInv, StartsOwnRun
  <2>4. TeardownIsQuiet(w)'
    BY Zenon, <1>1, <1>3, <1>4 DEF VMInv, ProcessLife, TeardownIsQuiet
  <2>5. GuestsHaveRun(w)'
    <3> SUFFICES ASSUME NEW c \in Call, tgt'[c] = w, pc'[c] = "guest"
                 PROVE \E r \in RunsOf(w) : qemu'[r] # "unused"
      BY Zenon DEF GuestsHaveRun, RunsOf
    <3>1. tgt[c] = w /\ pc[c] = "guest"
      BY Zenon, <1>1, <1>3
    <3>2. GuestsHaveRun(w)
      BY Zenon DEF VMInv, ProcessLife
    <3>3. PICK r \in RunsOf(w) : qemu[r] # "unused"
      BY Zenon, <3>1, <3>2 DEF GuestsHaveRun
    <3> QED BY Zenon, <1>5, <3>3 DEF RunsOf
  <2> QED BY Zenon, <2>1, <2>2, <2>3, <2>4, <2>5 DEF ProcessLife
<1>7. RecordLife(w)'
  <2>1. StateFollows(w)'
    BY <1>2, <1>4 DEF VMInv, RecordLife, StateFollows, RecordShape, RunsOf
  <2>2. BootsInstalled(w)'
    <3>1. \A t \in Thread : pc'[t] \in {"start", "commit"} /\ VMOf(t)' = w =>
            pc[t] = pc'[t] /\ VMOf(t) = w /\ PhaseOf(t)' = PhaseOf(t)
      BY Zenon, <1>1 DEF PhaseOf
    <3> QED BY Zenon, <3>1, <1>2, <1>4 DEF VMInv, RecordLife, BootsInstalled, RunsOf
  <2>3. CreatesAlone(w)'
    <3>1. \A c \in Call : Creating(c)' /\ tgt'[c] = w =>
            Creating(c) /\ tgt[c] = w /\ pc'[c] = pc[c]
      BY Zenon, <1>1, <1>3 DEF Creating
    <3> QED BY <3>1, <1>4, <1>5 DEF VMInv, RecordLife, CreatesAlone, RunsOf
  <2>4. DeleteHolds(w)'
    BY <1>1, <1>3, <1>4 DEF VMInv, RecordLife, DeleteHolds
  <2>5. SavedOrGone(w)'
    BY <1>1, <1>3, <1>4, <1>5 DEF VMInv, RecordLife, SavedOrGone, RunsOf
  <2> QED BY Zenon, <2>1, <2>2, <2>3, <2>4, <2>5 DEF RecordLife
<1>8. InstallerVouches(w)'
  <2>1. (ClaimsInstalled(w)' => ClaimsInstalled(w)) /\ (InstallerExited(w) => InstallerExited(w)')
    BY Zenon, <1>4, <1>5 DEF ClaimsInstalled, InstallerExited, RunsOf
  <2> QED BY Zenon, <2>1 DEF VMInv, InstallerVouches
<1>9. StaysStopped(w)'
  <2>1. \A t \in Thread : pc'[t] \in {"start", "commit"} /\ VMOf(t)' = w =>
          pc[t] = pc'[t] /\ VMOf(t) = w
    BY Zenon, <1>1
  <2> QED BY Zenon, <2>1, <1>2, <1>4 DEF VMInv, StaysStopped, closing
<1> QED BY Zenon, <1>6, <1>7, <1>8, <1>9 DEF VMInv

-----------------------------------------------------------------------------
(* One thread of v goes from one label to another.                         *)

Walks(t, l, v) ==
  /\ Moves(t, l)
  /\ pc[t] = "idle" \/ VMOf(t) = v
  /\ l = "idle" \/ VMOf(t)' = v

\* A thread is under way only for a VM that is loaded.
LEMMA ThreadLoaded ==
  ASSUME LockInv, NEW v \in VM, NotLoaded(v), NEW t \in Thread, pc[t] # "idle", VMOf(t) = v
  PROVE Loaded(v)
<1>1. CASE t \in Call
  <2>1. tgt[t] = v
    BY Zenon, <1>1, Kinds DEF VMOf
  <2> QED BY Zenon, <1>1, <2>1 DEF LockInv, LoadingIsQuiet, NotLoaded, Loaded
<1>2. CASE t \in Run
  BY Zenon, <1>2, Kinds DEF VMOf, LockInv, LoadingIsQuiet, Loaded
<1>3. CASE t \in VM
  BY Zenon, <1>3, Kinds DEF LockInv, LoadingIsQuiet, Loaded
<1> QED BY Zenon, <1>1, <1>2, <1>3 DEF Thread

\* A thread that moves waits for the process of the entry, tears down only
\* what has none, and is a guest request only of a VM that has had a run.
LifeOn(t, l, v) ==
  /\ l # "commit" /\ (t \in Run => pc[t] # "idle")
  /\ rec[v].state = "deleting" => rec'[v].state = "deleting"
  /\ l = "guest" => \E r \in Run : r[1] = v /\ qemu'[r] # "unused"
  /\ l = "deleting" \/ (t \in VM /\ l = "stopping") =>
       arg'[t] \in Run /\ arg'[t][1] = v /\ proc[v] \in {NoRun, arg'[t]}
  /\ l \in {"teardown", "forget"} => proc[v] = NoRun
  /\ l \in {"teardown", "forget", "deleting"} /\ op'[t] # "Create" => rec'[v].state = "deleting"

\* A VM without a process stays without while a thread only walks.
LEMMA LifeMove ==
  ASSUME TypeInv, LockInv, NEW v \in VM, ProcessLife(v), Loaded(v)',
         NEW t \in Thread, NEW l, Walks(t, l, v), LifeOn(t, l, v),
         proc'[v] = proc[v],
         \A r \in Run : r[1] = v =>
            done'[r] = done[r] /\ (qemu[r] # "unused" => qemu'[r] # "unused")
  PROVE ProcessLife(v)'
<1>1. NotLoaded(v)'
  BY Zenon DEF Loaded, NotLoaded
<1>2. DoneIsFinal(v)'
  BY Zenon DEF ProcessLife, DoneIsFinal, RunsOf
<1>3. WaitsForOwn(v)'
  <2> SUFFICES ASSUME NEW u \in Thread, VMOf(u)' = v,
                      pc'[u] = "deleting" \/ (u \in VM /\ pc'[u] = "stopping")
               PROVE arg'[u] \in Run /\ arg'[u][1] = v /\ proc'[v] \in {NoRun, arg'[u]}
    BY Zenon DEF WaitsForOwn, RunsOf
  <2>1. CASE u = t
    BY Zenon, <2>1 DEF Walks, Moves, LifeOn
  <2>2. CASE u # t
    BY <2>2, Others DEF Walks, Moves, ProcessLife, WaitsForOwn, RunsOf
  <2> QED BY Zenon, <2>1, <2>2
<1>4. CommitsFresh(v)'
  <2> SUFFICES ASSUME NEW u \in Thread, VMOf(u)' = v, pc'[u] = "commit"
               PROVE pc'[arg'[u]] = "idle" /\ ~done'[arg'[u]]
    BY Zenon DEF CommitsFresh
  <2>1. u # t /\ pc[u] = "commit" /\ arg'[u] = arg[u]
    BY Zenon DEF Walks, Moves, LifeOn
  <2>2. VMOf(u) = v
    BY Zenon, <2>1, Others DEF Walks
  <2>3. arg[u] \in Run /\ arg[u][1] = v /\ pc[arg[u]] = "idle" /\ ~done[arg[u]]
    BY Zenon, <2>1, <2>2 DEF LockInv, StartsOwnRun, ProcessLife, CommitsFresh
  <2>4. arg[u] # t /\ arg[u] \in Thread
    BY Zenon, <2>3, Kinds DEF LifeOn
  <2> QED BY Zenon, <2>1, <2>3, <2>4 DEF Walks, Moves
<1>5. TeardownIsQuiet(v)'
  <2> SUFFICES ASSUME NEW c \in Call, tgt'[c] = v
               PROVE /\ pc'[c] \in {"teardown", "forget"} => proc'[v] = NoRun
                     /\ pc'[c] \in {"teardown", "forget", "deleting"} /\ op'[c] # "Create" =>
                           rec'[v].state = "deleting"
    BY Zenon DEF TeardownIsQuiet
  <2>1. CASE c = t
    BY Zenon, <2>1 DEF Walks, Moves, LifeOn
  <2>2. CASE c # t
    BY Zenon, <2>2, Kinds DEF Walks, Moves, ProcessLife, TeardownIsQuiet, LifeOn
  <2> QED BY Zenon, <2>1, <2>2
<1>6. GuestsHaveRun(v)'
  <2> SUFFICES ASSUME NEW c \in Call, tgt'[c] = v, pc'[c] = "guest"
               PROVE \E r \in Run : r[1] = v /\ qemu'[r] # "unused"
    BY Zenon DEF GuestsHaveRun, RunsOf
  <2>1. CASE c = t
    BY Zenon, <2>1 DEF Walks, Moves, LifeOn
  <2>2. CASE c # t
    BY ZenonT(30), <2>2, Kinds DEF Walks, Moves, ProcessLife, GuestsHaveRun, RunsOf
  <2> QED BY Zenon, <2>1, <2>2
<1> QED BY Zenon, <1>1, <1>2, <1>3, <1>4, <1>5, <1>6 DEF ProcessLife

\* What a thread that moves owes the others at work on the VM: a boot is of
\* an installed disk,
BootsWell(t, l, v) ==
  /\ l \notin {"commit", "boot"}
  /\ l = "start" /\ PhaseOf(t)' = "boot" =>
       rec[v].installed /\ rec[v].state \in {"installing", "stopped", "failed"}

\* a Create goes on as one, and has saved the record it starts,
CreatesOn(t, l, v) ==
  /\ l \notin {"commit", "launch"} /\ pc[t] # "commit"
  /\ t \in Call /\ Creating(t)' =>
       /\ Creating(t) /\ tgt[t] = v
       /\ l = "start" => disk'[v] = rec[v]
       /\ l = "provision" => pc[t] = "launch"

\* a handoff is not dropped,
HandsOn(t, l, v) ==
  t \in Run /\ pc[t] \in {"boot", "start", "commit"} /\ l # "start" =>
    ~(rec[v].state = "installing" /\ rec[v].installed)

\* and neither is a deletion.
DeletesOn(t, l, v) ==
  pc[t] \in {"deleting", "teardown", "forget"} =>
    l \in {"deleting", "teardown", "forget"} /\ opMu'[v] = opMu[v] /\ tgt'[t] = tgt[t]

\* The handoff of a record that stays is still under way.
LEMMA FollowsMove ==
  ASSUME NEW v \in VM, StateFollows(v), NEW t \in Thread, NEW l, Walks(t, l, v),
         rec'[v] = rec[v], disk'[v] \in {disk[v], rec[v]},
         present'[v] = present[v], proc'[v] = proc[v], HandsOn(t, l, v)
  PROVE StateFollows(v)'
<1>1. ASSUME rec[v].state = "installing", rec[v].installed
      PROVE \E r \in RunsOf(v) : pc'[r] \in {"boot", "start", "commit"}
  <2>1. PICK r \in Run : r[1] = v /\ pc[r] \in {"boot", "start", "commit"}
    BY Zenon, <1>1 DEF StateFollows, RunsOf
  <2>2. CASE r = t
    BY Zenon, <1>1, <2>1, <2>2 DEF Walks, Moves, RunsOf, HandsOn
  <2>3. CASE r # t
    BY Zenon, <2>1, <2>3, Kinds DEF Walks, Moves, RunsOf
  <2> QED BY Zenon, <2>2, <2>3
<1>2. RecordShape(rec[v]) /\ RecordShape(disk[v])
  BY Zenon DEF StateFollows
<1>3. RecordShape(rec'[v]) /\ RecordShape(disk'[v])
  BY Zenon, <1>2
<1> QED BY <1>1, <1>3 DEF StateFollows, RecordShape, RunsOf

\* The boots under way are of a record that stays.
LEMMA BootsMove ==
  ASSUME NEW v \in VM, BootsInstalled(v), NEW t \in Thread, NEW l, Walks(t, l, v),
         rec'[v] = rec[v], BootsWell(t, l, v)
  PROVE BootsInstalled(v)'
<1>1. ASSUME NEW u \in Thread, VMOf(u)' = v, pc'[u] \in {"start", "commit"}, PhaseOf(u)' = "boot"
      PROVE rec[v].installed /\ rec[v].state \in {"installing", "stopped", "failed"}
  <2>1. CASE u = t
    BY Zenon, <1>1, <2>1 DEF Walks, Moves, BootsWell
  <2>2. CASE u # t
    <3>1. pc[u] = pc'[u] /\ VMOf(u) = v /\ PhaseOf(u) = "boot"
      BY Zenon, <1>1, <2>2, Others DEF Walks, Moves, PhaseOf
    <3> QED BY Zenon, <1>1, <3>1 DEF BootsInstalled
  <2> QED BY Zenon, <2>1, <2>2
<1>2. \A r \in Run : r[1] = v /\ pc'[r] = "boot" => rec[v].installed
  BY Zenon, Kinds DEF Walks, Moves, BootsInstalled, RunsOf, BootsWell
<1> QED BY Zenon, <1>1, <1>2 DEF BootsInstalled, RunsOf

\* A Create stays the only one.
LEMMA CreatesMove ==
  ASSUME NEW v \in VM, CreatesAlone(v), NEW t \in Thread, NEW l, Walks(t, l, v),
         rec'[v] = rec[v], disk'[v] \in {disk[v], rec[v]},
         \A r \in Run : r[1] = v => qemu'[r] = qemu[r], CreatesOn(t, l, v)
  PROVE CreatesAlone(v)'
<1>1. ASSUME NEW c \in Call, Creating(c)', tgt'[c] = v
      PROVE /\ Creating(c) /\ tgt[c] = v
            /\ pc'[c] # "commit" => pc[c] # "commit"
            /\ pc'[c] \in {"start", "commit"} => disk'[v] = rec[v]
            /\ pc'[c] \in {"launch", "provision"} => pc[c] \in {"launch", "provision"}
  <2>1. CASE c = t
    BY Zenon, <1>1, <2>1 DEF Walks, Moves, CreatesOn
  <2>2. CASE c # t
    <3>1. Creating(c) /\ tgt[c] = v /\ pc'[c] = pc[c]
      BY Zenon, <1>1, <2>2, Kinds DEF Walks, Moves, Creating
    <3> QED BY Zenon, <3>1 DEF CreatesAlone
  <2> QED BY Zenon, <2>1, <2>2
<1>2. \A c, d \in Call : Creating(c)' /\ Creating(d)' /\ tgt'[c] = v /\ tgt'[d] = v => c = d
  BY Zenon, <1>1 DEF CreatesAlone
<1>3. ASSUME NEW c \in Call, Creating(c)', tgt'[c] = v
      PROVE /\ rec[v].state \in {"creating", "deleting"} /\ ~rec[v].installed
            /\ pc'[c] # "commit" => \A r \in Run : r[1] = v => qemu'[r] = "unused"
            /\ pc'[c] \in {"start", "commit"} => disk'[v] = rec[v]
            /\ pc'[c] \in {"launch", "provision"} /\ rec[v].state = "creating" => disk'[v] = rec[v]
  <2>1. /\ Creating(c) /\ tgt[c] = v
        /\ pc'[c] # "commit" => pc[c] # "commit"
        /\ pc'[c] \in {"start", "commit"} => disk'[v] = rec[v]
        /\ pc'[c] \in {"launch", "provision"} => pc[c] \in {"launch", "provision"}
    BY Zenon, <1>1, <1>3
  <2>2. /\ rec[v].state \in {"creating", "deleting"} /\ ~rec[v].installed
        /\ pc[c] # "commit" => \A r \in Run : r[1] = v => qemu[r] = "unused"
        /\ pc[c] \in {"launch", "provision"} /\ rec[v].state = "creating" => disk[v] = rec[v]
    BY Zenon, <2>1 DEF CreatesAlone, RunsOf
  <2> QED BY Zenon, <2>1, <2>2
<1> QED BY Zenon, <1>2, <1>3 DEF CreatesAlone, RunsOf

\* A deletion stays in the same hands.
LEMMA DeleteMove ==
  ASSUME NEW v \in VM, DeleteHolds(v), NEW t \in Thread, NEW l, Walks(t, l, v), LockMoves(t, v),
         rec'[v] = rec[v], present'[v] = present[v], DeletesOn(t, l, v)
  PROVE DeleteHolds(v)'
<1> SUFFICES ASSUME present[v], rec[v].state = "deleting"
             PROVE \E c \in Call : opMu'[v] = c /\ tgt'[c] = v
                      /\ pc'[c] \in {"deleting", "teardown", "forget"}
  BY Zenon DEF DeleteHolds
<1>1. PICK c \in Call : opMu[v] = c /\ tgt[c] = v /\ pc[c] \in {"deleting", "teardown", "forget"}
  BY Zenon DEF DeleteHolds
<1>2. CASE c = t
  <2>1. pc'[t] = l
    BY Zenon DEF Walks, Moves
  <2>2. l \in {"deleting", "teardown", "forget"} /\ opMu'[v] = opMu[v] /\ tgt'[t] = tgt[t]
    BY Zenon, <1>1, <1>2 DEF DeletesOn
  <2>3. opMu'[v] = c /\ tgt'[c] = v /\ pc'[c] \in {"deleting", "teardown", "forget"}
    BY Zenon, <1>1, <1>2, <2>1, <2>2
  <2> QED BY Zenon, <2>3
<1>3. CASE c # t
  BY Zenon, <1>1, <1>3, Kinds DEF Walks, Moves, LockMoves
<1> QED BY Zenon, <1>2, <1>3

\* A record that is gone stays gone, or is saved again.
LEMMA SavedMove ==
  ASSUME NEW v \in VM, SavedOrGone(v), Loaded(v), NEW t \in Thread, NEW l, Walks(t, l, v),
         rec'[v] = rec[v], disk'[v] \in {disk[v], rec[v]},
         present'[v] = present[v], proc'[v] = proc[v], pc[t] # "forget",
         \A r \in Run : r[1] = v => qemu'[r] = qemu[r]
  PROVE SavedOrGone(v)'
<1>1. CASE disk'[v] = rec[v]
  BY Zenon, <1>1 DEF SavedOrGone
<1>2. CASE disk'[v] = disk[v] /\ disk[v] # rec[v]
  <2>1. /\ disk[v] = NoRecord /\ rec[v].state \in {"creating", "deleting"} /\ proc[v] = NoRun
        /\ rec[v].state = "creating" /\ present[v] =>
             /\ \E c \in Call : pc[c] = "forget" /\ tgt[c] = v
             /\ \A r \in Run : r[1] = v => qemu[r] = "unused"
    BY Zenon, <1>2 DEF Loaded, SavedOrGone, RunsOf
  <2>2. ASSUME NEW c \in Call, pc[c] = "forget", tgt[c] = v
        PROVE pc'[c] = "forget" /\ tgt'[c] = v
    BY Zenon, <2>2, Kinds DEF Walks, Moves
  <2>3. rec[v].state = "creating" /\ present[v] =>
          /\ \E c \in Call : pc'[c] = "forget" /\ tgt'[c] = v
          /\ \A r \in Run : r[1] = v => qemu'[r] = "unused"
    BY Zenon, <2>1, <2>2
  <2> QED BY Zenon, <1>2, <2>1, <2>3 DEF SavedOrGone, RunsOf
<1> QED BY Zenon, <1>1, <1>2

\* A record takes a new state and is saved with it.
TakesState(t, l, v, s) ==
  /\ proc[v] # NoRun => s \in Live \cup {"deleting"}
  /\ s \in Live => proc[v] # NoRun
  /\ s # "deleting" => rec[v].state \notin {"creating", "deleting"}
  /\ s = "deleting" =>
       /\ opMu[v] = Free /\ t \in Call /\ opMu'[v] = t /\ tgt'[t] = v
       /\ l \in {"deleting", "teardown"}

\* The record is in its new state what StateFollows asks for, and DeleteHolds.
LEMMA StateMove ==
  ASSUME NEW v \in VM, NEW t \in Thread, NEW l, Walks(t, l, v),
         NEW s \in {"attesting", "ready", "running", "stopping", "stopped", "failed", "deleting"},
         rec'[v].state = s, disk'[v] = rec'[v], proc'[v] = proc[v], TakesState(t, l, v, s)
  PROVE StateFollows(v)' /\ DeleteHolds(v)' /\ SavedOrGone(v)'
<1>1. StateFollows(v)'
  BY Zenon DEF StateFollows, RecordShape, Live, TakesState
<1>2. DeleteHolds(v)'
  BY Zenon DEF DeleteHolds, Walks, Moves, TakesState
<1>3. SavedOrGone(v)'
  BY Zenon DEF SavedOrGone
<1> QED BY Zenon, <1>1, <1>2, <1>3

\* No boot is under way where a record takes a state of a process.
LEMMA StateBoots ==
  ASSUME TypeInv, LockInv, ProcInv, NEW v \in VM, BootsInstalled(v),
         NEW t \in Thread, NEW l, Walks(t, l, v), l \notin {"start", "commit", "boot"},
         NEW s \in {"attesting", "ready", "running", "stopping", "stopped", "failed", "deleting"},
         rec'[v].state = s, rec'[v].installed = rec[v].installed, TakesState(t, l, v, s)
  PROVE BootsInstalled(v)'
<1>1. ASSUME NEW u \in Thread, VMOf(u)' = v, pc'[u] \in {"start", "commit"}, PhaseOf(u)' = "boot"
      PROVE rec'[v].installed /\ rec'[v].state \in {"installing", "stopped", "failed"}
  <2>1. u # t /\ pc[u] = pc'[u] /\ op'[u] = op[u]
    BY Zenon, <1>1 DEF Walks, Moves
  <2>2. VMOf(u) = v
    BY Zenon, <1>1, <2>1, Others DEF Walks
  <2>3. PhaseOf(u) = "boot"
    BY Zenon, <1>1, <2>1 DEF PhaseOf
  <2>4. rec[v].installed
    BY Zenon, <1>1, <2>1, <2>2, <2>3 DEF BootsInstalled
  <2>5. proc[v] = NoRun
    BY Zenon, <1>1, <2>1, <2>2 DEF ProcInv, StartsAlone
  <2>6. opMu[v] = u
    BY Zenon, <1>1, <2>1, <2>2 DEF LockInv, LockDiscipline, HoldsOpMu
  <2>7. s # "deleting" /\ s \notin Live
    BY Zenon, <2>5, <2>6, Kinds DEF TakesState
  <2> QED BY Zenon, <2>4, <2>7 DEF Live
<1>2. \A r \in Run : r[1] = v /\ pc'[r] = "boot" => rec'[v].installed
  BY Zenon, Kinds DEF Walks, Moves, BootsInstalled, RunsOf
<1> QED BY Zenon, <1>1, <1>2 DEF BootsInstalled, RunsOf

\* The record of a Create can only be marked deleting.
LEMMA StateCreates ==
  ASSUME NEW v \in VM, CreatesAlone(v), NEW t \in Thread, NEW l, Walks(t, l, v), t \in Call => ~Creating(t)',
         NEW s \in {"attesting", "ready", "running", "stopping", "stopped", "failed", "deleting"},
         rec'[v].state = s, rec'[v].installed = rec[v].installed, disk'[v] = rec'[v],
         \A r \in Run : r[1] = v => qemu'[r] = qemu[r], TakesState(t, l, v, s)
  PROVE CreatesAlone(v)'
<1>1. \A c \in Call : Creating(c)' /\ tgt'[c] = v => Creating(c) /\ tgt[c] = v /\ pc'[c] = pc[c]
  BY Zenon, Kinds DEF Walks, Moves, Creating
<1>2. \A c, d \in Call : Creating(c)' /\ Creating(d)' /\ tgt'[c] = v /\ tgt'[d] = v => c = d
  BY Zenon, <1>1 DEF CreatesAlone
<1>3. ASSUME NEW c \in Call, Creating(c)', tgt'[c] = v
      PROVE /\ s = "deleting" /\ ~rec[v].installed
            /\ pc'[c] # "commit" => \A r \in Run : r[1] = v => qemu'[r] = "unused"
  <2>1. Creating(c) /\ tgt[c] = v /\ pc'[c] = pc[c]
    BY Zenon, <1>1, <1>3
  <2>2. /\ rec[v].state \in {"creating", "deleting"} /\ ~rec[v].installed
        /\ pc[c] # "commit" => \A r \in Run : r[1] = v => qemu[r] = "unused"
    BY Zenon, <2>1 DEF CreatesAlone, RunsOf
  <2>3. s = "deleting"
    BY Zenon, <2>2 DEF TakesState
  <2> QED BY Zenon, <2>1, <2>2, <2>3
<1> QED BY Zenon, <1>2, <1>3 DEF CreatesAlone, RunsOf

\* An installer that has exited keeps vouching for the disk.
LEMMA VouchMove ==
  ASSUME NEW v \in VM, InstallerVouches(v),
         ClaimsInstalled(v)' => ClaimsInstalled(v) \/ InstallerExited(v),
         \A r \in Run : r[1] = v /\ qemu[r] = "released" =>
            qemu'[r] = "released" /\ code'[r] = code[r] /\ phase'[r] = phase[r]
  PROVE InstallerVouches(v)'
<1>1. InstallerExited(v) => InstallerExited(v)'
  BY Zenon DEF InstallerExited, RunsOf
<1> QED BY Zenon, <1>1 DEF InstallerVouches

\* During Close nothing is started, and a visit ends with the VM stopped.
StaysOn(t, l, v) ==
  /\ l # "commit"
  /\ l = "start" => ~closing \/ ~rec[v].installed
  /\ t = v /\ l = "idle" /\ ~DetachOnClose /\ present[v] => proc[v] = NoRun /\ opMu[v] = v

\* A thread that starts nothing during Close keeps a VM stopped.
LEMMA StaysMove ==
  ASSUME LockInv, NEW v \in VM, StaysStopped(v), NEW t \in Thread, NEW l, Walks(t, l, v),
         svc' = svc, present'[v] = present[v], rec'[v].installed = rec[v].installed,
         proc'[v] = proc[v], StaysOn(t, l, v)
  PROVE StaysStopped(v)'
<1> SUFFICES ASSUME closing, ~DetachOnClose, pc'[v] = "idle", present[v], rec[v].installed
             PROVE /\ proc[v] = NoRun
                   /\ \A u \in Thread : pc'[u] \in {"start", "commit"} => VMOf(u)' # v
  BY Zenon DEF StaysStopped, closing
<1>1. CASE t = v
  <2>1. l = "idle" /\ proc[v] = NoRun /\ opMu[v] = v
    BY Zenon, <1>1 DEF Walks, Moves, StaysOn
  <2>2. ASSUME NEW u \in Thread, pc'[u] \in {"start", "commit"}, VMOf(u)' = v PROVE FALSE
    <3>1. u # t /\ pc[u] \in {"start", "commit"}
      BY Zenon, <2>1, <2>2 DEF Walks, Moves, StaysOn
    <3>2. VMOf(u) = v
      BY Zenon, <2>2, <3>1, Others DEF Walks
    <3> QED BY Zenon, <1>1, <2>1, <3>1, <3>2 DEF LockInv, LockDiscipline, HoldsOpMu
  <2> QED BY Zenon, <2>1, <2>2
<1>2. CASE t # v
  <2>1. pc[v] = "idle"
    BY Zenon, <1>2, Kinds DEF Walks, Moves
  <2>2. proc[v] = NoRun /\ \A u \in Thread : pc[u] \in {"start", "commit"} => VMOf(u) # v
    BY Zenon, <2>1 DEF StaysStopped
  <2>3. ASSUME NEW u \in Thread, pc'[u] \in {"start", "commit"}, VMOf(u)' = v PROVE FALSE
    <3>1. u # t /\ pc[u] \in {"start", "commit"}
      BY Zenon, <2>3 DEF Walks, Moves, StaysOn
    <3>2. VMOf(u) = v
      BY Zenon, <2>3, <3>1, Others DEF Walks
    <3> QED BY Zenon, <2>2, <3>1, <3>2
  <2> QED BY Zenon, <2>2, <2>3
<1> QED BY Zenon, <1>1, <1>2

-----------------------------------------------------------------------------
(* A thread moves while the runs and the entries but their records stay.   *)

SameRuns ==
  /\ svc' = svc /\ unloaded' = unloaded /\ present' = present /\ proc' = proc
  /\ qemu' = qemu /\ code' = code /\ phase' = phase /\ done' = done

OneRecord(v) == \A w \in VM : w # v => rec'[w] = rec[w] /\ disk'[w] = disk[w]

\* Such a step is of one VM.
LEMMA OnlyMove ==
  ASSUME NEW v \in VM, NEW t \in Thread, NEW l, Walks(t, l, v), LockMoves(t, v),
         SameRuns, OneRecord(v)
  PROVE Only(v)
<1>1. \A u \in Thread :
       \/ pc'[u] = pc[u] /\ op'[u] = op[u] /\ tgt'[u] = tgt[u] /\ arg'[u] = arg[u]
       \/ (pc[u] = "idle" \/ VMOf(u) = v) /\ (pc'[u] = "idle" \/ VMOf(u)' = v)
  BY Zenon DEF Walks, Moves
<1> QED BY Zenon, <1>1 DEF Only, SameRuns, OneRecord, LockMoves

\* A thread may go to l and leave the record of v as it is.
MayMove(t, l, v) ==
  /\ l \notin {"commit", "launch", "boot", "deleting", "forget"}
  /\ pc[t] \notin {"commit", "forget", "teardown"}
  /\ (t \in Run => pc[t] # "idle") /\ (t \in VM => l # "stopping")
  /\ l = "guest" => \E r \in Run : r[1] = v /\ qemu[r] # "unused"
  /\ l = "teardown" => proc[v] = NoRun /\ (op'[t] # "Create" => rec[v].state = "deleting")
  /\ BootsWell(t, l, v) /\ CreatesOn(t, l, v) /\ HandsOn(t, l, v)
  /\ pc[t] = "deleting" => l = "teardown" /\ opMu'[v] = opMu[v] /\ tgt'[t] = tgt[t]
  /\ StaysOn(t, l, v)

\* The record stays as it is, and may be saved again.
LEMMA MoveKept ==
  ASSUME TypeInv, LockInv, NEW v \in VM, VMInv(v), Loaded(v),
         NEW t \in Thread, NEW l, Walks(t, l, v), LockMoves(t, v), SameRuns, OneRecord(v),
         rec'[v] = rec[v], disk'[v] \in {disk[v], rec[v]}, MayMove(t, l, v)
  PROVE Kept(v)
<1>1. Only(v)
  BY Zenon, OnlyMove
<1>2. ProcessLife(v)'
  <2>1. Loaded(v)' /\ proc'[v] = proc[v] /\ qemu' = qemu /\ done' = done
    BY Zenon DEF Loaded, SameRuns
  <2>2. LifeOn(t, l, v)
    BY Zenon, <2>1 DEF LifeOn, MayMove
  <2> QED BY Zenon, <2>1, <2>2, LifeMove DEF VMInv
<1>3. RecordLife(v)'
  <2>1. present'[v] = present[v] /\ proc'[v] = proc[v] /\ qemu' = qemu
    BY Zenon DEF SameRuns
  <2>2. /\ BootsWell(t, l, v) /\ CreatesOn(t, l, v) /\ HandsOn(t, l, v) /\ DeletesOn(t, l, v)
        /\ pc[t] # "forget"
    BY Zenon DEF MayMove, DeletesOn
  <2>3. /\ StateFollows(v) /\ BootsInstalled(v) /\ CreatesAlone(v)
        /\ DeleteHolds(v) /\ SavedOrGone(v)
    BY Zenon DEF VMInv, RecordLife
  <2>4. StateFollows(v)'
    BY Zenon, <2>1, <2>2, <2>3, FollowsMove
  <2>5. BootsInstalled(v)'
    BY Zenon, <2>2, <2>3, BootsMove
  <2>6. CreatesAlone(v)'
    BY Zenon, <2>1, <2>2, <2>3, CreatesMove
  <2>7. DeleteHolds(v)'
    BY Zenon, <2>1, <2>2, <2>3, DeleteMove
  <2>8. SavedOrGone(v)'
    BY Zenon, <2>1, <2>2, <2>3, SavedMove
  <2> QED BY Zenon, <2>4, <2>5, <2>6, <2>7, <2>8 DEF RecordLife
<1>4. InstallerVouches(v)'
  <2>1. ClaimsInstalled(v)' => ClaimsInstalled(v)
    BY Zenon DEF ClaimsInstalled, SameRuns
  <2>2. qemu' = qemu /\ code' = code /\ phase' = phase
    BY Zenon DEF SameRuns
  <2> QED BY Zenon, <2>1, <2>2, VouchMove DEF VMInv
<1>5. StaysStopped(v)'
  <2>1. svc' = svc /\ present'[v] = present[v] /\ proc'[v] = proc[v]
    BY Zenon DEF SameRuns
  <2>2. StaysOn(t, l, v)
    BY Zenon DEF MayMove
  <2> QED BY Zenon, <2>1, <2>2, StaysMove DEF VMInv
<1>6. Allows(disk[v], disk'[v])
  <2>1. CASE disk'[v] = disk[v]
    BY Zenon, <2>1 DEF Allows
  <2>2. CASE disk'[v] = rec[v] /\ disk[v] # rec[v]
    <3>1. disk[v] = NoRecord /\ rec[v].state \in {"creating", "deleting"} /\ RecordShape(rec[v])
      BY Zenon, <2>2 DEF VMInv, RecordLife, SavedOrGone, StateFollows, Loaded
    <3>2. rec[v].installed \in BOOLEAN
      BY Zenon DEF TypeInv, EntryType, Record
    <3>3. NoRecord.state = "none" /\ NoRecord.installed = FALSE
      BY Zenon DEF NoRecord
    <3>4. disk[v].state = "none" /\ disk[v].installed = FALSE
      BY Zenon, <3>1, <3>3
    <3> QED BY Zenon, <2>2, <3>1, <3>2, <3>4 DEF Allows, RecordShape
  <2> QED BY Zenon, <2>1, <2>2
<1> QED BY Zenon, <1>1, <1>2, <1>3, <1>4, <1>5, <1>6 DEF Kept, VMInv

\* Memory and disk agree on a VM with a process, and on one that is neither
\* being created nor deleted.
LEMMA OnDisk ==
  ASSUME NEW v \in VM, RecordLife(v), Loaded(v),
         proc[v] # NoRun \/ rec[v].state \notin {"creating", "deleting"}
  PROVE disk[v] = rec[v]
  BY Zenon DEF RecordLife, SavedOrGone, Loaded

SavesState(v, s) == Save(v, [rec[v] EXCEPT !.state = s])

\* Saving a record with another state changes that state and no other record.
LEMMA SaveMoves ==
  ASSUME TypeInv, NEW v \in VM, NEW s \in State, SavesState(v, s)
  PROVE /\ OneRecord(v) /\ disk'[v] = rec'[v]
        /\ rec'[v].state = s /\ rec'[v].installed = rec[v].installed
        /\ rec'[v].phase = rec[v].phase /\ rec'[v].handles = rec[v].handles
<1> DEFINE x == [rec[v] EXCEPT !.state = s]
<1>1. rec[v] \in Record /\ rec \in [VM -> Record] /\ disk \in [VM -> Record]
  BY Zenon DEF TypeInv, EntryType
<1>2. /\ x.state = s /\ x.installed = rec[v].installed
      /\ x.phase = rec[v].phase /\ x.handles = rec[v].handles
  BY Zenon, <1>1, SetState
<1>3. rec' = [rec EXCEPT ![v] = x] /\ disk' = [disk EXCEPT ![v] = x]
  BY Zenon DEF Save, SavesState
<1> HIDE DEF x
<1> QED BY Zenon, <1>1, <1>2, <1>3 DEF OneRecord

\* Saving a record as it is.
LEMMA SaveSame ==
  ASSUME TypeInv, NEW v \in VM, Save(v, rec[v])
  PROVE OneRecord(v) /\ disk'[v] = rec[v] /\ rec'[v] = rec[v]
  BY Zenon DEF Save, TypeInv, EntryType, OneRecord

\* A thread may go to l with the record of v in state s.
MaySave(t, l, v, s) ==
  /\ TakesState(t, l, v, s)
  /\ l \in {"idle", "select", "stopping", "teardown", "deleting"}
  /\ (t \in Run => pc[t] # "idle") /\ (t \in VM => l # "idle") /\ (t \in Call => ~Creating(t)')
  /\ l = "deleting" \/ (t \in VM /\ l = "stopping") => arg'[t] = proc[v] /\ proc[v] # NoRun
  /\ l = "teardown" => proc[v] = NoRun
  /\ l \in {"teardown", "deleting"} => s = "deleting"
  /\ disk[v] = rec[v] => Allows(rec[v], rec'[v])
  /\ rec[v].state = "creating" => s = "deleting" /\ disk[v] = rec[v]

\* A record takes a new state.
LEMMA StateKept ==
  ASSUME TypeInv, LockInv, ProcInv, NEW v \in VM, VMInv(v), Loaded(v),
         NEW t \in Thread, NEW l, Walks(t, l, v), LockMoves(t, v), SameRuns,
         NEW s \in {"attesting", "ready", "running", "stopping", "stopped", "failed", "deleting"},
         SavesState(v, s), MaySave(t, l, v, s)
  PROVE Kept(v)
<1>0. /\ OneRecord(v) /\ disk'[v] = rec'[v]
      /\ rec'[v].state = s /\ rec'[v].installed = rec[v].installed
      /\ rec'[v].phase = rec[v].phase
  BY Zenon, SaveMoves DEF State
<1>1. Only(v)
  BY Zenon, <1>0, OnlyMove
<1>2. ProcessLife(v)'
  <2>1. Loaded(v)' /\ proc'[v] = proc[v] /\ qemu' = qemu /\ done' = done
    BY Zenon DEF Loaded, SameRuns
  <2>2. proc[v] # NoRun => proc[v] \in Run /\ proc[v][1] = v
    BY Zenon DEF ProcInv, ProcessIsSupervised
  <2>3. LifeOn(t, l, v)
    BY Zenon, <1>0, <2>1, <2>2 DEF LifeOn, MaySave, TakesState
  <2> QED BY Zenon, <2>1, <2>3, LifeMove DEF VMInv
<1>3. RecordLife(v)'
  <2>1. proc'[v] = proc[v] /\ qemu' = qemu
    BY Zenon DEF SameRuns
  <2>2. TakesState(t, l, v, s) /\ l \notin {"start", "commit", "boot"} /\ (t \in Call => ~Creating(t)')
    BY Zenon DEF MaySave
  <2>3. BootsInstalled(v) /\ CreatesAlone(v)
    BY Zenon DEF VMInv, RecordLife
  <2>4. StateFollows(v)' /\ DeleteHolds(v)' /\ SavedOrGone(v)'
    BY Zenon, <1>0, <2>1, <2>2, StateMove
  <2>5. BootsInstalled(v)'
    BY Zenon, <1>0, <2>1, <2>2, <2>3, StateBoots
  <2>6. CreatesAlone(v)'
    BY Zenon, <1>0, <2>1, <2>2, <2>3, StateCreates
  <2> QED BY Zenon, <2>4, <2>5, <2>6 DEF RecordLife
<1>4. InstallerVouches(v)'
  <2>1. ClaimsInstalled(v)' => ClaimsInstalled(v)
    BY Zenon, <1>0 DEF ClaimsInstalled, SameRuns
  <2>2. qemu' = qemu /\ code' = code /\ phase' = phase
    BY Zenon DEF SameRuns
  <2> QED BY Zenon, <2>1, <2>2, VouchMove DEF VMInv
<1>5. StaysStopped(v)'
  <2>1. svc' = svc /\ present'[v] = present[v] /\ proc'[v] = proc[v]
    BY Zenon DEF SameRuns
  <2>2. StaysOn(t, l, v)
    BY Zenon, Kinds DEF StaysOn, MaySave
  <2> QED BY Zenon, <1>0, <2>1, <2>2, StaysMove DEF VMInv
<1>6. Allows(disk[v], disk'[v])
  <2>1. CASE disk[v] = rec[v]
    BY Zenon, <1>0, <2>1 DEF MaySave
  <2>2. CASE disk[v] # rec[v]
    <3>1. disk[v] = NoRecord /\ rec[v].state \in {"creating", "deleting"}
      BY Zenon, <2>2 DEF VMInv, RecordLife, SavedOrGone, Loaded
    <3>2. NoRecord.state = "none"
      BY Zenon DEF NoRecord
    <3>3. disk[v].state = "none"
      BY Zenon, <3>1, <3>2
    <3>4. s = "deleting"
      BY Zenon, <3>1, <2>2 DEF MaySave, TakesState
    <3> QED BY Zenon, <1>0, <3>3, <3>4 DEF Allows
  <2> QED BY Zenon, <2>1, <2>2
<1> QED BY Zenon, <1>1, <1>2, <1>3, <1>4, <1>5, <1>6 DEF Kept, VMInv


-----------------------------------------------------------------------------
(* The steps of one VM: calls.                                             *)

\* What a call under way may rely on.
LEMMA AtWork ==
  ASSUME LifeInv, NEW c \in Call, pc[c] # "idle"
  PROVE /\ TypeInv /\ LockInv /\ ProcInv
        /\ c \in Thread /\ c \notin VM /\ c \notin Run
        /\ tgt[c] \in VM /\ VMOf(c) = tgt[c] /\ VMInv(tgt[c]) /\ Loaded(tgt[c])
<1>1. TypeInv /\ LockInv /\ ProcInv /\ c \in Thread /\ c \notin VM /\ c \notin Run
  BY Zenon, Kinds DEF LifeInv
<1>2. tgt[c] \in VM /\ VMOf(c) = tgt[c]
  BY Zenon, <1>1 DEF LockInv, ThreadKinds, VMOf
<1>3. VMInv(tgt[c])
  BY Zenon, <1>2 DEF LifeInv
<1>4. Loaded(tgt[c])
  BY Zenon, <1>1, <1>2, <1>3, ThreadLoaded DEF VMInv, ProcessLife
<1> QED BY Zenon, <1>1, <1>2, <1>3, <1>4

\* A thread that stays with its operation walks in its VM.
LEMMA WalksOn ==
  ASSUME NEW t \in Thread, NEW l, Moves(t, l), Keeps(t)
  PROVE Walks(t, l, VMOf(t)) /\ op'[t] = op[t] /\ PhaseOf(t)' = PhaseOf(t)
  BY Zenon DEF Walks, Keeps, VMOf, PhaseOf

\* A thread that returns walks in its VM.
LEMMA WalksBack ==
  ASSUME TypeInv, NEW t \in Thread, Return(t)
  PROVE Walks(t, "idle", VMOf(t))
  BY Zenon, ReturnMoves DEF Walks

\* launch waits for opMu and looks at nothing.
LEMMA LaunchKept == ASSUME LifeInv, NEW c \in Call, Launch(c) PROVE \E v \in VM : Kept(v)
<1> SUFFICES ASSUME NEW v, v = tgt[c] PROVE \E w \in VM : Kept(w)
  BY Zenon
<1>0. pc[c] = "launch"
  BY Zenon DEF Launch
<1>1. /\ TypeInv /\ LockInv /\ c \in Thread /\ c \notin VM /\ c \notin Run
      /\ v \in VM /\ VMOf(c) = v /\ VMInv(v) /\ Loaded(v)
  BY Zenon, <1>0, AtWork
<1>2. Walks(c, "provision", v)
  BY Zenon, <1>1, GotoMoves, WalksOn DEF Launch
<1>3. LockMoves(c, v)
  BY <1>1, TakesLock, Zenon DEF Launch
<1>4. SameRuns /\ OneRecord(v) /\ rec' = rec /\ disk' = disk
  BY Zenon DEF Launch, SameRuns, OneRecord, svcVars, runVars
<1>5. Creating(c)
  BY Zenon, <1>0 DEF Creating, LockInv, ThreadKinds, LifeInv
<1>20. MayMove(c, "provision", v)
  BY Zenon, <1>0, <1>1, <1>2, <1>3, <1>4, <1>5 DEF BootsWell, CreatesOn, HandsOn, StaysOn, MayMove
<1> QED BY Zenon, <1>0, <1>1, <1>2, <1>3, <1>4, <1>5, <1>20, MoveKept

\* provision writes the record of the VM again, or fails.
LEMMA ProvisionKept == ASSUME LifeInv, NEW c \in Call, Provision(c) PROVE \E v \in VM : Kept(v)
<1> SUFFICES ASSUME NEW v, v = tgt[c] PROVE \E w \in VM : Kept(w)
  BY Zenon
<1>0. pc[c] = "provision"
  BY Zenon DEF Provision
<1>1. /\ TypeInv /\ LockInv /\ c \in Thread /\ c \notin VM /\ c \notin Run
      /\ v \in VM /\ VMOf(c) = v /\ VMInv(v) /\ Loaded(v)
  BY Zenon, <1>0, AtWork
<1>2. Creating(c) /\ op[c] = "Create"
  BY Zenon, <1>0 DEF Creating, LockInv, ThreadKinds, LifeInv
<1>3. SameRuns /\ LockMoves(c, v)
  BY Zenon DEF Provision, SameRuns, LockMoves, svcVars, runVars
<1>4. CASE Save(v, rec[v]) /\ Goto(c, "start")
  <2>1. Walks(c, "start", v) /\ PhaseOf(c)' = PhaseOf(c)
    BY Zenon, <1>1, <1>4, GotoMoves, WalksOn
  <2>2. OneRecord(v) /\ disk'[v] = rec[v] /\ rec'[v] = rec[v]
    BY Zenon, <1>1, <1>4, SaveSame
  <2>3. PhaseOf(c) = "install" /\ ~rec[v].installed
    BY Zenon, <1>1, <1>2 DEF PhaseOf, VMInv, RecordLife, CreatesAlone
  <2>20. MayMove(c, "start", v)
    BY Zenon, <1>0, <1>1, <1>2, <1>3, <2>1, <2>2, <2>3 DEF BootsWell, CreatesOn, HandsOn, StaysOn, MayMove
  <2> QED BY Zenon, <1>0, <1>1, <1>2, <1>3, <2>1, <2>2, <2>3, <2>20, MoveKept
<1>5. CASE Goto(c, "teardown") /\ UNCHANGED <<rec, disk>>
  <2>1. Walks(c, "teardown", v) /\ op'[c] = op[c]
    BY Zenon, <1>1, <1>5, GotoMoves, WalksOn
  <2>2. OneRecord(v)
    BY Zenon, <1>5 DEF OneRecord
  <2>3. proc[v] = NoRun
    BY Zenon, <1>0, <1>1, <1>2 DEF VMInv, RecordLife, CreatesAlone, LifeInv, ProcInv, ProcessIsSupervised, RunsOf
  <2>20. MayMove(c, "teardown", v)
    BY Zenon, <1>0, <1>1, <1>2, <1>3, <1>5, <2>1, <2>2, <2>3 DEF BootsWell, CreatesOn, HandsOn, StaysOn, MayMove
  <2> QED BY Zenon, <1>0, <1>1, <1>2, <1>3, <1>5, <2>1, <2>2, <2>3, <2>20, MoveKept
<1> QED BY Zenon, <1>4, <1>5 DEF Provision

\* Looking up a present entry makes a request of that VM.
LEMMA BeginKept ==
  ASSUME LifeInv, NEW c \in Call, NEW v \in VM, NEW o \in Ops, Begin(c, v, o) PROVE Kept(v)
<1> DEFINE l == IF o = "Reboot" THEN "Stop" ELSE o
<1>1. pc[c] = "idle" /\ l \in {"Start", "Stop", "Delete"} /\ present[v]
  BY Zenon DEF Begin
<1>2. TypeInv /\ LockInv /\ VMInv(v) /\ c \in Thread /\ c \notin VM /\ c \notin Run
  BY Zenon, Kinds DEF LifeInv
<1>3. Loaded(v)
  BY Zenon, <1>1, <1>2 DEF VMInv, ProcessLife, NotLoaded, Loaded
<1>4. Moves(c, l) /\ tgt'[c] = v
  BY Zenon, <1>2, EnterMoves DEF Begin
<1>5. Walks(c, l, v)
  BY Zenon, <1>1, <1>2, <1>4 DEF Walks, VMOf
<1>6. SameRuns /\ OneRecord(v) /\ LockMoves(c, v) /\ rec' = rec /\ disk' = disk
  BY Zenon DEF Begin, SameRuns, OneRecord, LockMoves, svcVars, entryVars, runVars
<1>7. ~Creating(c)'
  BY Zenon, <1>1, <1>4 DEF Creating, Moves
<1> HIDE DEF l
<1>20. MayMove(c, l, v)
  BY Zenon, <1>1, <1>2, <1>3, <1>5, <1>6, <1>7 DEF BootsWell, CreatesOn, HandsOn, StaysOn, MayMove
<1> QED BY Zenon, <1>1, <1>2, <1>3, <1>5, <1>6, <1>7, <1>20, MoveKept

\* Start goes on only with an installed VM that has no process, and not while
\* Close is under way.
LEMMA StartKept == ASSUME LifeInv, NEW c \in Call, Start(c) PROVE \E v \in VM : Kept(v)
<1> SUFFICES ASSUME NEW v, v = tgt[c] PROVE \E w \in VM : Kept(w)
  BY Zenon
<1>0. pc[c] = "Start"
  BY Zenon DEF Start
<1>1. /\ TypeInv /\ LockInv /\ c \in Thread /\ c \notin VM /\ c \notin Run
      /\ v \in VM /\ VMOf(c) = v /\ VMInv(v) /\ Loaded(v)
  BY Zenon, <1>0, AtWork
<1>2. SameRuns /\ OneRecord(v) /\ rec' = rec /\ disk' = disk
  BY Zenon DEF Start, SameRuns, OneRecord, svcVars, runVars
<1>3. CASE Return(c) /\ UNCHANGED opMu
  <2>1. Walks(c, "idle", v) /\ LockMoves(c, v)
    BY Zenon, <1>1, <1>3, WalksBack DEF LockMoves
  <2>2. ~Creating(c)'
    BY Zenon, <2>1 DEF Creating, Walks, Moves
  <2>20. MayMove(c, "idle", v)
    BY Zenon, <1>0, <1>1, <1>2, <2>1, <2>2 DEF BootsWell, CreatesOn, HandsOn, StaysOn, MayMove
  <2> QED BY Zenon, <1>0, <1>1, <1>2, <2>1, <2>2, <2>20, MoveKept
<1>4. CASE /\ ~StartRefused(v)
           /\ opMu' = [opMu EXCEPT ![v] = c] /\ Goto(c, "start")
  <2>1. Walks(c, "start", v) /\ op'[c] = op[c]
    BY Zenon, <1>1, <1>4, GotoMoves, WalksOn
  <2>2. LockMoves(c, v)
    BY <1>1, <1>4, TakesLock, Zenon DEF Start
  <2>3. ~Creating(c)'
    BY Zenon, <1>0, <1>1, <2>1 DEF Creating, LockInv, ThreadKinds
  <2>4. ~closing /\ rec[v].installed /\ proc[v] = NoRun /\ rec[v].state # "deleting"
    BY Zenon, <1>4 DEF StartRefused
  <2>5. rec[v].state \in State /\ RecordShape(rec[v])
    BY Zenon, <1>1 DEF TypeInv, EntryType, Record, VMInv, RecordLife, StateFollows
  <2>6. rec[v].state \notin {"none", "creating"}
    BY <2>4, <2>5 DEF RecordShape, NoRecord
  <2>7. rec[v].state \in Live => rec[v].state = "installing"
    BY Zenon, <1>1, <2>4 DEF VMInv, RecordLife, StateFollows
  <2>8. rec[v].state \in {"installing", "stopped", "failed"}
    BY Zenon, <2>4, <2>5, <2>6, <2>7 DEF State, Live
  <2>20. MayMove(c, "start", v)
    BY Zenon, <1>0, <1>1, <1>2, <2>1, <2>2, <2>3, <2>4, <2>8 DEF BootsWell, CreatesOn, HandsOn, StaysOn, MayMove
  <2> QED BY Zenon, <1>0, <1>1, <1>2, <2>1, <2>2, <2>3, <2>4, <2>8, <2>20, MoveKept
<1> QED BY Zenon, <1>3, <1>4 DEF Start


\* A start that fails is discarded by Create, and fails a VM that was to boot.
LEMMA StartFailsKept == ASSUME LifeInv, NEW t \in Thread, StartFails(t) PROVE \E v \in VM : Kept(v)
<1> SUFFICES ASSUME NEW v, v = VMOf(t) PROVE \E w \in VM : Kept(w)
  BY Zenon
<1>0. pc[t] = "start" /\ t \notin VM
  BY Zenon DEF StartFails, LifeInv, LockInv, ThreadKinds
<1>1. TypeInv /\ LockInv /\ ProcInv /\ v \in VM
  BY Zenon, <1>0, ActiveVM DEF LifeInv, TypeInv
<1>2. VMInv(v)
  BY Zenon, <1>1 DEF LifeInv
<1>3. Loaded(v) /\ proc[v] = NoRun /\ opMu[v] = t
  <2>1. Loaded(v)
    BY Zenon, <1>0, <1>1, <1>2, ThreadLoaded DEF VMInv, ProcessLife
  <2>2. proc[v] = NoRun
    BY Zenon, <1>0, <1>1 DEF ProcInv, StartsAlone
  <2>3. opMu[v] = t
    BY Zenon, <1>0, <1>1 DEF LockInv, LockDiscipline, HoldsOpMu
  <2> QED BY Zenon, <2>1, <2>2, <2>3
<1>4. SameRuns
  BY Zenon DEF StartFails, SameRuns, svcVars, runVars
<1>5. CASE PhaseOf(t) = "install"
  <2>1. t \in Call /\ op[t] = "Create" /\ t \notin Run
    BY Zenon, <1>5, Kinds DEF PhaseOf
  <2>2. Goto(t, "teardown") /\ UNCHANGED <<rec, disk, opMu>>
    BY Zenon, <1>5 DEF StartFails
  <2>3. Walks(t, "teardown", v) /\ op'[t] = op[t]
    BY Zenon, <1>1, <2>2, GotoMoves, WalksOn
  <2>4. OneRecord(v) /\ LockMoves(t, v) /\ rec' = rec /\ disk' = disk
    BY Zenon, <2>2 DEF OneRecord, LockMoves
  <2>5. Creating(t) /\ tgt[t] = v
    BY Zenon, <1>0, <2>1, Kinds DEF Creating, VMOf
  <2>20. MayMove(t, "teardown", v)
    BY Zenon, <1>0, <1>1, <1>2, <1>3, <1>4, <2>1, <2>3, <2>4, <2>5 DEF BootsWell, CreatesOn, HandsOn, StaysOn, MayMove
  <2>9. Kept(v)
    BY Zenon, <1>0, <1>1, <1>2, <1>3, <1>4, <2>1, <2>3, <2>4, <2>5, <2>20, MoveKept
  <2> QED BY Zenon, <1>1, <2>9
<1>6. CASE PhaseOf(t) # "install"
  <2>1. /\ SavesState(v, "failed")
        /\ opMu' = [opMu EXCEPT ![v] = Free] /\ Return(t)
    BY Zenon, <1>6 DEF StartFails, SavesState
  <2>2. Walks(t, "idle", v)
    BY Zenon, <1>1, <2>1, WalksBack
  <2>3. LockMoves(t, v)
    BY Zenon, <1>1, <1>3, <2>1, GivesLock
  <2>4. rec[v].installed /\ rec[v].state \in {"installing", "stopped", "failed"}
    BY Zenon, <1>0, <1>1, <1>2, <1>6 DEF VMInv, RecordLife, BootsInstalled, PhaseOf
  <2>5. rec'[v].state = "failed" /\ rec'[v].installed = rec[v].installed
    BY Zenon, <1>1, <2>1, SaveMoves DEF State
  <2>6. Allows(rec[v], rec'[v])
    BY Zenon, <2>4, <2>5 DEF Allows
  <2>7. ~Creating(t)'
    BY Zenon, <2>2 DEF Creating, Walks, Moves
  <2>20. MaySave(t, "idle", v, "failed")
    BY Zenon, <1>0, <1>1, <1>2, <1>3, <1>4, <2>1, <2>2, <2>3, <2>4, <2>6, <2>7 DEF MaySave, TakesState, Live
  <2>9. Kept(v)
    BY Zenon, <1>0, <1>1, <1>2, <1>3, <1>4, <2>1, <2>2, <2>3, <2>4, <2>6, <2>7, <2>20, StateKept
  <2> QED BY Zenon, <1>1, <2>9
<1> QED BY Zenon, <1>5, <1>6

\* Nobody but Delete works under opMu on an entry that is being deleted, and
\* Delete alone tells apart what it holds.
LEMMA NotDeleting ==
  ASSUME LifeInv, NEW v \in VM, present[v], opMu[v] \notin Call PROVE rec[v].state # "deleting"
  BY Zenon DEF LifeInv, VMInv, RecordLife, DeleteHolds

\* Stop is refused, or marks the record of a process stopping.
LEMMA StopKept == ASSUME LifeInv, NEW t \in Thread, Stop(t) PROVE \E v \in VM : Kept(v)
<1> SUFFICES ASSUME NEW v, v = VMOf(t) PROVE \E w \in VM : Kept(w)
  BY Zenon
<1>0. pc[t] = "Stop" /\ t \notin Run
  BY Zenon DEF Stop, LifeInv, LockInv, ThreadKinds
<1>1. TypeInv /\ LockInv /\ ProcInv /\ v \in VM
  BY Zenon, <1>0, ActiveVM DEF LifeInv, TypeInv
<1>2. VMInv(v)
  BY Zenon, <1>1 DEF LifeInv
<1>3. Loaded(v)
  BY Zenon, <1>0, <1>1, <1>2, ThreadLoaded DEF VMInv, ProcessLife
<1>4. t \in VM => t = v /\ opMu[v] = t /\ t \notin Call
  BY Zenon, <1>0, <1>1, Kinds DEF VMOf, LockInv, LockDiscipline, HoldsOpMu
<1>5. SameRuns
  BY Zenon DEF Stop, SameRuns, svcVars
<1>6. CASE StopRefused(v) \/ (t \in VM /\ ~present[v])
  <2>1. Return(t) /\ (opMu' = IF t \in VM THEN [opMu EXCEPT ![v] = Free] ELSE opMu) /\ rec' = rec /\ disk' = disk
    BY Zenon, <1>6 DEF Stop
  <2>2. Walks(t, "idle", v)
    BY Zenon, <1>1, <2>1, WalksBack
  <2>3. LockMoves(t, v)
    BY Zenon, <1>1, <1>4, <2>1, GivesLock DEF LockMoves
  <2>4. OneRecord(v)
    BY Zenon, <2>1 DEF OneRecord
  <2>5. ~Creating(t)'
    BY Zenon, <2>2 DEF Creating, Walks, Moves
  <2>6. t \in VM /\ present[v] => proc[v] = NoRun
    BY Zenon, <1>1, <1>4, <1>6, NotDeleting DEF StopRefused
  <2>20. MayMove(t, "idle", v)
    BY Zenon, <1>0, <1>1, <1>2, <1>3, <1>4, <1>5, <2>1, <2>2, <2>3, <2>4, <2>5, <2>6 DEF BootsWell, CreatesOn, HandsOn, StaysOn, MayMove
  <2>9. Kept(v)
    BY Zenon, <1>0, <1>1, <1>2, <1>3, <1>4, <1>5, <2>1, <2>2, <2>3, <2>4, <2>5, <2>6, <2>20, MoveKept
  <2> QED BY Zenon, <1>1, <2>9
<1>7. CASE ~(StopRefused(v) \/ (t \in VM /\ ~present[v]))
  <2>1. /\ SavesState(v, "stopping")
        /\ Hold(t, "stopping", proc[v]) /\ opMu' = opMu
    BY Zenon, <1>7 DEF Stop, SavesState
  <2>2. Walks(t, "stopping", v) /\ arg'[t] = proc[v]
    BY Zenon, <1>1, <2>1, HoldMoves, WalksOn
  <2>3. LockMoves(t, v)
    BY Zenon, <2>1 DEF LockMoves
  <2>4. proc[v] # NoRun /\ rec[v].state \in Live
    BY Zenon, <1>2, <1>7 DEF StopRefused, VMInv, RecordLife, StateFollows
  <2>5. rec'[v].state = "stopping" /\ rec'[v].installed = rec[v].installed
    BY Zenon, <1>1, <2>1, SaveMoves DEF State
  <2>6. Allows(rec[v], rec'[v])
    BY Zenon, <2>4, <2>5 DEF Allows
  <2>7. ~Creating(t)'
    BY Zenon, <2>2 DEF Creating, Walks, Moves
  <2>20. MaySave(t, "stopping", v, "stopping")
    BY Zenon, <1>0, <1>1, <1>2, <1>3, <1>5, <2>1, <2>2, <2>3, <2>4, <2>6, <2>7 DEF MaySave, TakesState, Live
  <2>9. Kept(v)
    BY Zenon, <1>0, <1>1, <1>2, <1>3, <1>5, <2>1, <2>2, <2>3, <2>4, <2>6, <2>7, <2>20, StateKept
  <2> QED BY Zenon, <1>1, <2>9
<1> QED BY Zenon, <1>6, <1>7


\* stopProcess has seen p.done closed: the process it waited for is nobody's.
LEMMA StopReturnsKept == ASSUME LifeInv, NEW t \in Thread, StopReturns(t) PROVE \E v \in VM : Kept(v)
<1> SUFFICES ASSUME NEW v, v = VMOf(t) PROVE \E w \in VM : Kept(w)
  BY Zenon
<1>0. pc[t] = "stopping" /\ t \notin Run /\ done[arg[t]]
  BY Zenon DEF StopReturns, LifeInv, LockInv, ThreadKinds
<1>1. TypeInv /\ LockInv /\ v \in VM
  BY Zenon, <1>0, ActiveVM DEF LifeInv, TypeInv
<1>2. VMInv(v)
  BY Zenon, <1>1 DEF LifeInv
<1>3. Loaded(v)
  BY Zenon, <1>0, <1>1, <1>2, ThreadLoaded DEF VMInv, ProcessLife
<1>4. t \in VM => t = v /\ opMu[v] = t /\ proc[v] = NoRun
  <2>1. t \in VM => t = v /\ opMu[v] = t
    BY Zenon, <1>0, <1>1, Kinds DEF VMOf, LockInv, LockDiscipline, HoldsOpMu
  <2>2. t \in VM => arg[t] \in RunsOf(v) /\ proc[v] \in {NoRun, arg[t]}
    BY Zenon, <1>0, <1>2 DEF VMInv, ProcessLife, WaitsForOwn
  <2> QED BY Zenon, <1>0, <1>2, <2>1, <2>2 DEF VMInv, ProcessLife, DoneIsFinal
<1>5. SameRuns /\ OneRecord(v) /\ rec' = rec /\ disk' = disk
  BY Zenon DEF StopReturns, SameRuns, OneRecord, svcVars, runVars
<1>6. LockMoves(t, v)
  <2>1. opMu' = IF t \in VM THEN [opMu EXCEPT ![v] = Free] ELSE opMu
    BY Zenon DEF StopReturns
  <2> QED BY Zenon, <1>1, <1>4, <2>1, GivesLock DEF LockMoves
<1>7. CASE t \in Call /\ Goto(t, "Start")
  <2>1. Walks(t, "Start", v) /\ t \notin VM
    BY Zenon, <1>1, <1>7, GotoMoves, WalksOn, Kinds
  <2>2. ~Creating(t)'
    BY Zenon, <2>1 DEF Creating, Walks, Moves
  <2>20. MayMove(t, "Start", v)
    BY Zenon, <1>0, <1>1, <1>2, <1>3, <1>5, <1>6, <2>1, <2>2 DEF BootsWell, CreatesOn, HandsOn, StaysOn, MayMove
  <2>9. Kept(v)
    BY Zenon, <1>0, <1>1, <1>2, <1>3, <1>5, <1>6, <2>1, <2>2, <2>20, MoveKept
  <2> QED BY Zenon, <1>1, <2>9
<1>8. CASE Return(t)
  <2>1. Walks(t, "idle", v)
    BY Zenon, <1>1, <1>8, WalksBack
  <2>2. ~Creating(t)'
    BY Zenon, <2>1 DEF Creating, Walks, Moves
  <2>20. MayMove(t, "idle", v)
    BY Zenon, <1>0, <1>1, <1>2, <1>3, <1>4, <1>5, <1>6, <2>1, <2>2 DEF BootsWell, CreatesOn, HandsOn, StaysOn, MayMove
  <2>9. Kept(v)
    BY Zenon, <1>0, <1>1, <1>2, <1>3, <1>4, <1>5, <1>6, <2>1, <2>2, <2>20, MoveKept
  <2> QED BY Zenon, <1>1, <2>9
<1> QED BY Zenon, <1>7, <1>8 DEF StopReturns

\* Delete is refused, or marks the record deleting and holds opMu.
LEMMA DeleteKept == ASSUME LifeInv, NEW c \in Call, Delete(c) PROVE \E v \in VM : Kept(v)
<1> SUFFICES ASSUME NEW v, v = tgt[c] PROVE \E w \in VM : Kept(w)
  BY Zenon
<1>0. pc[c] = "Delete" /\ opMu[v] = Free
  BY Zenon DEF Delete
<1>1. /\ TypeInv /\ LockInv /\ ProcInv /\ c \in Thread /\ c \notin VM /\ c \notin Run
      /\ v \in VM /\ VMOf(c) = v /\ VMInv(v) /\ Loaded(v)
  BY Zenon, <1>0, AtWork
<1>2. SameRuns
  BY Zenon DEF Delete, SameRuns, svcVars
<1>3. CASE ~present[v] \/ rec[v].state = "deleting"
  <2>1. Return(c) /\ rec' = rec /\ disk' = disk /\ opMu' = opMu
    BY Zenon, <1>3 DEF Delete
  <2>2. Walks(c, "idle", v) /\ LockMoves(c, v) /\ OneRecord(v)
    BY Zenon, <1>1, <2>1, WalksBack DEF LockMoves, OneRecord
  <2>3. ~Creating(c)'
    BY Zenon, <2>2 DEF Creating, Walks, Moves
  <2>20. MayMove(c, "idle", v)
    BY Zenon, <1>0, <1>1, <1>2, <2>1, <2>2, <2>3 DEF BootsWell, CreatesOn, HandsOn, StaysOn, MayMove
  <2>9. Kept(v)
    BY Zenon, <1>0, <1>1, <1>2, <2>1, <2>2, <2>3, <2>20, MoveKept
  <2> QED BY Zenon, <1>1, <2>9
<1>4. CASE ~(~present[v] \/ rec[v].state = "deleting")
  <2> DEFINE l == IF proc[v] = NoRun THEN "teardown" ELSE "deleting"
  <2>1. /\ opMu' = [opMu EXCEPT ![v] = c]
        /\ SavesState(v, "deleting")
        /\ Hold(c, l, proc[v])
    BY Zenon, <1>4 DEF Delete, SavesState
  <2>2. Walks(c, l, v) /\ arg'[c] = proc[v] /\ op'[c] = op[c] /\ tgt'[c] = v
    BY <1>1, <2>1, HoldMoves, WalksOn DEF Keeps
  <2>3. LockMoves(c, v) /\ opMu'[v] = c
    BY Zenon, <1>0, <1>1, <2>1, TakesLock
  <2>4. ~Creating(c)'
    BY Zenon, <1>0, <1>1, <2>2 DEF Creating, LockInv, ThreadKinds
  <2>5. rec'[v].state = "deleting" /\ rec'[v].installed = rec[v].installed
    BY Zenon, <1>1, <2>1, SaveMoves DEF State
  <2>6. Allows(rec[v], rec'[v])
    BY Zenon, <1>1, <1>4, <2>5 DEF Allows, VMInv, RecordLife, StateFollows
  <2>7. rec[v].state = "creating" => disk[v] = rec[v]
    <3>1. \A d \in Call : pc[d] = "forget" => tgt[d] # v
      BY Zenon, <1>0, <1>1, Kinds DEF LockInv, LockDiscipline, HoldsOpMu, VMOf
    <3> QED BY Zenon, <1>1, <1>4, <3>1 DEF VMInv, RecordLife, SavedOrGone, Loaded
  <2>8. l \in {"teardown", "deleting"} /\ (l = "teardown" <=> proc[v] = NoRun)
    BY Zenon
  <2> HIDE DEF l
  <2>20. MaySave(c, l, v, "deleting")
    BY Zenon, <1>0, <1>1, <1>2, <2>1, <2>2, <2>3, <2>4, <2>6, <2>7, <2>8 DEF MaySave, TakesState, Live
  <2>9. Kept(v)
    BY Zenon, <1>0, <1>1, <1>2, <2>1, <2>2, <2>3, <2>4, <2>6, <2>7, <2>8, <2>20, StateKept
  <2> QED BY Zenon, <1>1, <2>9
<1> QED BY Zenon, <1>3, <1>4

\* Delete has seen p.done closed: nobody has the process any more.
LEMMA DeleteWaitsKept == ASSUME LifeInv, NEW c \in Call, DeleteWaits(c) PROVE \E v \in VM : Kept(v)
<1> SUFFICES ASSUME NEW v, v = tgt[c] PROVE \E w \in VM : Kept(w)
  BY Zenon
<1>0. pc[c] = "deleting" /\ done[arg[c]]
  BY Zenon DEF DeleteWaits
<1>1. /\ TypeInv /\ LockInv /\ c \in Thread /\ c \notin VM /\ c \notin Run
      /\ v \in VM /\ VMOf(c) = v /\ VMInv(v) /\ Loaded(v)
  BY Zenon, <1>0, AtWork
<1>2. Walks(c, "teardown", v) /\ op'[c] = op[c] /\ tgt'[c] = tgt[c]
  BY Zenon, <1>1, GotoMoves, WalksOn DEF DeleteWaits, Keeps
<1>3. /\ SameRuns /\ OneRecord(v) /\ LockMoves(c, v)
      /\ rec' = rec /\ disk' = disk /\ opMu' = opMu
  BY Zenon DEF DeleteWaits, SameRuns, OneRecord, LockMoves, svcVars, entryVars, runVars
<1>4. op[c] # "Create"
  BY Zenon, <1>0, <1>1 DEF LockInv, ThreadKinds
<1>5. proc[v] = NoRun
  <2>1. arg[c] \in RunsOf(v) /\ proc[v] \in {NoRun, arg[c]}
    BY Zenon, <1>0, <1>1 DEF VMInv, ProcessLife, WaitsForOwn
  <2> QED BY Zenon, <1>0, <1>1, <2>1 DEF VMInv, ProcessLife, DoneIsFinal
<1>6. rec[v].state = "deleting" /\ ~Creating(c)'
  BY Zenon, <1>0, <1>1, <1>2, <1>4 DEF VMInv, ProcessLife, TeardownIsQuiet, Creating
<1>20. MayMove(c, "teardown", v)
  BY Zenon, <1>0, <1>1, <1>2, <1>3, <1>4, <1>5, <1>6 DEF BootsWell, CreatesOn, HandsOn, StaysOn, MayMove
<1>7. Kept(v)
  BY Zenon, <1>0, <1>1, <1>2, <1>3, <1>4, <1>5, <1>6, <1>20, MoveKept
<1> QED BY Zenon, <1>1, <1>7


\* LookupByIP answers for a VM whose QEMU runs.
LEMMA GuestRequestKept ==
  ASSUME LifeInv, NEW c \in Call, NEW v \in VM, GuestRequest(c, v) PROVE Kept(v)
<1>1. pc[c] = "idle" /\ present[v] /\ \E r \in Run : r[1] = v /\ qemu[r] # "unused"
  BY Zenon DEF GuestRequest, Running, RunsOf
<1>2. TypeInv /\ LockInv /\ VMInv(v) /\ c \in Thread /\ c \notin VM /\ c \notin Run
  BY Zenon, Kinds DEF LifeInv
<1>3. Loaded(v)
  BY Zenon, <1>1, <1>2 DEF VMInv, ProcessLife, NotLoaded, Loaded
<1>4. Moves(c, "guest") /\ tgt'[c] = v
  BY Zenon, <1>2, EnterMoves DEF GuestRequest
<1>5. Walks(c, "guest", v)
  BY Zenon, <1>1, <1>2, <1>4 DEF Walks, VMOf
<1>6. SameRuns /\ OneRecord(v) /\ LockMoves(c, v) /\ rec' = rec /\ disk' = disk
  BY Zenon DEF GuestRequest, SameRuns, OneRecord, LockMoves, svcVars, entryVars, runVars
<1>7. ~Creating(c)'
  BY Zenon, <1>4 DEF Creating, Moves
<1>20. MayMove(c, "guest", v)
  BY Zenon, <1>1, <1>2, <1>3, <1>5, <1>6, <1>7 DEF BootsWell, CreatesOn, HandsOn, StaysOn, MayMove
<1> QED BY Zenon, <1>1, <1>2, <1>3, <1>5, <1>6, <1>7, <1>20, MoveKept

\* onNonce and recordQuote save the record; a booting VM starts to attest.
LEMMA onNonceKept == ASSUME LifeInv, NEW c \in Call, onNonce(c) PROVE \E v \in VM : Kept(v)
<1> SUFFICES ASSUME NEW v, v = tgt[c] PROVE \E w \in VM : Kept(w)
  BY Zenon
<1>0. pc[c] = "guest"
  BY Zenon DEF onNonce
<1>1. /\ TypeInv /\ LockInv /\ ProcInv /\ c \in Thread /\ c \notin VM /\ c \notin Run
      /\ v \in VM /\ VMOf(c) = v /\ VMInv(v) /\ Loaded(v)
  BY Zenon, <1>0, AtWork
<1>2. SameRuns /\ LockMoves(c, v)
  BY Zenon DEF onNonce, SameRuns, LockMoves, svcVars, runVars
<1>3. Walks(c, "idle", v)
  BY Zenon, <1>1, WalksBack DEF onNonce
<1>4. ~Creating(c)'
  BY Zenon, <1>3 DEF Creating, Walks, Moves
<1>5. CASE /\ rec[v].state = "booting"
           /\ SavesState(v, "attesting")
  <2>1. proc[v] # NoRun
    BY Zenon, <1>1, <1>5 DEF VMInv, RecordLife, StateFollows, Live
  <2>2. rec'[v].state = "attesting" /\ rec'[v].installed = rec[v].installed
    BY Zenon, <1>1, <1>5, SaveMoves DEF State
  <2>3. Allows(rec[v], rec'[v])
    BY Zenon, <1>5, <2>2 DEF Allows
  <2>4. rec[v].state \notin {"creating", "deleting"} /\ "attesting" \in Live
    BY Zenon, <1>5 DEF Live
  <2>5. SavesState(v, "attesting")
    BY Zenon, <1>5
  <2>20. MaySave(c, "idle", v, "attesting")
    BY Zenon, <1>0, <1>1, <1>2, <1>3, <1>4, <2>1, <2>3, <2>4, <2>5 DEF MaySave, TakesState
  <2>9. Kept(v)
    BY Zenon, <1>0, <1>1, <1>2, <1>3, <1>4, <2>1, <2>3, <2>4, <2>5, <2>20, StateKept
  <2> QED BY Zenon, <1>1, <2>9
<1>6. CASE Save(v, rec[v]) \/ UNCHANGED <<rec, disk>>
  <2>1. OneRecord(v) /\ disk'[v] \in {disk[v], rec[v]} /\ rec'[v] = rec[v]
    <3>1. CASE Save(v, rec[v])
      BY Zenon, <1>1, <3>1, SaveSame
    <3>2. CASE UNCHANGED <<rec, disk>>
      BY Zenon, <3>2 DEF OneRecord
    <3> QED BY Zenon, <1>6, <3>1, <3>2
  <2>20. MayMove(c, "idle", v)
    BY Zenon, <1>0, <1>1, <1>2, <1>3, <1>4, <2>1 DEF BootsWell, CreatesOn, HandsOn, StaysOn, MayMove
  <2>9. Kept(v)
    BY Zenon, <1>0, <1>1, <1>2, <1>3, <1>4, <2>1, <2>20, MoveKept
  <2> QED BY Zenon, <1>1, <2>9
<1> QED BY Zenon, <1>5, <1>6 DEF onNonce, SavesState

-----------------------------------------------------------------------------
(* The steps of one VM: supervisors and visits.                            *)

\* What a supervisor under way may rely on.
LEMMA OnWatch ==
  ASSUME LifeInv, NEW r \in Run, pc[r] # "idle"
  PROVE /\ TypeInv /\ LockInv /\ ProcInv
        /\ r \in Thread /\ r \notin VM /\ r \notin Call
        /\ r[1] \in VM /\ VMOf(r) = r[1] /\ VMInv(r[1]) /\ Loaded(r[1])
        /\ pc[r] = "select" => proc[r[1]] = r /\ proc[r[1]] # NoRun
<1>1. TypeInv /\ LockInv /\ ProcInv /\ r \in Thread /\ r \notin VM /\ r \notin Call /\ r[1] \in VM
  BY Zenon, Kinds DEF LifeInv
<1>2. VMOf(r) = r[1] /\ VMInv(r[1])
  BY Zenon, <1>1 DEF LifeInv, VMOf
<1>3. Loaded(r[1])
  BY Zenon, <1>1, <1>2, ThreadLoaded DEF VMInv, ProcessLife
<1>4. pc[r] = "select" => proc[r[1]] = r /\ proc[r[1]] # NoRun
  <2>1. r # NoRun
    BY Zenon, Kinds
  <2>2. pc[r] = "select" => proc[r[1]] = r
    BY Zenon, <1>1 DEF ProcInv, ProcessIsSupervised
  <2> QED BY Zenon, <2>1, <2>2
<1> QED BY Zenon, <1>1, <1>2, <1>3, <1>4

\* A supervisor that returns because Close has cancelled leaves the record.
LEMMA SupervisorLeavesKept == ASSUME LifeInv, NEW r \in Run, SupervisorLeaves(r) PROVE Kept(r[1])
<1>0. pc[r] = "select"
  BY Zenon DEF SupervisorLeaves
<1>1. /\ TypeInv /\ LockInv /\ r \in Thread /\ r \notin VM /\ r \notin Call
      /\ r[1] \in VM /\ VMOf(r) = r[1] /\ VMInv(r[1]) /\ Loaded(r[1])
  BY Zenon, <1>0, OnWatch
<1>2. Walks(r, "idle", r[1])
  BY Zenon, <1>1, WalksBack DEF SupervisorLeaves
<1>3. SameRuns /\ OneRecord(r[1]) /\ LockMoves(r, r[1]) /\ rec' = rec /\ disk' = disk
  BY Zenon DEF SupervisorLeaves, SameRuns, OneRecord, LockMoves, svcVars, entryVars, runVars
<1>20. MayMove(r, "idle", r[1])
  BY Zenon, <1>0, <1>1, <1>2, <1>3 DEF BootsWell, CreatesOn, HandsOn, StaysOn, MayMove
<1> QED BY Zenon, <1>0, <1>1, <1>2, <1>3, <1>20, MoveKept

\* A supervisor that goes round its loop saves the record of its process as it
\* is, or with another state of a live VM.
LEMMA RoundKept ==
  ASSUME LifeInv, NEW r \in Run, pc[r] = "select", UNCHANGED threadVars, opMu' = opMu, SameRuns,
         \/ UNCHANGED <<rec, disk>>
         \/ Save(r[1], rec[r[1]])
         \/ \E s \in {"ready", "running"} :
              /\ rec[r[1]].state \in {"booting", "attesting"} \/ (s = "ready" /\ rec[r[1]].state = "running")
              /\ SavesState(r[1], s)
  PROVE Kept(r[1])
<1> DEFINE v == r[1]
<1>1. /\ TypeInv /\ LockInv /\ ProcInv /\ r \in Thread /\ r \notin VM /\ r \notin Call
      /\ v \in VM /\ VMOf(r) = v /\ VMInv(v) /\ Loaded(v) /\ proc[v] # NoRun
  BY Zenon, OnWatch
<1>2. Walks(r, "select", v) /\ LockMoves(r, v)
  BY Zenon, <1>1 DEF Walks, Moves, LockMoves, threadVars, VMOf
<1>3. CASE UNCHANGED <<rec, disk>> \/ Save(v, rec[v])
  <2>1. OneRecord(v) /\ disk'[v] \in {disk[v], rec[v]} /\ rec'[v] = rec[v]
    <3>1. CASE Save(v, rec[v])
      BY Zenon, <1>1, <3>1, SaveSame
    <3>2. CASE UNCHANGED <<rec, disk>>
      BY Zenon, <3>2 DEF OneRecord
    <3> QED BY Zenon, <1>3, <3>1, <3>2
  <2> HIDE DEF v
  <2>20. MayMove(r, "select", v)
    BY Zenon, <1>1, <1>2, <2>1 DEF BootsWell, CreatesOn, HandsOn, StaysOn, MayMove
  <2>9. Kept(v)
    BY Zenon, <1>1, <1>2, <2>1, <2>20, MoveKept
  <2> QED BY Zenon, <2>9 DEF v
<1>4. ASSUME NEW s \in {"ready", "running"},
             rec[v].state \in {"booting", "attesting"} \/ (s = "ready" /\ rec[v].state = "running"),
             SavesState(v, s)
      PROVE Kept(v)
  <2>2. rec'[v].state = s /\ rec'[v].installed = rec[v].installed
    <3>1. s \in State
      BY Zenon, <1>4 DEF State
    <3> HIDE DEF v
    <3> QED BY Zenon, <1>1, <1>4, <3>1, SaveMoves
  <2>3. Allows(rec[v], rec'[v])
    BY Zenon, <1>4, <2>2 DEF Allows
  <2> HIDE DEF v
  <2>20. MaySave(r, "select", v, s)
    BY Zenon, <1>1, <1>2, <1>4, <2>3 DEF MaySave, TakesState, Live
  <2> QED BY Zenon, <1>1, <1>2, <1>4, <2>3, <2>20, StateKept
<1> QED BY Zenon, <1>3, <1>4

\* A notification of the guest is saved, and READY=1 ends the start.
LEMMA onNotifyKept == ASSUME LifeInv, NEW r \in Run, onNotify(r) PROVE Kept(r[1])
<1>1. pc[r] = "select" /\ UNCHANGED threadVars /\ opMu' = opMu /\ SameRuns
  BY Zenon DEF onNotify, SameRuns, svcVars, runVars
<1>2. \/ Save(r[1], rec[r[1]])
      \/ /\ rec[r[1]].state \in {"booting", "attesting", "running"}
         /\ SavesState(r[1], "ready")
  BY Zenon DEF onNotify, ReadyFrom, SavesState
<1> QED BY Zenon, <1>1, <1>2, RoundKept

\* The timer settles a boot that nobody reported ready.
LEMMA onTimeoutKept == ASSUME LifeInv, NEW r \in Run, onTimeout(r) PROVE Kept(r[1])
<1>1. pc[r] = "select" /\ UNCHANGED threadVars /\ opMu' = opMu /\ SameRuns
  BY Zenon DEF onTimeout, SameRuns, svcVars
<1>2. \/ UNCHANGED <<rec, disk>>
      \/ /\ rec[r[1]].state \in {"booting", "attesting"}
         /\ SavesState(r[1], "running")
  BY Zenon DEF onTimeout, SavesState
<1> QED BY Zenon, <1>1, <1>2, RoundKept


\* boot goes on with a disk its installer finished, unless Delete, a process
\* or Close got in first.
LEMMA BootKept == ASSUME LifeInv, NEW r \in Run, Boot(r) PROVE Kept(r[1])
<1> DEFINE v == r[1]
<1>0. pc[r] = "boot" /\ opMu[v] = Free
  BY Zenon DEF Boot
<1>1. /\ TypeInv /\ LockInv /\ ProcInv /\ r \in Thread /\ r \notin VM /\ r \notin Call
      /\ v \in VM /\ VMOf(r) = v /\ VMInv(v) /\ Loaded(v)
  BY Zenon, <1>0, OnWatch
<1>2. SameRuns
  BY Zenon DEF Boot, SameRuns, svcVars, runVars
<1>3. rec[v].installed
  BY Zenon, <1>0, <1>1 DEF VMInv, RecordLife, BootsInstalled, RunsOf
<1>4. CASE HandoffDue(v) /\ ~closing
  <2>1. opMu' = [opMu EXCEPT ![v] = r] /\ Goto(r, "start") /\ rec' = rec /\ disk' = disk
    BY Zenon, <1>4 DEF Boot
  <2>2. Walks(r, "start", v)
    BY Zenon, <1>1, <2>1, GotoMoves, WalksOn
  <2>4. LockMoves(r, v)
    BY Zenon, <1>0, <1>1, <2>1, TakesLock
  <2>3. OneRecord(v) /\ rec[v].state = "installing"
    BY Zenon, <1>4, <2>1 DEF OneRecord, HandoffDue
  <2> HIDE DEF v
  <2>20. MayMove(r, "start", v)
    BY Zenon, <1>0, <1>1, <1>2, <1>3, <1>4, <2>1, <2>2, <2>3, <2>4 DEF BootsWell, CreatesOn, HandsOn, StaysOn, MayMove
  <2>9. Kept(v)
    BY Zenon, <1>0, <1>1, <1>2, <1>3, <1>4, <2>1, <2>2, <2>3, <2>4, <2>20, MoveKept
  <2> QED BY Zenon, <2>9 DEF v
<1>5. CASE HandoffDue(v) /\ closing
  <2>1. SavesState(v, "stopped") /\ Return(r) /\ opMu' = opMu
    BY Zenon, <1>5 DEF Boot, HandoffAbandoned, SavesState
  <2>2. Walks(r, "idle", v) /\ LockMoves(r, v)
    BY Zenon, <1>1, <2>1, WalksBack DEF LockMoves
  <2>3. rec[v].state = "installing" /\ proc[v] = NoRun
    BY Zenon, <1>5 DEF HandoffDue
  <2>4. rec'[v].state = "stopped" /\ rec'[v].installed = rec[v].installed
    BY Zenon, <1>1, <2>1, SaveMoves DEF State
  <2>5. Allows(rec[v], rec'[v])
    BY Zenon, <2>3, <2>4 DEF Allows, Live
  <2> HIDE DEF v
  <2>20. MaySave(r, "idle", v, "stopped")
    BY Zenon, <1>0, <1>1, <1>2, <2>1, <2>2, <2>3, <2>5 DEF MaySave, TakesState, Live
  <2>9. Kept(v)
    BY Zenon, <1>0, <1>1, <1>2, <2>1, <2>2, <2>3, <2>5, <2>20, StateKept
  <2> QED BY Zenon, <2>9 DEF v
<1>6. CASE ~HandoffDue(v)
  <2>1. Return(r) /\ opMu' = opMu /\ rec' = rec /\ disk' = disk
    BY Zenon, <1>6 DEF Boot
  <2>2. Walks(r, "idle", v) /\ LockMoves(r, v) /\ OneRecord(v)
    BY Zenon, <1>1, <2>1, WalksBack DEF LockMoves, OneRecord
  <2>3. ~(rec[v].state = "installing" /\ rec[v].installed)
    BY Zenon, <1>1, <1>6 DEF HandoffDue, VMInv, RecordLife, StateFollows
  <2> HIDE DEF v
  <2>20. MayMove(r, "idle", v)
    BY Zenon, <1>0, <1>1, <1>2, <2>1, <2>2, <2>3 DEF BootsWell, CreatesOn, HandsOn, StaysOn, MayMove
  <2>9. Kept(v)
    BY Zenon, <1>0, <1>1, <1>2, <2>1, <2>2, <2>3, <2>20, MoveKept
  <2> QED BY Zenon, <2>9 DEF v
<1> QED BY Zenon, <1>4, <1>5, <1>6

\* A visit of Close waits for opMu, and keeps it when it is to stop the VM.
LEMMA VisitKept == ASSUME LifeInv, NEW v \in VM, Visit(v) PROVE Kept(v)
<1>0. pc[v] = "visit" /\ opMu[v] = Free
  BY Zenon DEF Visit
<1>1. TypeInv /\ LockInv /\ v \in Thread /\ v \notin Run /\ v \notin Call /\ VMOf(v) = v /\ VMInv(v)
  BY Zenon, Kinds DEF LifeInv, VMOf
<1>2. Loaded(v)
  BY Zenon, <1>0, <1>1, ThreadLoaded DEF VMInv, ProcessLife
<1>3. SameRuns /\ OneRecord(v) /\ rec' = rec /\ disk' = disk
  BY Zenon DEF Visit, SameRuns, OneRecord, svcVars, runVars
<1>4. CASE DetachOnClose
  <2>1. Return(v) /\ opMu' = opMu
    BY Zenon, <1>4 DEF Visit
  <2>2. Walks(v, "idle", v) /\ LockMoves(v, v)
    BY Zenon, <1>1, <2>1, WalksBack DEF LockMoves
  <2>20. MayMove(v, "idle", v)
    BY Zenon, <1>0, <1>1, <1>2, <1>3, <1>4, <2>2 DEF BootsWell, CreatesOn, HandsOn, StaysOn, MayMove
  <2> QED BY Zenon, <1>0, <1>1, <1>2, <1>3, <1>4, <2>2, <2>20, MoveKept
<1>5. CASE ~DetachOnClose
  <2>1. Goto(v, "Stop") /\ opMu' = [opMu EXCEPT ![v] = v]
    BY Zenon, <1>5 DEF Visit
  <2>2. Walks(v, "Stop", v)
    BY Zenon, <1>1, <2>1, GotoMoves, WalksOn
  <2>3. LockMoves(v, v)
    BY Zenon, <1>0, <1>1, <2>1, TakesLock
  <2>20. MayMove(v, "Stop", v)
    BY Zenon, <1>0, <1>1, <1>2, <1>3, <2>2, <2>3 DEF BootsWell, CreatesOn, HandsOn, StaysOn, MayMove
  <2> QED BY Zenon, <1>0, <1>1, <1>2, <1>3, <2>2, <2>3, <2>20, MoveKept
<1> QED BY Zenon, <1>4, <1>5


-----------------------------------------------------------------------------
(* The steps of one VM that make, take over or drop an entry or a process. *)

\* A walk of a thread of v leaves the threads of other VMs alone.
LEMMA WalksAlone ==
  ASSUME NEW v \in VM, NEW t \in Thread, NEW l, Walks(t, l, v)
  PROVE \A u \in Thread :
          \/ pc'[u] = pc[u] /\ op'[u] = op[u] /\ tgt'[u] = tgt[u] /\ arg'[u] = arg[u]
          \/ (pc[u] = "idle" \/ VMOf(u) = v) /\ (pc'[u] = "idle" \/ VMOf(u)' = v)
  BY Zenon DEF Walks, Moves

\* teardown removes vm.json: nothing of the VM runs, and the record in memory
\* says creating or deleting.
LEMMA TeardownKept == ASSUME LifeInv, NEW c \in Call, Teardown(c) PROVE \E v \in VM : Kept(v)
<1> SUFFICES ASSUME NEW v, v = tgt[c] PROVE \E w \in VM : Kept(w)
  BY Zenon
<1>0. pc[c] = "teardown"
  BY Zenon DEF Teardown
<1>1. /\ TypeInv /\ LockInv /\ ProcInv /\ c \in Thread /\ c \notin VM /\ c \notin Run
      /\ v \in VM /\ VMOf(c) = v /\ VMInv(v) /\ Loaded(v)
  BY Zenon, <1>0, AtWork
<1>2. Walks(c, "forget", v) /\ op'[c] = op[c] /\ tgt'[c] = v
  BY Zenon, <1>1, GotoMoves, WalksOn DEF Teardown, Keeps
<1>3. /\ SameRuns /\ rec' = rec /\ opMu' = opMu /\ OneRecord(v) /\ disk'[v] = NoRecord
  BY Zenon, <1>1 DEF Teardown, SameRuns, OneRecord, svcVars, runVars, TypeInv, EntryType
<1>4. LockMoves(c, v)
  BY Zenon, <1>3 DEF LockMoves
<1>5. NoRecord.state = "none" /\ NoRecord.installed = FALSE /\ NoRecord.phase = "none"
  BY Zenon DEF NoRecord
<1>6. proc[v] = NoRun /\ (op[c] # "Create" => rec[v].state = "deleting")
  BY Zenon, <1>0, <1>1 DEF VMInv, ProcessLife, TeardownIsQuiet
<1>7. op[c] = "Create" =>
        rec[v].state \in {"creating", "deleting"} /\ \A r \in RunsOf(v) : qemu[r] = "unused"
  BY Zenon, <1>0, <1>1 DEF VMInv, RecordLife, CreatesAlone, Creating
<1>8. Only(v)
  BY Zenon, <1>1, <1>2, <1>3, <1>4, OnlyMove
<1>9. ProcessLife(v)'
  <2>1. Loaded(v)' /\ proc'[v] = proc[v] /\ qemu' = qemu /\ done' = done
    BY Zenon, <1>1, <1>3 DEF Loaded, SameRuns
  <2>20. LifeOn(c, "forget", v)
    BY Zenon, <1>1, <1>2, <1>3, <1>6, <2>1 DEF LifeOn
  <2> QED BY Zenon, <1>1, <1>2, <1>3, <1>6, <2>1, <2>20, LifeMove DEF VMInv
<1>10. RecordLife(v)'
  <2>1. \A u \in Thread : u # c => /\ pc'[u] = pc[u] /\ op'[u] = op[u] /\ tgt'[u] = tgt[u]
                                   /\ VMOf(u)' = VMOf(u)
    BY Zenon, <1>1, <1>2, Others DEF Walks, Moves
  <2>2. pc'[c] = "forget" /\ qemu' = qemu /\ proc' = proc /\ present' = present
    BY Zenon, <1>2, <1>3 DEF Walks, Moves, SameRuns
  <2>3. \A r \in Run : pc'[r] = pc[r]
    BY Zenon, <1>1, <2>1, Kinds
  <2>4. StateFollows(v)'
    <3>1. RecordShape(disk[v])'
      BY Zenon, <1>3, <1>5 DEF RecordShape
    <3> QED BY Zenon, <1>1, <1>3, <2>2, <2>3, <3>1 DEF VMInv, RecordLife, StateFollows, RecordShape, RunsOf
  <2>5. BootsInstalled(v)'
    <3>1. \A u \in Thread : pc'[u] \in {"start", "commit"} =>
            pc'[u] = pc[u] /\ VMOf(u)' = VMOf(u) /\ PhaseOf(u)' = PhaseOf(u)
      BY Zenon, <2>1, <2>2 DEF PhaseOf
    <3> QED BY Zenon, <1>1, <1>3, <2>3, <3>1 DEF VMInv, RecordLife, BootsInstalled, RunsOf
  <2>6. CreatesAlone(v)'
    <3>1. \A d \in Call : Creating(d)' /\ tgt'[d] = v => Creating(d) /\ tgt[d] = v
      BY Zenon, <1>0, <1>1, <1>2, <2>1, <2>2, Kinds DEF Creating
    <3>2. ASSUME NEW d \in Call, Creating(d)', tgt'[d] = v
          PROVE pc'[d] \notin {"start", "commit"} /\ (pc'[d] \in {"launch", "provision"} => rec[v].state # "creating")
      <4>1. CASE d = c
        BY Zenon, <2>2, <4>1
      <4>2. CASE d # c
        <5>1. Creating(d) /\ tgt[d] = v /\ d \in Thread /\ pc'[d] = pc[d] /\ VMOf(d) = v
          BY Zenon, <2>1, <3>1, <3>2, <4>2, Kinds DEF VMOf
        <5>2. pc[d] \notin {"start", "commit"}
          BY Zenon, <1>0, <1>1, <4>2, <5>1, Exclusion DEF HoldsOpMu
        <5>3. op[c] # "Create"
          BY Zenon, <1>0, <1>1, <4>2, <5>1 DEF VMInv, RecordLife, CreatesAlone, Creating
        <5> QED BY Zenon, <1>6, <5>1, <5>2, <5>3
      <4> QED BY Zenon, <4>1, <4>2
    <3>3. \A d \in Call : Creating(d)' /\ tgt'[d] = v => pc[d] # "commit"
      <4>1. \A d \in Call : d # c => pc'[d] = pc[d]
        BY Zenon, <2>1, Kinds
      <4> QED BY Zenon, <1>0, <3>2, <4>1
    <3> QED BY Zenon, <1>1, <1>3, <2>2, <3>1, <3>2, <3>3 DEF VMInv, RecordLife, CreatesAlone
  <2>7. DeleteHolds(v)'
    BY Zenon, <1>1, <1>2, <1>3, <2>1, <2>2, Kinds DEF VMInv, RecordLife, DeleteHolds
  <2>8. SavedOrGone(v)'
    BY Zenon, <1>2, <1>3, <1>6, <1>7, <2>2 DEF SavedOrGone
  <2> QED BY Zenon, <2>4, <2>5, <2>6, <2>7, <2>8 DEF RecordLife
<1>11. InstallerVouches(v)'
  <2>1. ClaimsInstalled(v)' => ClaimsInstalled(v)
    BY Zenon, <1>3, <1>5 DEF ClaimsInstalled, SameRuns
  <2>2. qemu' = qemu /\ code' = code /\ phase' = phase
    BY Zenon, <1>3 DEF SameRuns
  <2> QED BY Zenon, <1>1, <2>1, <2>2, VouchMove DEF VMInv
<1>12. StaysStopped(v)'
  <2>1. svc' = svc /\ present'[v] = present[v] /\ proc'[v] = proc[v]
    BY Zenon, <1>3 DEF SameRuns
  <2>21. StaysOn(c, "forget", v)
    BY Zenon, <1>1, <1>2, <1>3, <2>1 DEF StaysOn
  <2> QED BY Zenon, <1>1, <1>2, <1>3, <2>1, <2>21, StaysMove DEF VMInv
<1>13. Allows(disk[v], disk'[v])
  <2>1. disk[v] = rec[v] \/ disk[v] = NoRecord
    BY Zenon, <1>1 DEF VMInv, RecordLife, SavedOrGone, Loaded
  <2> QED BY Zenon, <1>3, <1>5, <1>6, <1>7, <2>1 DEF Allows
<1>14. Kept(v)
  BY Zenon, <1>8, <1>9, <1>10, <1>11, <1>12, <1>13 DEF Kept, VMInv
<1> QED BY Zenon, <1>1, <1>14

\* delete(s.vms, id): what is left in memory of the VM is in nobody's way.
LEMMA ForgetKept == ASSUME LifeInv, NEW c \in Call, Forget(c) PROVE \E v \in VM : Kept(v)
<1> SUFFICES ASSUME NEW v, v = tgt[c] PROVE \E w \in VM : Kept(w)
  BY Zenon
<1>0. pc[c] = "forget"
  BY Zenon DEF Forget
<1>1. /\ TypeInv /\ LockInv /\ ProcInv /\ c \in Thread /\ c \notin VM /\ c \notin Run
      /\ v \in VM /\ VMOf(c) = v /\ VMInv(v) /\ Loaded(v)
  BY Zenon, <1>0, AtWork
<1>2. Walks(c, "idle", v)
  BY Zenon, <1>1, WalksBack DEF Forget
<1>3. /\ svc' = svc /\ unloaded' = unloaded /\ rec' = rec /\ disk' = disk /\ proc' = proc
      /\ qemu' = qemu /\ code' = code /\ phase' = phase /\ done' = done
  BY Zenon DEF Forget, svcVars, runVars
<1>4. /\ ~present'[v] /\ opMu'[v] = Free
      /\ \A w \in VM : w # v => present'[w] = present[w] /\ opMu'[w] = opMu[w]
  BY Zenon, <1>1 DEF Forget, TypeInv, EntryType
<1>5. Only(v)
  <2>1. \A u \in Thread :
          \/ pc'[u] = pc[u] /\ op'[u] = op[u] /\ tgt'[u] = tgt[u] /\ arg'[u] = arg[u]
          \/ (pc[u] = "idle" \/ VMOf(u) = v) /\ (pc'[u] = "idle" \/ VMOf(u)' = v)
    BY Zenon, <1>1, <1>2, WalksAlone
  <2> QED BY Zenon, <1>3, <1>4, <2>1 DEF Only
<1>6. ProcessLife(v)'
  <2>1. Loaded(v)'
    BY Zenon, <1>1, <1>3 DEF Loaded
  <2>20. LifeOn(c, "idle", v)
    BY Zenon, <1>1, <1>2, <1>3, <2>1 DEF LifeOn
  <2> QED BY Zenon, <1>1, <1>2, <1>3, <2>1, <2>20, LifeMove DEF VMInv
<1>7. RecordLife(v)'
  <2>1. \A u \in Thread : pc'[u] # "idle" =>
          pc'[u] = pc[u] /\ op'[u] = op[u] /\ tgt'[u] = tgt[u] /\ VMOf(u)' = VMOf(u)
    BY Zenon, <1>1, <1>2, Others DEF Walks, Moves
  <2>2. \A r \in Run : r \in Thread /\ pc'[r] = pc[r]
    BY Zenon, <1>1, <1>2, Kinds DEF Walks, Moves
  <2>3. StateFollows(v)'
    BY Zenon, <1>1, <1>3, <1>4, <2>2 DEF VMInv, RecordLife, StateFollows, RecordShape, RunsOf
  <2>4. BootsInstalled(v)'
    <3>1. \A u \in Thread : pc'[u] \in {"start", "commit"} =>
            pc'[u] = pc[u] /\ VMOf(u)' = VMOf(u) /\ PhaseOf(u)' = PhaseOf(u)
      BY Zenon, <2>1 DEF PhaseOf
    <3> QED BY Zenon, <1>1, <1>3, <2>2, <3>1 DEF VMInv, RecordLife, BootsInstalled, RunsOf
  <2>5. CreatesAlone(v)'
    <3>1. \A d \in Call : Creating(d)' /\ tgt'[d] = v => Creating(d) /\ tgt[d] = v /\ pc'[d] = pc[d]
      BY Zenon, <2>1, Kinds DEF Creating
    <3> QED BY Zenon, <1>1, <1>3, <3>1 DEF VMInv, RecordLife, CreatesAlone
  <2>6. DeleteHolds(v)' /\ SavedOrGone(v)'
    BY Zenon, <1>1, <1>3, <1>4 DEF VMInv, RecordLife, DeleteHolds, SavedOrGone
  <2> QED BY Zenon, <2>3, <2>4, <2>5, <2>6 DEF RecordLife
<1>8. InstallerVouches(v)'
  BY Zenon, <1>1, <1>3 DEF VMInv, InstallerVouches, ClaimsInstalled, InstallerExited
<1>9. StaysStopped(v)' /\ Allows(disk[v], disk'[v])
  BY Zenon, <1>3, <1>4 DEF StaysStopped, Allows
<1>10. Kept(v)
  BY Zenon, <1>5, <1>6, <1>7, <1>8, <1>9 DEF Kept, VMInv
<1> QED BY Zenon, <1>1, <1>10


\* allocate: the id is new, so nothing is known and nothing runs of the VM.
LEMMA AllocateKept ==
  ASSUME LifeInv, NEW c \in Call, NEW v \in VM, Allocate(c, v) PROVE Kept(v)
<1> DEFINE x == [NoRecord EXCEPT !.state = "creating"]
<1>1. TypeInv /\ LockInv /\ ProcInv /\ VMInv(v) /\ c \in Thread /\ c \notin VM /\ c \notin Run
  BY Zenon, Kinds DEF LifeInv
<1>2. pc[c] = "idle" /\ svc = "serving" /\ rec[v] = NoRecord /\ disk[v] = NoRecord
  BY Zenon DEF Allocate, FreshID
<1>3. \A r \in RunsOf(v) : qemu[r] = "unused"
  BY Zenon DEF Allocate, FreshID
<1>4. Loaded(v) /\ ~closing
  BY Zenon, <1>1, <1>2 DEF LockInv, LoadingIsQuiet, Loaded, closing
<1>5. Moves(c, "launch") /\ op'[c] = "Create" /\ tgt'[c] = v
  BY Zenon, <1>1, EnterMoves DEF Allocate
<1>6. Walks(c, "launch", v)
  BY Zenon, <1>1, <1>2, <1>5 DEF Walks, VMOf
<1>7. /\ svc' = svc /\ unloaded' = unloaded /\ opMu' = opMu /\ proc' = proc
      /\ qemu' = qemu /\ code' = code /\ phase' = phase /\ done' = done
  BY Zenon DEF Allocate, svcVars, runVars
<1>8. /\ rec'[v] = x /\ disk'[v] = x /\ present'[v] = TRUE
      /\ \A w \in VM : w # v => rec'[w] = rec[w] /\ disk'[w] = disk[w] /\ present'[w] = present[w]
  BY Zenon, <1>1 DEF Allocate, Save, TypeInv, EntryType
<1>9. x.state = "creating" /\ x.installed = FALSE /\ x.phase = "none"
  BY Zenon DEF NoRecord
<1>10. NoRecord.state = "none" /\ NoRecord.installed = FALSE
  BY Zenon DEF NoRecord
<1> HIDE DEF x
<1>11. proc[v] = NoRun
  BY Zenon, <1>1, <1>3 DEF ProcInv, ProcessIsSupervised, RunsOf
<1>12. Only(v)
  <2>1. \A u \in Thread :
          \/ pc'[u] = pc[u] /\ op'[u] = op[u] /\ tgt'[u] = tgt[u] /\ arg'[u] = arg[u]
          \/ (pc[u] = "idle" \/ VMOf(u) = v) /\ (pc'[u] = "idle" \/ VMOf(u)' = v)
    BY Zenon, <1>1, <1>6, WalksAlone
  <2> QED BY Zenon, <1>7, <1>8, <2>1 DEF Only
<1>13. ProcessLife(v)'
  <2>1. Loaded(v)'
    BY Zenon, <1>4, <1>7 DEF Loaded
  <2>20. LifeOn(c, "launch", v)
    BY Zenon, <1>1, <1>2, <1>6, <1>7, <1>10, <2>1 DEF LifeOn
  <2> QED BY Zenon, <1>1, <1>2, <1>6, <1>7, <1>10, <2>1, <2>20, LifeMove DEF VMInv
<1>14. RecordLife(v)'
  <2>1. \A u \in Thread : u # c => /\ pc'[u] = pc[u] /\ op'[u] = op[u] /\ tgt'[u] = tgt[u]
                                   /\ VMOf(u)' = VMOf(u)
    BY Zenon, <1>1, <1>5, Others DEF Moves
  <2>2. StateFollows(v)'
    BY Zenon, <1>7, <1>8, <1>9, <1>11 DEF StateFollows, RecordShape, Live
  <2>3. BootsInstalled(v)'
    <3>1. \A u \in Thread : pc'[u] \in {"start", "commit"} =>
            pc'[u] = pc[u] /\ VMOf(u)' = VMOf(u) /\ PhaseOf(u)' = PhaseOf(u)
      BY Zenon, <1>5, <2>1 DEF PhaseOf, Moves
    <3>2. \A r \in Run : pc'[r] = pc[r]
      BY Zenon, <1>1, <2>1, Kinds
    <3>3. ~rec[v].installed
      BY Zenon, <1>2, <1>10
    <3> QED BY Zenon, <1>1, <3>1, <3>2, <3>3 DEF VMInv, RecordLife, BootsInstalled, RunsOf
  <2>4. CreatesAlone(v)'
    <3>1. \A d \in Call : Creating(d)' /\ tgt'[d] = v /\ d # c => Creating(d) /\ tgt[d] = v
      BY Zenon, <2>1, Kinds DEF Creating
    <3>2. \A d \in Call : Creating(d)' /\ tgt'[d] = v => d = c
      BY Zenon, <1>1, <1>2, <1>10, <3>1 DEF VMInv, RecordLife, CreatesAlone
    <3> QED BY Zenon, <1>3, <1>7, <1>8, <1>9, <3>2 DEF CreatesAlone, RunsOf
  <2>5. DeleteHolds(v)' /\ SavedOrGone(v)'
    BY Zenon, <1>8, <1>9 DEF DeleteHolds, SavedOrGone
  <2> QED BY Zenon, <2>2, <2>3, <2>4, <2>5 DEF RecordLife
<1>15. InstallerVouches(v)'
  <2>1. ClaimsInstalled(v)' => ClaimsInstalled(v)
    BY Zenon, <1>7, <1>8, <1>9 DEF ClaimsInstalled
  <2> QED BY Zenon, <1>1, <1>7, <2>1, VouchMove DEF VMInv
<1>16. StaysStopped(v)'
  BY Zenon, <1>4, <1>7 DEF StaysStopped, closing
<1>17. Allows(disk[v], disk'[v])
  BY Zenon, <1>2, <1>8, <1>9, <1>10 DEF Allows
<1> QED BY Zenon, <1>12, <1>13, <1>14, <1>15, <1>16, <1>17 DEF Kept, VMInv

\* Runtime.Start has a new QEMU up: the entry has no process yet, and opMu
\* keeps every other start, delete and visit of the VM out.
LEMMA StartQEMUKept ==
  ASSUME LifeInv, NEW t \in Thread, NEW r \in Run, StartQEMU(t, r) PROVE \E v \in VM : Kept(v)
<1> SUFFICES ASSUME NEW v, v = VMOf(t) PROVE \E w \in VM : Kept(w)
  BY Zenon
<1>0. pc[t] = "start" /\ t \notin VM /\ r[1] = v /\ qemu[r] = "unused"
  BY Zenon DEF StartQEMU, FreshRun, RunsOf, LifeInv, LockInv, ThreadKinds
<1>1. TypeInv /\ LockInv /\ ProcInv /\ v \in VM /\ r \in Thread
  BY Zenon, <1>0, ActiveVM, Kinds DEF LifeInv, TypeInv
<1>2. VMInv(v)
  BY Zenon, <1>1 DEF LifeInv
<1>3. Loaded(v)
  BY Zenon, <1>0, <1>1, <1>2, ThreadLoaded DEF VMInv, ProcessLife
<1>4. Walks(t, "commit", v) /\ arg'[t] = r /\ op'[t] = op[t] /\ tgt'[t] = tgt[t] /\ PhaseOf(t)' = PhaseOf(t)
  BY Zenon, <1>1, HoldMoves, WalksOn DEF StartQEMU, Keeps
<1>5. /\ svc' = svc /\ unloaded' = unloaded /\ present' = present /\ rec' = rec /\ disk' = disk
      /\ opMu' = opMu /\ proc' = proc /\ code' = code /\ done' = done
  BY Zenon DEF StartQEMU, svcVars, entryVars
<1>6. /\ qemu'[r] = "running" /\ phase'[r] = PhaseOf(t)
      /\ \A q \in Run : q # r => phase'[q] = phase[q]
      /\ \A q \in Run : q[1] # v => qemu'[q] = qemu[q]
      /\ \A q \in Run : qemu[q] # "unused" => qemu'[q] # "unused"
      /\ \A q \in Run : qemu[q] = "released" => qemu'[q] = "released"
  BY Zenon, <1>0, <1>1 DEF StartQEMU, TypeInv, RunType
<1>7. pc[r] = "idle" /\ ~done[r] /\ r # t
  <2>1. pc[r] = "idle"
    BY Zenon, <1>0, <1>1 DEF ProcInv, ProcessIsSupervised
  <2>2. ~done[r]
    BY Zenon, <1>0, <1>2 DEF VMInv, ProcessLife, DoneIsFinal, RunsOf
  <2> QED BY Zenon, <1>0, <2>1, <2>2
<1>8. \A u \in Thread : u # t => /\ pc'[u] = pc[u] /\ op'[u] = op[u] /\ tgt'[u] = tgt[u]
                                 /\ arg'[u] = arg[u] /\ VMOf(u)' = VMOf(u)
  BY Zenon, <1>4, Others DEF Walks, Moves
<1>9. \A u \in Thread : u # t /\ VMOf(u) = v => ~HoldsOpMu(u)
  BY Zenon, <1>0, <1>1, Exclusion DEF HoldsOpMu
<1>10. pc'[t] = "commit" /\ VMOf(t)' = v
  BY Zenon, <1>4 DEF Walks, Moves
<1>11. Only(v)
  <2>1. \A u \in Thread :
          \/ pc'[u] = pc[u] /\ op'[u] = op[u] /\ tgt'[u] = tgt[u] /\ arg'[u] = arg[u]
          \/ (pc[u] = "idle" \/ VMOf(u) = v) /\ (pc'[u] = "idle" \/ VMOf(u)' = v)
    BY Zenon, <1>1, <1>4, WalksAlone
  <2> QED BY Zenon, <1>0, <1>5, <1>6, <2>1 DEF Only
<1>12. ProcessLife(v)'
  <2>1. NotLoaded(v)' /\ DoneIsFinal(v)'
    BY Zenon, <1>2, <1>3, <1>5, <1>6 DEF VMInv, ProcessLife, NotLoaded, DoneIsFinal, Loaded, RunsOf
  <2>2. WaitsForOwn(v)'
    BY Zenon, <1>2, <1>5, <1>8, <1>10, <1>0 DEF VMInv, ProcessLife, WaitsForOwn, RunsOf
  <2>3. CommitsFresh(v)'
    <3>1. \A u \in Thread : VMOf(u)' = v /\ pc'[u] = "commit" => u = t
      BY Zenon, <1>8, <1>9 DEF HoldsOpMu
    <3> QED BY Zenon, <1>1, <1>4, <1>5, <1>7, <1>8, <3>1 DEF CommitsFresh
  <2>4. TeardownIsQuiet(v)'
    BY Zenon, <1>2, <1>5, <1>8, <1>10, Kinds DEF VMInv, ProcessLife, TeardownIsQuiet
  <2>5. GuestsHaveRun(v)'
    BY <1>2, <1>6, <1>8, <1>10, Kinds DEF VMInv, ProcessLife, GuestsHaveRun, RunsOf
  <2> QED BY Zenon, <2>1, <2>2, <2>3, <2>4, <2>5 DEF ProcessLife

<1>13. RecordLife(v)'
  <2>1. PhaseOf(t) = "boot" => rec[v].installed
    BY Zenon, <1>0, <1>2 DEF VMInv, RecordLife, BootsInstalled
  <2>2. \A d \in Call : Creating(d) /\ tgt[d] = v => d = t
    <3> SUFFICES ASSUME NEW d \in Call, Creating(d), tgt[d] = v PROVE d = t
      BY Zenon
    <3>1. ~rec[v].installed
      BY Zenon, <1>2 DEF VMInv, RecordLife, CreatesAlone
    <3>2. t \in Call /\ op[t] = "Create"
      BY Zenon, <2>1, <3>1 DEF PhaseOf
    <3>3. Creating(t) /\ tgt[t] = v
      BY Zenon, <1>0, <3>2, Kinds DEF Creating, VMOf
    <3> QED BY Zenon, <1>2, <3>2, <3>3 DEF VMInv, RecordLife, CreatesAlone
  <2>3. StateFollows(v)'
    <3>1. \A q \in Run : pc[q] \in {"boot", "start", "commit"} => pc'[q] \in {"boot", "start", "commit"}
      BY Zenon, <1>8, <1>10, Kinds
    <3> QED BY Zenon, <1>2, <1>5, <3>1 DEF VMInv, RecordLife, StateFollows, RecordShape, RunsOf
  <2>4. BootsInstalled(v)'
    <3>1. \A u \in Thread : pc'[u] \in {"start", "commit"} =>
            pc[u] \in {"start", "commit"} /\ VMOf(u)' = VMOf(u) /\ PhaseOf(u)' = PhaseOf(u)
      BY Zenon, <1>0, <1>4, <1>8, <1>10 DEF PhaseOf
    <3>2. \A q \in Run : pc'[q] = "boot" => pc[q] = "boot"
      BY Zenon, <1>8, <1>10, Kinds
    <3> QED BY Zenon, <1>2, <1>5, <3>1, <3>2 DEF VMInv, RecordLife, BootsInstalled, RunsOf
  <2>5. CreatesAlone(v)'
    <3>1. \A d \in Call : Creating(d)' /\ tgt'[d] = v => Creating(d) /\ tgt[d] = v
      BY Zenon, <1>0, <1>4, <1>8, Kinds DEF Creating
    <3>2. \A d \in Call : Creating(d)' /\ tgt'[d] = v => d = t /\ pc'[d] = "commit"
      BY Zenon, <2>2, <3>1, <1>10
    <3>3. \A d \in Call : Creating(d)' /\ tgt'[d] = v =>
            rec[v].state \in {"creating", "deleting"} /\ ~rec[v].installed /\ disk[v] = rec[v]
      BY Zenon, <1>0, <1>2, <2>2, <3>1 DEF VMInv, RecordLife, CreatesAlone
    <3> QED BY Zenon, <1>5, <3>2, <3>3 DEF CreatesAlone
  <2>6. DeleteHolds(v)'
    BY Zenon, <1>0, <1>2, <1>5, <1>8, Kinds DEF VMInv, RecordLife, DeleteHolds
  <2>7. SavedOrGone(v)'
    <3>1. \A d \in Call : pc[d] = "forget" => tgt[d] # v
      BY Zenon, <1>0, <1>9, Kinds DEF HoldsOpMu, VMOf
    <3> QED BY Zenon, <1>2, <1>3, <1>5, <3>1 DEF VMInv, RecordLife, SavedOrGone, Loaded
  <2> QED BY Zenon, <2>3, <2>4, <2>5, <2>6, <2>7 DEF RecordLife
<1>14. InstallerVouches(v)'
  <2>1. ClaimsInstalled(v)' => ClaimsInstalled(v)
    <3>1. PhaseOf(t) = "boot" => rec[v].installed
      BY Zenon, <1>0, <1>2 DEF VMInv, RecordLife, BootsInstalled
    <3> QED BY Zenon, <1>5, <1>6, <3>1 DEF ClaimsInstalled, RunsOf
  <2>2. \A q \in Run : qemu[q] = "released" => q # r
    BY Zenon, <1>0
  <2> QED BY Zenon, <1>1, <1>2, <1>5, <1>6, <2>1, <2>2, VouchMove DEF VMInv
<1>15. StaysStopped(v)'
  <2>1. v # t /\ v \in Thread /\ pc'[v] = pc[v]
    BY Zenon, <1>0, <1>1, <1>8, Kinds
  <2> QED BY Zenon, <1>0, <1>2, <1>5, <2>1 DEF VMInv, StaysStopped, closing
<1>16. Allows(disk[v], disk'[v])
  BY Zenon, <1>5 DEF Allows
<1>17. Kept(v)
  BY Zenon, <1>11, <1>12, <1>13, <1>14, <1>15, <1>16 DEF Kept, VMInv
<1> QED BY Zenon, <1>1, <1>17


\* The record takes the process over and its supervisor starts.
LEMMA CommitKept == ASSUME LifeInv, NEW t \in Thread, Commit(t) PROVE \E v \in VM : Kept(v)
<1> SUFFICES ASSUME NEW v, v = VMOf(t), NEW r, r = arg[t], NEW x,
                    x = [rec[v] EXCEPT
                           !.state = IF PhaseOf(t) = "install" THEN "installing" ELSE "booting",
                           !.phase = PhaseOf(t), !.handles = TRUE]
             PROVE \E w \in VM : Kept(w)
  BY Zenon
<1>0. pc[t] = "commit" /\ t \notin VM
  BY Zenon DEF Commit, LifeInv, LockInv, ThreadKinds
<1>1. TypeInv /\ LockInv /\ ProcInv /\ v \in VM
  BY Zenon, <1>0, ActiveVM DEF LifeInv, TypeInv
<1>2. VMInv(v)
  BY Zenon, <1>1 DEF LifeInv
<1>3. Loaded(v)
  BY Zenon, <1>0, <1>1, <1>2, ThreadLoaded DEF VMInv, ProcessLife
<1>4. r \in Run /\ r[1] = v /\ r \in Thread /\ r \notin VM /\ r \notin Call
  BY Zenon, <1>0, <1>1, Kinds DEF LockInv, StartsOwnRun
<1>5. proc[v] = NoRun /\ pc[r] = "idle" /\ ~done[r] /\ r # t
  BY Zenon, <1>0, <1>1, <1>2 DEF ProcInv, StartsAlone, VMInv, ProcessLife, CommitsFresh
<1>6. /\ svc' = svc /\ unloaded' = unloaded /\ present' = present
      /\ qemu' = qemu /\ code' = code /\ phase' = phase /\ done' = done
  BY Zenon DEF Commit, svcVars
<1>7. /\ rec'[v] = x /\ disk'[v] = x /\ proc'[v] = r /\ opMu'[v] = Free
      /\ \A w \in VM : w # v => /\ rec'[w] = rec[w] /\ disk'[w] = disk[w]
                                /\ proc'[w] = proc[w] /\ opMu'[w] = opMu[w]
  <2>1. proc' = [proc EXCEPT ![v] = r] /\ opMu' = [opMu EXCEPT ![v] = Free]
    BY Zenon DEF Commit
  <2>2. rec' = [rec EXCEPT ![v] = x] /\ disk' = [disk EXCEPT ![v] = x]
    BY Zenon DEF Commit, Save
  <2> QED BY Zenon, <1>1, <2>1, <2>2 DEF TypeInv, EntryType
<1>8. /\ x.state = (IF PhaseOf(t) = "install" THEN "installing" ELSE "booting")
      /\ x.phase = PhaseOf(t) /\ x.handles = TRUE /\ x.installed = rec[v].installed
  BY <1>1 DEF TypeInv, EntryType, Record
<1>9. /\ pc'[t] = "idle" /\ pc'[r] = "select"
      /\ \A u \in Thread : u \notin {t, r} =>
           /\ pc'[u] = pc[u] /\ op'[u] = op[u] /\ tgt'[u] = tgt[u]
           /\ arg'[u] = arg[u] /\ VMOf(u)' = VMOf(u)
  <2>1. /\ pc' = [pc EXCEPT ![t] = "idle", ![r] = "select"]
        /\ op' = [op EXCEPT ![t] = "none"]
        /\ tgt' = [tgt EXCEPT ![t] = Free] /\ arg' = [arg EXCEPT ![t] = NoRun]
    BY Zenon DEF Commit
  <2> QED BY Zenon, <1>1, <1>4, <1>5, <2>1 DEF TypeInv, ThreadInv, ThreadType, VMOf
<1>10. \A u \in Thread : u # t /\ VMOf(u) = v => ~HoldsOpMu(u)
  BY Zenon, <1>0, <1>1, Exclusion DEF HoldsOpMu
<1>11. \A u \in Thread : VMOf(u)' = v => ~HoldsOpMu(u)'
  <2> SUFFICES ASSUME NEW u \in Thread, VMOf(u)' = v PROVE ~HoldsOpMu(u)'
    BY Zenon
  <2>1. CASE u \in {t, r}
    BY Zenon, <1>0, <1>4, <1>9, <2>1 DEF HoldsOpMu
  <2>2. CASE u \notin {t, r}
    BY Zenon, <1>9, <1>10, <2>2 DEF HoldsOpMu
  <2> QED BY Zenon, <2>1, <2>2
<1>12. PhaseOf(t) = "boot" => rec[v].installed /\ rec[v].state \in {"installing", "stopped", "failed"}
  BY Zenon, <1>0, <1>2 DEF VMInv, RecordLife, BootsInstalled
<1>13. PhaseOf(t) = "install" =>
         /\ t \in Call /\ Creating(t) /\ tgt[t] = v /\ ~rec[v].installed
         /\ rec[v].state \in {"creating", "deleting"} /\ disk[v] = rec[v]
  <2>1. PhaseOf(t) = "install" => t \in Call /\ Creating(t) /\ tgt[t] = v
    BY Zenon, <1>0, Kinds DEF PhaseOf, Creating, VMOf
  <2> QED BY Zenon, <1>0, <1>2, <2>1 DEF VMInv, RecordLife, CreatesAlone
<1>14. PhaseOf(t) \in {"install", "boot"}
  BY Zenon DEF PhaseOf
<1>15. Only(v)
  <2>1. \A u \in Thread :
          \/ pc'[u] = pc[u] /\ op'[u] = op[u] /\ tgt'[u] = tgt[u] /\ arg'[u] = arg[u]
          \/ (pc[u] = "idle" \/ VMOf(u) = v) /\ (pc'[u] = "idle" \/ VMOf(u)' = v)
    BY Zenon, <1>4, <1>9 DEF VMOf
  <2> QED BY Zenon, <1>6, <1>7, <2>1 DEF Only
<1>16. ProcessLife(v)'
  <2>1. NotLoaded(v)' /\ DoneIsFinal(v)'
    BY Zenon, <1>2, <1>3, <1>5, <1>6, <1>7 DEF VMInv, ProcessLife, NotLoaded, DoneIsFinal, Loaded, RunsOf
  <2>2. WaitsForOwn(v)' /\ CommitsFresh(v)'
    BY Zenon, <1>11 DEF WaitsForOwn, CommitsFresh, HoldsOpMu
  <2>3. TeardownIsQuiet(v)'
    <3>1. \A c \in Call : tgt'[c] = v => pc'[c] \notin {"teardown", "forget", "deleting"}
      BY Zenon, <1>11, Kinds DEF HoldsOpMu, VMOf
    <3> QED BY Zenon, <3>1 DEF TeardownIsQuiet
  <2>4. GuestsHaveRun(v)'
    BY <1>2, <1>4, <1>6, <1>9, Kinds DEF VMInv, ProcessLife, GuestsHaveRun, RunsOf
  <2> QED BY Zenon, <2>1, <2>2, <2>3, <2>4 DEF ProcessLife
<1>17. RecordLife(v)'
  <2>1. StateFollows(v)'
    <3>1. x.state \in {"installing", "booting"} /\ ~(x.state = "installing" /\ x.installed)
      BY <1>8, <1>13
    <3>2. RecordShape(x)
      BY Zenon, <3>1 DEF RecordShape
    <3>3. r # NoRun
      BY Zenon, <1>4, Kinds
    <3> QED BY Zenon, <1>7, <3>1, <3>2, <3>3 DEF StateFollows, Live, RecordShape
  <2>2. BootsInstalled(v)'
    <3>1. \A u \in Thread : VMOf(u)' = v => pc'[u] \notin {"start", "commit"}
      BY Zenon, <1>11 DEF HoldsOpMu
    <3>2. \A q \in Run : pc'[q] = "boot" => pc[q] = "boot"
      BY Zenon, <1>9, Kinds
    <3> QED BY Zenon, <1>2, <1>7, <1>8, <3>1, <3>2 DEF VMInv, RecordLife, BootsInstalled, RunsOf
  <2>3. CreatesAlone(v)'
    <3>1. \A d \in Call : Creating(d)' /\ tgt'[d] = v => Creating(d) /\ tgt[d] = v /\ d # t
      BY Zenon, <1>4, <1>9, Kinds DEF Creating
    <3>2. \A d \in Call : ~(Creating(d)' /\ tgt'[d] = v)
      BY Zenon, <1>2, <1>12, <1>13, <1>14, <3>1 DEF VMInv, RecordLife, CreatesAlone
    <3> QED BY Zenon, <3>2 DEF CreatesAlone
  <2>4. DeleteHolds(v)' /\ SavedOrGone(v)'
    BY Zenon, <1>7, <1>8 DEF DeleteHolds, SavedOrGone
  <2> QED BY Zenon, <2>1, <2>2, <2>3, <2>4 DEF RecordLife
<1>18. InstallerVouches(v)'
  <2>1. ClaimsInstalled(v)' => ClaimsInstalled(v)
    BY <1>6, <1>7, <1>8, <1>12 DEF ClaimsInstalled
  <2> QED BY Zenon, <1>1, <1>2, <1>6, <2>1, VouchMove DEF VMInv
<1>19. StaysStopped(v)'
  <2>1. v \notin {t, r} /\ v \in Thread /\ pc'[v] = pc[v]
    BY Zenon, <1>0, <1>1, <1>4, <1>9, Kinds
  <2> QED BY Zenon, <1>0, <1>2, <1>6, <1>7, <1>8, <2>1 DEF VMInv, StaysStopped, closing
<1>20. Allows(disk[v], disk'[v])
  <2>1. disk[v] = rec[v]
    BY Zenon, <1>1, <1>2, <1>3, <1>12, <1>13, <1>14, OnDisk DEF VMInv
  <2>2. disk'[v].state = x.state /\ disk'[v].installed = rec[v].installed
    BY Zenon, <1>7, <1>8
  <2>3. CASE PhaseOf(t) = "boot"
    <3>1. x.state = "booting"
      BY Zenon, <1>8, <2>3
    <3> QED BY Zenon, <1>12, <2>1, <2>2, <2>3, <3>1 DEF Allows
  <2>4. CASE PhaseOf(t) = "install"
    <3>1. x.state = "installing"
      BY Zenon, <1>8, <2>4
    <3> QED BY Zenon, <1>13, <2>1, <2>2, <2>4, <3>1 DEF Allows
  <2> QED BY Zenon, <1>14, <2>3, <2>4
<1>21. Kept(v)
  BY Zenon, <1>15, <1>16, <1>17, <1>18, <1>19, <1>20 DEF Kept, VMInv
<1> QED BY Zenon, <1>1, <1>21

\* The exit status arrives: the record settles in a state without a process,
\* or is handed to the boot of an installed disk.
LEMMA onExitKept == ASSUME LifeInv, NEW r \in Run, onExit(r) PROVE Kept(r[1])
<1> SUFFICES ASSUME NEW v, v = r[1], NEW x,
                    x = [rec[v] EXCEPT !.state = ExitState(r), !.handles = FALSE,
                                       !.installed = @ \/ InstallSucceeded(r)]
             PROVE Kept(v)
  BY Zenon
<1>0. pc[r] = "select" /\ qemu[r] = "released"
  BY Zenon DEF onExit
<1>1. /\ TypeInv /\ LockInv /\ ProcInv /\ r \in Thread /\ r \notin VM /\ r \notin Call
      /\ v \in VM /\ VMOf(r) = v /\ VMInv(v) /\ Loaded(v) /\ proc[v] = r /\ r # NoRun
  BY Zenon, <1>0, OnWatch
<1>2. /\ svc' = svc /\ unloaded' = unloaded /\ present' = present /\ opMu' = opMu
      /\ qemu' = qemu /\ code' = code /\ phase' = phase
  BY Zenon DEF onExit, svcVars
<1>3. /\ rec'[v] = x /\ disk'[v] = x /\ proc'[v] = NoRun
      /\ \A w \in VM : w # v => rec'[w] = rec[w] /\ disk'[w] = disk[w] /\ proc'[w] = proc[w]
  <2>1. proc' = [proc EXCEPT ![v] = NoRun]
    BY Zenon DEF onExit
  <2>2. rec' = [rec EXCEPT ![v] = x] /\ disk' = [disk EXCEPT ![v] = x]
    BY Zenon DEF onExit, Save
  <2> QED BY Zenon, <1>1, <2>1, <2>2 DEF TypeInv, EntryType
<1>4. x.state = ExitState(r) /\ x.handles = FALSE /\ x.phase = rec[v].phase
  BY <1>1 DEF TypeInv, EntryType, Record
<1>5. x.installed = (rec[v].installed \/ InstallSucceeded(r))
  BY <1>1 DEF TypeInv, EntryType, Record
<1>6. done'[r] /\ \A q \in Run : q # r => done'[q] = done[q]
  BY Zenon, <1>1 DEF onExit, CloseDone, TypeInv, RunType
<1>7. /\ pc'[r] = (IF InstallSucceeded(r) THEN "boot" ELSE "idle")
      /\ \A u \in Thread : u # r =>
           /\ pc'[u] = pc[u] /\ op'[u] = op[u] /\ tgt'[u] = tgt[u]
           /\ arg'[u] = arg[u] /\ VMOf(u)' = VMOf(u)
  <2>1. CASE InstallSucceeded(r)
    <3>1. Moves(r, "boot")
      BY Zenon, <1>1, <2>1, GotoMoves DEF onExit
    <3> QED BY Zenon, <1>1, <2>1, <3>1, Others DEF Moves
  <2>2. CASE ~InstallSucceeded(r)
    <3>1. Moves(r, "idle")
      BY Zenon, <1>1, <2>2, ReturnMoves DEF onExit
    <3> QED BY Zenon, <1>1, <2>2, <3>1, Others DEF Moves
  <2> QED BY Zenon, <2>1, <2>2
<1>8. rec[v].state \in Live \cup {"deleting"} /\ ~(rec[v].state = "installing" /\ rec[v].installed)
  BY Zenon, <1>1 DEF VMInv, RecordLife, StateFollows
<1>9. /\ InstallSucceeded(r) => rec[v].state = "installing" /\ x.state = "installing" /\ x.installed
      /\ ~InstallSucceeded(r) => x.state \in {"stopped", "failed", "deleting"}
      /\ x.state = "deleting" <=> rec[v].state = "deleting"
      /\ rec[v].state = "stopping" => x.state = "stopped"
  <2>1. InstallSucceeded(r) => rec[v].state = "installing"
    BY Zenon DEF InstallSucceeded
  <2>2. x.state = (IF rec[v].state = "deleting" \/ InstallSucceeded(r) THEN rec[v].state
                   ELSE IF rec[v].state = "stopping" THEN "stopped"
                   ELSE IF code[r] = "zero" /\ ~(phase[r] = "install" /\ rec[v].state = "installing")
                   THEN "stopped" ELSE "failed")
    BY Zenon, <1>4 DEF ExitState
  <2>3. InstallSucceeded(r) => x.installed
    BY Zenon, <1>5
  <2>4. InstallSucceeded(r) => x.state = "installing"
    BY Zenon, <2>1, <2>2
  <2>5. ~InstallSucceeded(r) => x.state \in {"stopped", "failed", "deleting"}
    BY Zenon, <2>2
  <2>6. x.state = "deleting" <=> rec[v].state = "deleting"
    BY <2>1, <2>2
  <2>7. rec[v].state = "stopping" => x.state = "stopped"
    BY Zenon, <2>1, <2>2
  <2> QED BY Zenon, <2>1, <2>3, <2>4, <2>5, <2>6, <2>7
<1>10. \A u \in Thread : VMOf(u) = v => pc[u] \notin {"start", "commit"}
  BY Zenon, <1>1 DEF ProcInv, StartsAlone
<1>11. \A u \in Thread : VMOf(u)' = v => pc'[u] \notin {"start", "commit"}
  BY Zenon, <1>7, <1>10
<1>12. Only(v)
  <2>1. \A u \in Thread :
          \/ pc'[u] = pc[u] /\ op'[u] = op[u] /\ tgt'[u] = tgt[u] /\ arg'[u] = arg[u]
          \/ (pc[u] = "idle" \/ VMOf(u) = v) /\ (pc'[u] = "idle" \/ VMOf(u)' = v)
    BY Zenon, <1>1, <1>7 DEF VMOf
  <2> QED BY Zenon, <1>2, <1>3, <1>6, <2>1 DEF Only
<1>13. ProcessLife(v)'
  <2>1. NotLoaded(v)'
    BY Zenon, <1>1, <1>2 DEF NotLoaded, Loaded
  <2>2. DoneIsFinal(v)'
    BY Zenon, <1>0, <1>1, <1>2, <1>3, <1>6, Kinds DEF VMInv, ProcessLife, DoneIsFinal, RunsOf
  <2>3. WaitsForOwn(v)'
    BY Zenon, <1>1, <1>3, <1>7 DEF VMInv, ProcessLife, WaitsForOwn
  <2>4. CommitsFresh(v)'
    BY Zenon, <1>11 DEF CommitsFresh
  <2>5. TeardownIsQuiet(v)'
    BY <1>1, <1>3, <1>7, <1>9, Kinds DEF VMInv, ProcessLife, TeardownIsQuiet
  <2>6. GuestsHaveRun(v)'
    <3>1. GuestsHaveRun(v)
      BY Zenon, <1>1 DEF VMInv, ProcessLife
    <3>2. \A c \in Call : tgt'[c] = tgt[c] /\ pc'[c] = pc[c]
      BY Zenon, <1>1, <1>7, Kinds
    <3> QED BY Zenon, <1>2, <3>1, <3>2 DEF GuestsHaveRun, RunsOf
  <2> QED BY Zenon, <2>1, <2>2, <2>3, <2>4, <2>5, <2>6 DEF ProcessLife
<1>14. RecordLife(v)'
  <2>1. StateFollows(v)'
    <3>1. x.state \in {"installing", "stopped", "failed", "deleting"}
      BY Zenon, <1>9
    <3>2. RecordShape(x)
      BY Zenon, <1>4, <3>1 DEF RecordShape
    <3>3. x.state = "installing" => x.installed /\ pc'[r] = "boot"
      BY Zenon, <1>7, <1>9
    <3>4. x.state = "installing" => \E q \in RunsOf(v) : pc'[q] \in {"boot", "start", "commit"}
      BY Zenon, <3>3 DEF RunsOf
    <3>5. x.state \in Live => x.state = "installing"
      BY Zenon, <3>1 DEF Live
    <3>6. x.state # "none"
      BY Zenon, <3>1
    <3>7. RecordShape(rec[v])' /\ RecordShape(disk[v])'
      BY Zenon, <1>3, <3>2 DEF RecordShape
    <3> QED BY Zenon, <1>3, <3>3, <3>4, <3>5, <3>6, <3>7 DEF StateFollows, RunsOf
  <2>2. BootsInstalled(v)'
    <3>1. \A q \in Run : q[1] = v /\ pc'[q] = "boot" => x.installed
      <4> SUFFICES ASSUME NEW q \in Run, q[1] = v, pc'[q] = "boot" PROVE x.installed
        BY Zenon
      <4>1. CASE q = r
        BY Zenon, <1>7, <1>9, <4>1
      <4>2. CASE q # r
        <5>1. pc[q] = "boot"
          BY Zenon, <1>7, <4>2, Kinds
        <5>2. rec[v].installed
          BY Zenon, <1>1, <5>1 DEF VMInv, RecordLife, BootsInstalled, RunsOf
        <5> QED BY Zenon, <1>5, <5>2
      <4> QED BY Zenon, <4>1, <4>2
    <3> QED BY Zenon, <1>3, <1>11, <3>1 DEF BootsInstalled, RunsOf
  <2>3. CreatesAlone(v)'
    <3>1. \A d \in Call : Creating(d)' /\ tgt'[d] = v => Creating(d) /\ tgt[d] = v /\ VMOf(d) = v
      BY Zenon, <1>1, <1>7, Kinds DEF Creating, VMOf
    <3>2. \A d \in Call : Creating(d) /\ tgt[d] = v => pc[d] = "commit"
      BY Zenon, <1>0, <1>1 DEF VMInv, RecordLife, CreatesAlone, RunsOf
    <3>3. \A d \in Call : ~(Creating(d)' /\ tgt'[d] = v)
      BY Zenon, <1>10, <3>1, <3>2, Kinds
    <3> QED BY Zenon, <3>3 DEF CreatesAlone
  <2>4. DeleteHolds(v)'
    <3> SUFFICES ASSUME present'[v], rec'[v].state = "deleting"
                 PROVE \E c \in Call : opMu'[v] = c /\ tgt'[c] = v
                                       /\ pc'[c] \in {"deleting", "teardown", "forget"}
      BY Zenon DEF DeleteHolds
    <3>1. present[v] /\ rec[v].state = "deleting"
      BY Zenon, <1>2, <1>3, <1>9
    <3>2. DeleteHolds(v)
      BY Zenon, <1>1 DEF VMInv, RecordLife
    <3>3. PICK c \in Call : opMu[v] = c /\ tgt[c] = v /\ pc[c] \in {"deleting", "teardown", "forget"}
      BY Zenon, <3>1, <3>2 DEF DeleteHolds
    <3>4. opMu'[v] = c /\ tgt'[c] = v /\ pc'[c] = pc[c]
      BY Zenon, <1>1, <1>2, <1>7, <3>3, Kinds
    <3> QED BY Zenon, <3>3, <3>4
  <2>5. SavedOrGone(v)'
    BY Zenon, <1>3 DEF SavedOrGone
  <2> QED BY Zenon, <2>1, <2>2, <2>3, <2>4, <2>5 DEF RecordLife
<1>15. InstallerVouches(v)'
  <2>1. InstallSucceeded(r) => InstallerExited(v)
    BY Zenon, <1>0 DEF InstallSucceeded, InstallerExited, RunsOf
  <2>2. ClaimsInstalled(v)' => ClaimsInstalled(v) \/ InstallSucceeded(r)
    BY Zenon, <1>2, <1>3, <1>4, <1>5 DEF ClaimsInstalled
  <2> QED BY Zenon, <1>1, <1>2, <2>1, <2>2, VouchMove DEF VMInv
<1>16. StaysStopped(v)'
  BY Zenon, <1>3, <1>11 DEF StaysStopped
<1>17. Allows(disk[v], disk'[v])
  <2>1. disk[v] = rec[v]
    BY Zenon, <1>1, OnDisk DEF VMInv
  <2>2. ~InstallSucceeded(r) => x.installed = rec[v].installed
    BY Zenon, <1>1, <1>5 DEF TypeInv, EntryType, Record
  <2>3. CASE InstallSucceeded(r)
    BY Zenon, <1>3, <1>9, <2>1, <2>3 DEF Allows
  <2>4. CASE ~InstallSucceeded(r)
    BY Zenon, <1>3, <1>8, <1>9, <2>1, <2>2, <2>4 DEF Allows, Live
  <2> QED BY Zenon, <2>3, <2>4
<1>18. Kept(v)
  BY Zenon, <1>12, <1>13, <1>14, <1>15, <1>16, <1>17 DEF Kept, VMInv
<1> QED BY Zenon, <1>18

\* QEMU ends, or its end is settled: no thread moves and no record changes.
LEMMA RunMoveKept ==
  ASSUME LifeInv, NEW r \in Run, QEMUExits(r) \/ Settle(r) PROVE Kept(r[1])
<1> SUFFICES ASSUME NEW v, v = r[1] PROVE Kept(v)
  BY Zenon
<1>1. TypeInv /\ v \in VM /\ VMInv(v)
  BY Zenon, Kinds DEF LifeInv
<1>2. /\ svc' = svc /\ unloaded' = unloaded /\ present' = present /\ rec' = rec /\ disk' = disk
      /\ opMu' = opMu /\ proc' = proc /\ phase' = phase /\ done' = done
      /\ pc' = pc /\ op' = op /\ tgt' = tgt /\ arg' = arg
  BY Zenon DEF QEMUExits, Settle, svcVars, entryVars, threadVars
<1>3. /\ qemu[r] \in {"running", "ended"} /\ qemu'[r] # "unused"
      /\ \A q \in Run : q # r => qemu'[q] = qemu[q] /\ code'[q] = code[q]
  BY Zenon, <1>1 DEF QEMUExits, Settle, TypeInv, RunType
<1>4. \A u \in Thread : VMOf(u)' = VMOf(u) /\ PhaseOf(u)' = PhaseOf(u)
  BY Zenon, <1>2 DEF VMOf, PhaseOf
<1>5. \A c \in Call : Creating(c)' <=> Creating(c)
  BY Zenon, <1>2 DEF Creating
<1>6. Only(v)
  BY Zenon, <1>2, <1>3 DEF Only
<1>7. ProcessLife(v)'
  <2>1. NotLoaded(v)' /\ WaitsForOwn(v)' /\ CommitsFresh(v)' /\ TeardownIsQuiet(v)'
    BY Zenon, <1>1, <1>2, <1>4 DEF VMInv, ProcessLife, NotLoaded, WaitsForOwn, CommitsFresh, TeardownIsQuiet
  <2>2. DoneIsFinal(v)' /\ GuestsHaveRun(v)'
    BY Zenon, <1>1, <1>2, <1>3 DEF VMInv, ProcessLife, DoneIsFinal, GuestsHaveRun, RunsOf
  <2> QED BY Zenon, <2>1, <2>2 DEF ProcessLife
<1>8. RecordLife(v)'
  <2>1. StateFollows(v)' /\ DeleteHolds(v)'
    BY Zenon, <1>1, <1>2 DEF VMInv, RecordLife, StateFollows, DeleteHolds, RecordShape
  <2>2. BootsInstalled(v)'
    BY Zenon, <1>1, <1>2, <1>4 DEF VMInv, RecordLife, BootsInstalled
  <2>3. CreatesAlone(v)'
    BY Zenon, <1>1, <1>2, <1>3, <1>5 DEF VMInv, RecordLife, CreatesAlone, RunsOf
  <2>4. SavedOrGone(v)'
    BY Zenon, <1>1, <1>2, <1>3 DEF VMInv, RecordLife, SavedOrGone, RunsOf
  <2> QED BY Zenon, <2>1, <2>2, <2>3, <2>4 DEF RecordLife
<1>9. InstallerVouches(v)'
  <2>1. ClaimsInstalled(v)' => ClaimsInstalled(v)
    BY Zenon, <1>2 DEF ClaimsInstalled
  <2> QED BY Zenon, <1>1, <1>2, <1>3, <2>1, VouchMove DEF VMInv
<1>10. StaysStopped(v)'
  BY Zenon, <1>1, <1>2, <1>4 DEF VMInv, StaysStopped, closing
<1>11. Allows(disk[v], disk'[v])
  BY Zenon, <1>2 DEF Allows
<1> QED BY Zenon, <1>6, <1>7, <1>8, <1>9, <1>10, <1>11 DEF Kept, VMInv

-----------------------------------------------------------------------------
(* Load.                                                                   *)

\* Before Load comes to a VM no thread is at work on it.
LEMMA NobodyYet ==
  ASSUME LifeInv, NEW v \in VM, svc = "loading", v \in unloaded
  PROVE /\ TypeInv /\ LockInv /\ ProcInv /\ VMInv(v)
        /\ ~present[v] /\ rec[v] = NoRecord /\ disk[v] # NoRecord
        /\ proc[v] = NoRun /\ opMu[v] = Free
        /\ \A r \in Run : r[1] = v => ~done[r]
        /\ \A u \in Thread : pc[u] # "idle" => VMOf(u) # v
        /\ disk[v] \in Record /\ disk[v].state # "none" /\ RecordShape(disk[v])
<1>1. TypeInv /\ LockInv /\ ProcInv /\ VMInv(v)
  BY Zenon DEF LifeInv
<1>2. /\ ~present[v] /\ rec[v] = NoRecord /\ disk[v] # NoRecord
      /\ proc[v] = NoRun /\ opMu[v] = Free
      /\ \A r \in Run : r[1] = v => ~done[r]
      /\ \A c \in Call : pc[c] = "guest" => tgt[c] # v
  BY Zenon, <1>1 DEF VMInv, ProcessLife, NotLoaded, RunsOf
<1>3. \A u \in Thread : pc[u] # "idle" => VMOf(u) # v
  <2> SUFFICES ASSUME NEW u \in Thread, pc[u] # "idle", VMOf(u) = v PROVE FALSE
    BY Zenon
  <2>1. Loaded(v)
    BY Zenon, <1>1, ThreadLoaded DEF VMInv, ProcessLife
  <2> QED BY Zenon, <2>1 DEF Loaded
<1>4. disk[v] \in Record /\ disk[v].state # "none" /\ RecordShape(disk[v])
  BY Zenon, <1>1, <1>2 DEF TypeInv, EntryType, VMInv, RecordLife, StateFollows, RecordShape
<1> QED BY Zenon, <1>1, <1>2, <1>3, <1>4

\* What becomes of a record that Load does not find a process for.
LEMMA Settles ==
  ASSUME NEW v \in VM, disk[v] \in Record, disk[v].state # "none", RecordShape(disk[v]), NEW x,
         x = SettledRecord(v)
  PROVE /\ x.state \in {"stopped", "failed"} /\ x.installed = disk[v].installed
        /\ x.phase = disk[v].phase
        /\ Allows(disk[v], x)
<1>1. disk[v].state \in State
  BY Zenon DEF Record
<1>2. CASE disk[v].state \in {"creating", "deleting"}
  <2>1. x = [disk[v] EXCEPT !.state = "failed"]
    BY ZenonT(30), <1>2 DEF SettledRecord
  <2>2. x.state = "failed" /\ x.installed = disk[v].installed /\ x.phase = disk[v].phase
    BY Zenon, <2>1 DEF Record
  <2> QED BY Zenon, <1>2, <2>2 DEF Allows
<1>3. CASE disk[v].state \in Live
  <2>1. x = [disk[v] EXCEPT !.state = "stopped", !.handles = FALSE]
    BY Zenon, <1>3 DEF SettledRecord, Live
  <2>2. x.state = "stopped" /\ x.installed = disk[v].installed /\ x.phase = disk[v].phase
    BY Zenon, <2>1 DEF Record
  <2> QED BY Zenon, <1>3, <2>2 DEF Allows
<1>4. CASE disk[v].state \in {"stopped", "failed"}
  <2>1. x = disk[v]
    BY Zenon, <1>4 DEF SettledRecord, Live
  <2> QED BY Zenon, <1>4, <2>1 DEF Allows
<1> QED BY Zenon, <1>1, <1>2, <1>3, <1>4 DEF State, Live

\* A record without a process comes back stopped or failed.
LEMMA LoadSettledKept == ASSUME LifeInv, NEW v \in VM, LoadSettled(v) PROVE Kept(v)
<1> SUFFICES ASSUME NEW x, x = SettledRecord(v) PROVE Kept(v)
  BY Zenon
<1>0. svc = "loading" /\ v \in unloaded
  BY Zenon DEF LoadSettled
<1>1. /\ TypeInv /\ LockInv /\ VMInv(v) /\ proc[v] = NoRun
      /\ \A r \in Run : r[1] = v => ~done[r]
      /\ \A u \in Thread : pc[u] # "idle" => VMOf(u) # v
  BY Zenon, <1>0, NobodyYet
<1>2. /\ x.state \in {"stopped", "failed"} /\ x.installed = disk[v].installed
      /\ x.phase = disk[v].phase /\ Allows(disk[v], x)
  BY Zenon, <1>0, NobodyYet, Settles
<1>3. /\ svc' = svc /\ opMu' = opMu /\ proc' = proc /\ qemu' = qemu /\ code' = code
      /\ phase' = phase /\ done' = done /\ pc' = pc /\ op' = op /\ tgt' = tgt /\ arg' = arg
      /\ unloaded' = unloaded \ {v}
  BY Zenon DEF LoadSettled, threadVars
<1>4. /\ rec'[v] = x /\ disk'[v] = x /\ present'[v] = TRUE
      /\ \A w \in VM : w # v => rec'[w] = rec[w] /\ disk'[w] = disk[w] /\ present'[w] = present[w]
  BY Zenon, <1>1 DEF LoadSettled, Save, TypeInv, EntryType
<1>5. \A u \in Thread : VMOf(u)' = VMOf(u)
  BY Zenon, <1>3 DEF VMOf
<1>6. \A c \in Call : tgt'[c] = v => pc'[c] = "idle"
  BY Zenon, <1>1, <1>3, Kinds DEF VMOf
<1>7. \A u \in Thread : VMOf(u)' = v => pc'[u] = "idle"
  BY Zenon, <1>1, <1>3, <1>5
<1>8. Only(v)
  BY Zenon, <1>3, <1>4 DEF Only
<1>9. ProcessLife(v)'
  <2>1. NotLoaded(v)' /\ DoneIsFinal(v)'
    BY Zenon, <1>0, <1>1, <1>3 DEF NotLoaded, DoneIsFinal, RunsOf
  <2>2. WaitsForOwn(v)' /\ CommitsFresh(v)'
    BY Zenon, <1>7 DEF WaitsForOwn, CommitsFresh
  <2>3. TeardownIsQuiet(v)' /\ GuestsHaveRun(v)'
    BY Zenon, <1>6 DEF TeardownIsQuiet, GuestsHaveRun
  <2> QED BY Zenon, <2>1, <2>2, <2>3 DEF ProcessLife
<1>10. RecordLife(v)'
  <2>1. StateFollows(v)'
    BY Zenon, <1>1, <1>2, <1>3, <1>4 DEF StateFollows, RecordShape, Live
  <2>2. BootsInstalled(v)'
    <3>1. \A r \in Run : r[1] = v => pc'[r] = "idle"
      BY Zenon, <1>7, Kinds DEF VMOf
    <3> QED BY Zenon, <1>7, <3>1 DEF BootsInstalled, RunsOf
  <2>3. CreatesAlone(v)'
    BY Zenon, <1>6 DEF CreatesAlone, Creating
  <2>4. DeleteHolds(v)' /\ SavedOrGone(v)'
    BY Zenon, <1>2, <1>4 DEF DeleteHolds, SavedOrGone
  <2> QED BY Zenon, <2>1, <2>2, <2>3, <2>4 DEF RecordLife
<1>11. InstallerVouches(v)'
  <2>1. ClaimsInstalled(v)' => ClaimsInstalled(v)
    BY Zenon, <1>2, <1>3, <1>4 DEF ClaimsInstalled
  <2> QED BY Zenon, <1>1, <1>3, <2>1, VouchMove DEF VMInv
<1>12. StaysStopped(v)'
  BY Zenon, <1>0, <1>3 DEF StaysStopped, closing
<1>13. Allows(disk[v], disk'[v])
  BY Zenon, <1>2, <1>4
<1> QED BY Zenon, <1>8, <1>9, <1>10, <1>11, <1>12, <1>13 DEF Kept, VMInv

\* reattach: the record comes back as it was persisted, with its process.
LEMMA ReattachKept == ASSUME LifeInv, NEW v \in VM, NEW r \in Run, Reattach(v, r) PROVE Kept(v)
<1>0. /\ svc = "loading" /\ v \in unloaded /\ disk[v].state \in Live /\ disk[v].handles
      /\ r[1] = v /\ qemu[r] \in {"running", "ended"}
  BY Zenon DEF Reattach, Attachable, RunsOf
<1>1. /\ TypeInv /\ LockInv /\ VMInv(v) /\ RecordShape(disk[v])
      /\ r \in Thread /\ r \notin VM /\ r \notin Call /\ r # NoRun
      /\ \A q \in Run : q[1] = v => ~done[q]
      /\ \A u \in Thread : pc[u] # "idle" => VMOf(u) # v
  BY Zenon, <1>0, NobodyYet, Kinds
<1>2. /\ svc' = svc /\ opMu' = opMu /\ qemu' = qemu /\ code' = code /\ done' = done
      /\ unloaded' = unloaded \ {v}
  BY Zenon DEF Reattach
<1>3. /\ rec'[v] = disk[v] /\ disk'[v] = disk[v] /\ present'[v] = TRUE /\ proc'[v] = r
      /\ \A w \in VM : w # v => /\ rec'[w] = rec[w] /\ disk'[w] = disk[w]
                                /\ present'[w] = present[w] /\ proc'[w] = proc[w]
  BY Zenon, <1>1 DEF Reattach, Save, TypeInv, EntryType
<1>4. phase'[r] = disk[v].phase /\ \A q \in Run : q # r => phase'[q] = phase[q]
  BY Zenon, <1>1 DEF Reattach, TypeInv, RunType
<1>5. /\ pc'[r] = "select"
      /\ \A u \in Thread : u # r =>
           /\ pc'[u] = pc[u] /\ op'[u] = op[u] /\ tgt'[u] = tgt[u]
           /\ arg'[u] = arg[u] /\ VMOf(u)' = VMOf(u)
  <2>1. Moves(r, "select")
    BY Zenon, <1>1, GotoMoves DEF Reattach
  <2> QED BY Zenon, <1>1, <2>1, Others DEF Moves
<1>6. \A c \in Call : tgt'[c] = v => pc'[c] = "idle"
  BY Zenon, <1>1, <1>5, Kinds DEF VMOf
<1>7. \A u \in Thread : VMOf(u)' = v => u = r \/ pc'[u] = "idle"
  BY Zenon, <1>1, <1>5
<1>8. VMOf(r) = v /\ VMOf(r)' = v
  BY Zenon, <1>0, <1>1 DEF VMOf
<1>9. Only(v)
  <2>1. pc[r] = "idle"
    BY Zenon, <1>1, <1>8
  <2>2. \A u \in Thread :
          \/ pc'[u] = pc[u] /\ op'[u] = op[u] /\ tgt'[u] = tgt[u] /\ arg'[u] = arg[u]
          \/ (pc[u] = "idle" \/ VMOf(u) = v) /\ (pc'[u] = "idle" \/ VMOf(u)' = v)
    BY Zenon, <1>5, <1>8, <2>1
  <2> QED BY Zenon, <1>0, <1>2, <1>3, <1>4, <2>2 DEF Only
<1>10. ProcessLife(v)'
  <2>1. NotLoaded(v)' /\ DoneIsFinal(v)'
    BY Zenon, <1>0, <1>1, <1>2 DEF NotLoaded, DoneIsFinal, RunsOf
  <2>2. WaitsForOwn(v)' /\ CommitsFresh(v)'
    BY Zenon, <1>1, <1>5, <1>7 DEF WaitsForOwn, CommitsFresh
  <2>3. TeardownIsQuiet(v)' /\ GuestsHaveRun(v)'
    BY Zenon, <1>6 DEF TeardownIsQuiet, GuestsHaveRun
  <2> QED BY Zenon, <2>1, <2>2, <2>3 DEF ProcessLife
<1>11. RecordLife(v)'
  <2>1. StateFollows(v)'
    <3>1. ~(disk[v].state = "installing" /\ disk[v].installed) /\ disk[v].state # "none"
      BY Zenon, <1>0, <1>1 DEF RecordShape, Live
    <3>2. RecordShape(rec[v])' /\ RecordShape(disk[v])'
      BY Zenon, <1>1, <1>3 DEF RecordShape
    <3> QED BY Zenon, <1>0, <1>1, <1>3, <3>1, <3>2 DEF StateFollows
  <2>2. BootsInstalled(v)'
    <3>1. \A q \in Run : q[1] = v => pc'[q] # "boot"
      BY Zenon, <1>5, <1>7, Kinds DEF VMOf
    <3> QED BY Zenon, <1>5, <1>7, <3>1 DEF BootsInstalled, RunsOf
  <2>3. CreatesAlone(v)'
    BY Zenon, <1>6 DEF CreatesAlone, Creating
  <2>4. DeleteHolds(v)' /\ SavedOrGone(v)'
    BY Zenon, <1>0, <1>3 DEF DeleteHolds, SavedOrGone, Live
  <2> QED BY Zenon, <2>1, <2>2, <2>3, <2>4 DEF RecordLife
<1>12. InstallerVouches(v)'
  <2>1. ClaimsInstalled(v)' => ClaimsInstalled(v)
    BY Zenon, <1>3, <1>4 DEF ClaimsInstalled, RunsOf
  <2> QED BY Zenon, <1>0, <1>1, <1>2, <1>4, <2>1, VouchMove DEF VMInv
<1>13. StaysStopped(v)'
  BY Zenon, <1>0, <1>2 DEF StaysStopped, closing
<1>14. Allows(disk[v], disk'[v])
  BY Zenon, <1>3 DEF Allows
<1> QED BY Zenon, <1>9, <1>10, <1>11, <1>12, <1>13, <1>14 DEF Kept, VMInv

-----------------------------------------------------------------------------
(* The steps of the service as a whole.                                    *)

\* Load, Serve, Close, Cancel and Closed change no record and no process, and
\* the visits Close begins have done nothing yet.
LEMMA ServiceKept ==
  ASSUME LifeInv, Load \/ Serve \/ Close \/ Cancel \/ Closed, NEW v \in VM
  PROVE VMInv(v)' /\ disk' = disk
<1>1. TypeInv /\ LockInv /\ VMInv(v) /\ v \in Thread
  BY Zenon, Kinds DEF LifeInv
<1>2. /\ present' = present /\ rec' = rec /\ disk' = disk /\ opMu' = opMu /\ proc' = proc
      /\ qemu' = qemu /\ code' = code /\ phase' = phase /\ done' = done
      /\ op' = op /\ tgt' = tgt /\ arg' = arg
  BY Zenon DEF Load, Serve, Close, Cancel, Closed, entryVars, runVars, threadVars
<1>3. \A u \in Thread : pc'[u] = pc[u] \/ (u \in VM /\ pc'[u] = "visit")
  BY Zenon DEF Load, Serve, Close, Cancel, Closed, threadVars
<1>4. \A u \in Thread : VMOf(u)' = VMOf(u) /\ PhaseOf(u)' = PhaseOf(u)
  BY Zenon, <1>2 DEF VMOf, PhaseOf
<1>5. /\ \A r \in Run : pc'[r] = pc[r]
      /\ \A c \in Call : pc'[c] = pc[c] /\ (Creating(c)' <=> Creating(c))
  BY Zenon, <1>2, <1>3, Kinds DEF Creating
<1>6. svc' # "down" /\ (v \in unloaded' => svc' = "loading" /\ disk[v] # NoRecord)
  BY Zenon, <1>1 DEF Load, Serve, Close, Cancel, Closed, LockInv, LoadingIsQuiet, VMInv, ProcessLife, NotLoaded
<1>7. v \in unloaded' => svc = "down"
  BY Zenon, <1>1 DEF Load, Serve, Close, Cancel, Closed, LockInv, LoadingIsQuiet
<1>8. ProcessLife(v)'
  <2>1. NotLoaded(v)'
    BY Zenon, <1>1, <1>2, <1>5, <1>6, <1>7 DEF VMInv, ProcessLife, NotLoaded
  <2>2. DoneIsFinal(v)' /\ TeardownIsQuiet(v)' /\ GuestsHaveRun(v)'
    BY Zenon, <1>1, <1>2, <1>5 DEF VMInv, ProcessLife, DoneIsFinal, TeardownIsQuiet, GuestsHaveRun
  <2>3. WaitsForOwn(v)'
    BY Zenon, <1>1, <1>2, <1>3, <1>4 DEF VMInv, ProcessLife, WaitsForOwn
  <2>4. CommitsFresh(v)'
    BY Zenon, <1>1, <1>2, <1>3, <1>4, <1>5 DEF VMInv, ProcessLife, CommitsFresh, LockInv, StartsOwnRun
  <2> QED BY Zenon, <2>1, <2>2, <2>3, <2>4 DEF ProcessLife
<1>9. RecordLife(v)'
  <2>1. StateFollows(v)' /\ DeleteHolds(v)'
    BY Zenon, <1>1, <1>2, <1>5 DEF VMInv, RecordLife, StateFollows, DeleteHolds, RecordShape, RunsOf
  <2>2. BootsInstalled(v)'
    BY Zenon, <1>1, <1>2, <1>3, <1>4, <1>5 DEF VMInv, RecordLife, BootsInstalled, RunsOf
  <2>3. CreatesAlone(v)'
    BY Zenon, <1>1, <1>2, <1>5 DEF VMInv, RecordLife, CreatesAlone
  <2>4. SavedOrGone(v)'
    <3>1. CASE Load
      <4>1. v \notin unloaded' => disk[v] = NoRecord
        BY Zenon, <3>1 DEF Load
      <4>2. rec[v] = NoRecord
        BY Zenon, <1>1, <3>1 DEF Load, VMInv, ProcessLife, NotLoaded
      <4> QED BY Zenon, <1>2, <4>1, <4>2 DEF SavedOrGone
    <3>2. CASE ~Load
      <4>1. svc # "down" /\ unloaded' = unloaded
        BY Zenon, <3>2 DEF Serve, Close, Cancel, Closed
      <4> QED BY Zenon, <1>1, <1>2, <1>5, <4>1 DEF VMInv, RecordLife, SavedOrGone
    <3> QED BY Zenon, <3>1, <3>2
  <2> QED BY Zenon, <2>1, <2>2, <2>3, <2>4 DEF RecordLife
<1>10. InstallerVouches(v)'
  <2>1. ClaimsInstalled(v)' => ClaimsInstalled(v)
    BY Zenon, <1>2 DEF ClaimsInstalled
  <2> QED BY Zenon, <1>1, <1>2, <2>1, VouchMove DEF VMInv
<1>11. StaysStopped(v)'
  <2>1. CASE Load \/ Serve
    BY Zenon, <2>1 DEF StaysStopped, closing, Load, Serve
  <2>2. CASE Close
    <3>1. present[v] => pc'[v] = "visit"
      BY Zenon, <1>1, <2>2 DEF Close
    <3> QED BY Zenon, <1>2, <3>1 DEF StaysStopped
  <2>3. CASE Cancel \/ Closed
    <3>1. closing /\ pc' = pc
      BY Zenon, <2>3 DEF Cancel, Closed, closing, threadVars
    <3> QED BY Zenon, <1>1, <1>2, <1>4, <3>1 DEF VMInv, StaysStopped
  <2> QED BY Zenon, <2>1, <2>2, <2>3
<1> QED BY Zenon, <1>2, <1>8, <1>9, <1>10, <1>11 DEF VMInv

\* With the process of vm-manager goes all it held in memory.
LEMMA ProcessEndsKept ==
  ASSUME LifeInv, ProcessEnds, NEW v \in VM
  PROVE VMInv(v)' /\ disk' = disk
<1>1. VMInv(v) /\ v \in Thread
  BY Zenon, Kinds DEF LifeInv
<1>2. /\ svc' = "down" /\ unloaded' = {} /\ present'[v] = FALSE /\ rec'[v] = NoRecord
      /\ opMu'[v] = Free /\ proc'[v] = NoRun /\ disk' = disk /\ code' = code /\ phase' = phase
      /\ \A r \in Run : done'[r] = FALSE
      /\ \A t \in Thread : pc'[t] = "idle"
  BY Zenon DEF ProcessEnds
<1>3. \A r \in Run : qemu[r] = "released" => qemu'[r] = "released"
  BY Zenon DEF ProcessEnds
<1>4. NoRecord.state = "none" /\ NoRecord.installed = FALSE /\ NoRecord.phase = "none"
  BY Zenon DEF NoRecord
<1>5. (\A c \in Call : pc'[c] = "idle") /\ (\A r \in Run : pc'[r] = "idle")
  BY Zenon, <1>2, Kinds
<1>6. ProcessLife(v)'
  <2>1. NotLoaded(v)' /\ DoneIsFinal(v)'
    BY Zenon, <1>2, <1>5 DEF NotLoaded, DoneIsFinal, RunsOf
  <2>2. WaitsForOwn(v)' /\ CommitsFresh(v)' /\ TeardownIsQuiet(v)' /\ GuestsHaveRun(v)'
    BY Zenon, <1>2, <1>5 DEF WaitsForOwn, CommitsFresh, TeardownIsQuiet, GuestsHaveRun
  <2> QED BY Zenon, <2>1, <2>2 DEF ProcessLife
<1>7. RecordLife(v)'
  <2>1. StateFollows(v)'
    <3>1. RecordShape(disk[v])' /\ RecordShape(rec[v])'
      BY Zenon, <1>1, <1>2, <1>4 DEF VMInv, RecordLife, StateFollows, RecordShape
    <3> QED BY Zenon, <1>2, <1>4, <3>1 DEF StateFollows, Live
  <2>2. BootsInstalled(v)' /\ CreatesAlone(v)'
    BY Zenon, <1>2, <1>5 DEF BootsInstalled, CreatesAlone, Creating, RunsOf
  <2>3. DeleteHolds(v)' /\ SavedOrGone(v)'
    BY Zenon, <1>2 DEF DeleteHolds, SavedOrGone
  <2> QED BY Zenon, <2>1, <2>2, <2>3 DEF RecordLife
<1>8. InstallerVouches(v)'
  <2>1. ClaimsInstalled(v)' => ClaimsInstalled(v)
    BY Zenon, <1>2, <1>4 DEF ClaimsInstalled
  <2> QED BY Zenon, <1>1, <1>2, <1>3, <2>1, VouchMove DEF VMInv
<1>9. StaysStopped(v)'
  BY Zenon, <1>2 DEF StaysStopped, closing
<1> QED BY Zenon, <1>2, <1>6, <1>7, <1>8, <1>9 DEF VMInv

-----------------------------------------------------------------------------
(* The invariant.                                                          *)

\* A VM of an earlier vm-manager is installed and stopped; the others have no
\* record.
LEMMA LifeInit == Init => LifeInv
<1> SUFFICES ASSUME Init, NEW v \in VM PROVE VMInv(v)
  BY Zenon, TypeInit, LockInit, ProcInit DEF LifeInv
<1>1. /\ svc = "down" /\ unloaded = {} /\ present[v] = FALSE /\ rec[v] = NoRecord
      /\ opMu[v] = Free /\ proc[v] = NoRun
      /\ \A r \in Run : ~done[r] /\ phase[r] = "none"
      /\ \A t \in Thread : pc[t] = "idle"
  BY Zenon DEF Init
<1>2. NoRecord.state = "none" /\ NoRecord.installed = FALSE /\ NoRecord.phase = "none"
  BY Zenon DEF NoRecord
<1>3. /\ v \in Preexisting => disk[v].state = "stopped"
      /\ v \notin Preexisting => disk[v] = NoRecord
  BY Zenon DEF Init
<1>4. (\A c \in Call : pc[c] = "idle") /\ (\A r \in Run : pc[r] = "idle")
  BY Zenon, <1>1, Kinds
<1>5. ProcessLife(v)
  <2>1. NotLoaded(v) /\ DoneIsFinal(v)
    BY Zenon, <1>1, <1>4 DEF NotLoaded, DoneIsFinal, RunsOf
  <2>2. WaitsForOwn(v) /\ CommitsFresh(v) /\ TeardownIsQuiet(v) /\ GuestsHaveRun(v)
    BY Zenon, <1>1, <1>4 DEF WaitsForOwn, CommitsFresh, TeardownIsQuiet, GuestsHaveRun
  <2> QED BY Zenon, <2>1, <2>2 DEF ProcessLife
<1>6. RecordLife(v)
  <2>1. StateFollows(v)
    BY Zenon, <1>1, <1>2, <1>3 DEF StateFollows, RecordShape, Live
  <2>2. BootsInstalled(v) /\ CreatesAlone(v)
    BY Zenon, <1>1, <1>4 DEF BootsInstalled, CreatesAlone, Creating, RunsOf
  <2>3. DeleteHolds(v) /\ SavedOrGone(v)
    BY Zenon, <1>1 DEF DeleteHolds, SavedOrGone
  <2> QED BY Zenon, <2>1, <2>2, <2>3 DEF RecordLife
<1>7. InstallerVouches(v) /\ StaysStopped(v)
  BY Zenon, <1>1, <1>2, <1>3 DEF InstallerVouches, ClaimsInstalled, StaysStopped, closing, RunsOf
<1> QED BY Zenon, <1>5, <1>6, <1>7 DEF VMInv

\* A step of one VM keeps the invariant of all and is one of the contract.
LEMMA KeptStep ==
  ASSUME LifeInv, TypeInv', NEW v \in VM, Kept(v)
  PROVE (\A w \in VM : VMInv(w)') /\ [Contract!Next]_(Contract!cvars)
<1>1. \A w \in VM : VMInv(w)'
  BY Zenon, Elsewhere DEF LifeInv, Kept
<1>2. [Contract!Next]_(Contract!cvars)
  BY Zenon, ContractStep DEF LifeInv, Kept, Only
<1> QED BY Zenon, <1>1, <1>2

\* A step that changes no record on disk is invisible to the contract.
LEMMA SameContract == ASSUME disk' = disk PROVE [Contract!Next]_(Contract!cvars)
  BY Zenon DEF Contract!cvars

\* Every step keeps the records of all VMs and implements the contract.
LEMMA RecordStep ==
  ASSUME LifeInv, TypeInv', [Next]_vars
  PROVE (\A w \in VM : VMInv(w)') /\ [Contract!Next]_(Contract!cvars)
<1> DEFINE Goal == (\A w \in VM : VMInv(w)') /\ [Contract!Next]_(Contract!cvars)
<1>0. ASSUME NEW v \in VM, Kept(v) PROVE Goal
  BY Zenon, <1>0, KeptStep
<1>1. ASSUME NEW r \in Run, Kept(r[1]) PROVE Goal
  BY Zenon, <1>1, <1>0, Kinds
<1> SUFFICES Goal
  BY Zenon
<1> HIDE DEF Goal
<1>2. CASE Request
  BY Zenon, <1>2, <1>0, AllocateKept, GuestRequestKept, BeginKept DEF Request
<1>3. ASSUME NEW c \in Call, CallStep(c) PROVE Goal
  <2>1. \E v \in VM : Kept(v)
    BY Zenon, <1>3, LaunchKept, ProvisionKept, StartKept, DeleteKept, DeleteWaitsKept,
       TeardownKept, ForgetKept, onNonceKept DEF CallStep
  <2> QED BY Zenon, <2>1, <1>0
<1>4. ASSUME NEW t \in Thread, StartStep(t) \/ Commit(t) \/ Stop(t) \/ StopReturns(t)
      PROVE Goal
  <2>1. \E v \in VM : Kept(v)
    BY Zenon, <1>4, StartFailsKept, StartQEMUKept, CommitKept, StopKept, StopReturnsKept DEF StartStep
  <2> QED BY Zenon, <2>1, <1>0
<1>5. ASSUME NEW r \in Run, SupervisorStep(r) \/ QEMUExits(r) \/ Settle(r) PROVE Goal
  <2>1. Kept(r[1])
    BY Zenon, <1>5, SupervisorLeavesKept, onNotifyKept, onTimeoutKept, onExitKept, BootKept, RunMoveKept
       DEF SupervisorStep
  <2> QED BY Zenon, <2>1, <1>1
<1>6. CASE LoadStep
  BY Zenon, <1>6, <1>0, LoadSettledKept, ReattachKept DEF LoadStep
<1>7. CASE \E v \in VM : Visit(v)
  BY Zenon, <1>7, <1>0, VisitKept
<1>8. CASE Load \/ Serve \/ Close \/ Cancel \/ Closed
  <2>1. disk' = disk
    BY Zenon, <1>8 DEF Load, Serve, Close, Cancel, Closed, entryVars
  <2> QED BY Zenon, <1>8, <2>1, ServiceKept, SameContract DEF Goal
<1>9. CASE Exit \/ Crash
  <2>1. ProcessEnds /\ disk' = disk
    BY Zenon, <1>9 DEF Exit, Crash, ProcessEnds
  <2> QED BY Zenon, <2>1, ProcessEndsKept, SameContract DEF Goal
<1>10. CASE UNCHANGED vars
  <2>1. VM # {} => \E v \in VM : Kept(v)
    <3> SUFFICES ASSUME NEW v \in VM PROVE Kept(v)
      BY Zenon
    <3>1. UNCHANGED <<svc, unloaded, present, rec, disk, opMu, proc, qemu, code, phase, done,
                      pc, op, tgt, arg>>
      BY Zenon, <1>10 DEF vars, svcVars, entryVars, runVars, threadVars
    <3>2. VMInv(v)
      BY Zenon DEF LifeInv
    <3>3. \A u \in Thread : VMOf(u)' = VMOf(u) /\ PhaseOf(u)' = PhaseOf(u) /\ (Creating(u)' <=> Creating(u))
      BY Zenon, <3>1 DEF VMOf, PhaseOf, Creating
    <3>4. ProcessLife(v)'
      BY Zenon, <3>1, <3>2, <3>3 DEF VMInv, ProcessLife, NotLoaded, DoneIsFinal, WaitsForOwn,
         CommitsFresh, TeardownIsQuiet, GuestsHaveRun
    <3>5. RecordLife(v)'
      <4>1. StateFollows(v)' /\ DeleteHolds(v)' /\ SavedOrGone(v)'
        <5>1. StateFollows(v) /\ DeleteHolds(v) /\ SavedOrGone(v)
          BY Zenon, <3>2 DEF VMInv, RecordLife
        <5>2. StateFollows(v)'
          BY Zenon, <3>1, <5>1 DEF StateFollows, RecordShape
        <5>3. DeleteHolds(v)'
          BY Zenon, <3>1, <5>1 DEF DeleteHolds
        <5>4. SavedOrGone(v)'
          BY Zenon, <3>1, <5>1 DEF SavedOrGone
        <5> QED BY Zenon, <5>2, <5>3, <5>4
      <4>2. BootsInstalled(v)' /\ CreatesAlone(v)'
        BY Zenon, <3>1, <3>2, <3>3, Kinds DEF VMInv, RecordLife, BootsInstalled, CreatesAlone
      <4> QED BY Zenon, <4>1, <4>2 DEF RecordLife
    <3>6. InstallerVouches(v)' /\ StaysStopped(v)'
      BY Zenon, <3>1, <3>2, <3>3 DEF VMInv, InstallerVouches, ClaimsInstalled, InstallerExited,
         StaysStopped, closing
    <3> QED BY Zenon, <3>1, <3>4, <3>5, <3>6 DEF Kept, Only, Allows, VMInv
  <2>2. disk' = disk
    BY Zenon, <1>10 DEF vars, entryVars
  <2>3. VM = {} => Goal
    BY Zenon, <2>2, SameContract DEF Goal
  <2> QED BY Zenon, <2>1, <2>3, <1>0
<1> QED BY Zenon, <1>2, <1>3, <1>4, <1>5, <1>6, <1>7, <1>8, <1>9, <1>10 DEF Next

\* Every step keeps the whole invariant.
LEMMA LifeStep == LifeInv /\ [Next]_vars => LifeInv'
<1> SUFFICES ASSUME LifeInv, [Next]_vars PROVE LifeInv'
  BY Zenon
<1>1. TypeInv' /\ LockInv' /\ ProcInv'
  BY Zenon, TypeStep, LockStep, ProcStep DEF LifeInv
<1>2. \A w \in VM : VMInv(w)'
  BY Zenon, <1>1, RecordStep
<1> QED BY Zenon, <1>1, <1>2 DEF LifeInv

\* The inductive invariant that TLC checks on the instances holds for any
\* number of VMs, calls, runs and crashes.
THEOREM Inductive == Spec => []IInv
<1>1. LifeInv => IInv
  BY Zenon DEF LifeInv, TypeInv, ThreadInv, TypeOK, LockInv, ProcInv, VMInv, IInv
<1> QED BY LifeInit, LifeStep, <1>1, PTL DEF Spec

\* A record that says creating, stopped or failed has no process, and a live
\* one has one unless the installer has exited and the boot is on its way,
\* whatever Stop, Delete, supervisor, Close and restart race.
THEOREM StateTable == Spec => []StateMatchesProcess
<1>1. LifeInv => StateMatchesProcess
  <2> SUFFICES ASSUME LifeInv, NEW v \in VM
               PROVE /\ rec[v].state \in {"creating", "stopped", "failed"} => proc[v] = NoRun
                     /\ rec[v].state \in Live /\ proc[v] = NoRun =>
                           rec[v].state = "installing" /\ rec[v].installed
    BY Zenon DEF StateMatchesProcess
  <2>1. StateFollows(v)
    BY Zenon DEF LifeInv, VMInv, RecordLife
  <2> QED BY Zenon, <2>1 DEF StateFollows, Live
<1> QED BY LifeInit, LifeStep, <1>1, PTL DEF Spec

\* A VM between installer and boot has its supervisor on the way through boot,
\* and no boot runs from a disk without an installer that exited 0.
THEOREM HandoffNeverLost == Spec => []HandoffKept
<1>1. LifeInv => HandoffKept
  <2> SUFFICES ASSUME LifeInv PROVE HandoffKept
    BY Zenon
  <2>1. ASSUME NEW v \in VM, rec[v].state = "installing", rec[v].installed
        PROVE \E r \in RunsOf(v) : pc[r] \in {"boot", "start", "commit"}
    BY Zenon, <2>1 DEF LifeInv, VMInv, RecordLife, StateFollows
  <2>2. ASSUME NEW r \in Run, phase[r] = "boot", r[1] \notin Preexisting
        PROVE \E q \in RunsOf(r[1]) : phase[q] = "install" /\ code[q] = "zero"
    <3>1. r[1] \in VM /\ ClaimsInstalled(r[1])
      BY Zenon, <2>2, Kinds DEF ClaimsInstalled, RunsOf
    <3>2. InstallerExited(r[1])
      BY Zenon, <2>2, <3>1 DEF LifeInv, VMInv, InstallerVouches
    <3> QED BY Zenon, <3>2 DEF InstallerExited
  <2> QED BY Zenon, <2>1, <2>2 DEF HandoffKept
<1> QED BY LifeInit, LifeStep, <1>1, PTL DEF Spec

\* teardown takes lease, volume and directory only when, with the plain
\* launcher, no QEMU of the VM runs.
THEOREM TeardownWaits == Spec => []TeardownAfterExit
<1>1. LifeInv => TeardownAfterExit
  <2> SUFFICES ASSUME LifeInv, NEW c \in Call, pc[c] \in {"teardown", "forget"}, ~Systemd,
                      NEW r \in Run, r[1] = tgt[c], qemu[r] = "running"
               PROVE FALSE
    BY Zenon DEF TeardownAfterExit, Running, RunsOf
  <2>1. /\ TypeInv /\ LockInv /\ ProcInv /\ c \in Thread /\ c \notin Run
        /\ VMOf(c) = tgt[c] /\ tgt[c] \in VM /\ VMInv(tgt[c])
    BY Zenon, AtWork
  <2>2. proc[tgt[c]] = NoRun
    BY Zenon, <2>1 DEF VMInv, ProcessLife, TeardownIsQuiet
  <2>3. PICK t \in Thread : pc[t] = "commit" /\ arg[t] = r
    BY Zenon, <2>1, <2>2, Kinds DEF ProcInv, Tracked
  <2>4. VMOf(t) = tgt[c]
    BY Zenon, <2>1, <2>3 DEF LockInv, StartsOwnRun
  <2> QED BY Zenon, <2>1, <2>3, <2>4, Exclusion DEF HoldsOpMu
<1> QED BY LifeInit, LifeStep, <1>1, PTL DEF Spec

\* An installed VM that stopAll has visited has no process and gets none.
THEOREM ClosedForGood == Spec => []ClosedStaysStopped
<1>1. LifeInv => ClosedStaysStopped
  BY Zenon DEF LifeInv, VMInv, StaysStopped, ClosedStaysStopped
<1> QED BY LifeInit, LifeStep, <1>1, PTL DEF Spec

\* vm.json follows the contract of VMContract: the transition table of the
\* package, through every interleaving, shutdown, crash and restart.
THEOREM ImplementsContract == Spec => RecordContract
<1>1. Init => Contract!Init
  <2> SUFFICES ASSUME Init PROVE Contract!Init
    BY Zenon
  <2>1. \A v \in VM : /\ disk[v].state \in {"none", "stopped"}
                      /\ disk[v].installed = (disk[v].state = "stopped")
    BY Zenon DEF Init, NoRecord
  <2> QED BY Zenon, <2>1 DEF Contract!Init
<1>2. LifeInv /\ [Next]_vars => [Contract!Next]_(Contract!cvars)
  <2> SUFFICES ASSUME LifeInv, [Next]_vars PROVE [Contract!Next]_(Contract!cvars)
    BY Zenon
  <2>1. TypeInv'
    BY Zenon, TypeStep DEF LifeInv
  <2> QED BY Zenon, <2>1, RecordStep
<1> QED BY LifeInit, LifeStep, <1>1, <1>2, PTL DEF Spec, RecordContract, Contract!Spec
=============================================================================
