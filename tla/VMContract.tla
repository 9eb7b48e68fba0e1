----------------------------- MODULE VMContract -----------------------------
(***************************************************************************)
(* What a reader of vms/<id>/vm.json may rely on: the transition table of  *)
(* internal/vm/doc.go on the persisted state and on InstalledAt, with the  *)
(* transitions the code makes beyond that table kept apart at the end.     *)
(* VMLifecycle implements it whatever calls race and whenever vm-manager   *)
(* goes down, because the record on disk is the abstract state.            *)
(***************************************************************************)
CONSTANT VM

VARIABLES
    state,      \* the record's state, "none" when there is no record
    installed   \* InstalledAt is set

cvars == <<state, installed>>

Live == {"installing", "booting", "attesting", "ready", "running"}

Init ==
    /\ state \in [VM -> {"none", "stopped"}]
    /\ installed = [v \in VM |-> state[v] = "stopped"]

Move(v, s) ==
    /\ state' = [state EXCEPT ![v] = s]
    /\ UNCHANGED installed

Create(v) == state[v] = "none" /\ ~installed[v] /\ Move(v, "creating")

Install(v) == state[v] = "creating" /\ Move(v, "installing")

\* The installer exited 0: the only way a disk becomes installed.
Installed(v) ==
    /\ state[v] = "installing"
    /\ installed' = [installed EXCEPT ![v] = TRUE]
    /\ UNCHANGED state

\* Phase B needs an installed disk and no process: it comes up, or it fails.
Boot(v) ==
    /\ state[v] \in {"installing", "stopped", "failed"} /\ installed[v]
    /\ Move(v, "booting") \/ Move(v, "failed")

Attest(v) == state[v] = "booting" /\ Move(v, "attesting")

Ready(v) == state[v] \in {"booting", "attesting", "running"} /\ Move(v, "ready")

Slow(v) == state[v] \in {"booting", "attesting"} /\ Move(v, "running")

Stop(v) == state[v] \in Live /\ Move(v, "stopping")

\* The process ended by itself, or is gone when vm-manager comes back.
Ended(v) == state[v] \in Live /\ (Move(v, "stopped") \/ Move(v, "failed"))

\* A stop that was accepted ends in stopped, never back in a live state.
Stopped(v) == state[v] = "stopping" /\ Move(v, "stopped")

Delete(v) == state[v] # "none" /\ Move(v, "deleting")

\* The record goes with Delete, or with a Create that failed.
Gone(v) ==
    /\ state[v] \in {"creating", "deleting"}
    /\ state' = [state EXCEPT ![v] = "none"]
    /\ installed' = [installed EXCEPT ![v] = FALSE]

\* vm-manager restarted in the middle of a Create or a Delete.
Interrupted(v) == state[v] \in {"creating", "deleting"} /\ Move(v, "failed")

\* Not in the table: a save after Delete's RemoveAll brings the record back
\* (onNonce), and a Create overtaken by Delete installs it
\* (NoStartAfterDelete).
Reappear(v) ==
    /\ state[v] = "none"
    /\ state' = [state EXCEPT ![v] = "deleting"]
    /\ \E b \in BOOLEAN : installed' = [installed EXCEPT ![v] = b]

Overtaken(v) == state[v] = "deleting" /\ ~installed[v] /\ Move(v, "installing")

Next ==
    \E v \in VM :
        \/ Create(v) \/ Install(v) \/ Installed(v) \/ Boot(v)
        \/ Attest(v) \/ Ready(v) \/ Slow(v)
        \/ Stop(v) \/ Ended(v) \/ Stopped(v)
        \/ Delete(v) \/ Gone(v) \/ Interrupted(v)
        \/ Reappear(v) \/ Overtaken(v)

Spec == Init /\ [][Next]_cvars
=============================================================================
