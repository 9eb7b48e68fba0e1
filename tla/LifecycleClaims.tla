--------------------------- MODULE LifecycleClaims ---------------------------
(***************************************************************************)
(* What the comments of internal/vm say of the lifecycle and the code does *)
(* not do in every interleaving.  Each claim is stated as the comment has  *)
(* it; TLC's counterexample is the behaviour of the code.                  *)
(***************************************************************************)
EXTENDS MCLifecycle

\* internal/vm/doc.go:44: "once Close or Delete has begun for a VM, no process
\* is started for it" (Delete's half).  launch takes opMu after Delete has
\* released it and never looks at the record.
NoStartAfterDelete ==
    \A t \in Thread : pc[t] = "commit" => rec[VMOf(t)].state # "deleting"
==============================================================================
