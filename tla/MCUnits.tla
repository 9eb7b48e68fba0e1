------------------------------ MODULE MCUnits -------------------------------
(***************************************************************************)
(* Units for TLC, and a statement of the launcher about itself.            *)
(***************************************************************************)
EXTENDS Units

\* SystemdExec: "release unloads the unit after its process ended": the release
\* at the end of settle ends no process.
ReleaseEndsNothing ==
    [][\A r \in Role, n \in Run : SettleRelease(r, n) => os' = os]_vars
=============================================================================
