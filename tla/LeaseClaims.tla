---------------------------- MODULE LeaseClaims -----------------------------
(***************************************************************************)
(* Networks for TLC, and a statement of the repository about leases.       *)
(***************************************************************************)
EXTENDS Networks, TLC

Symmetry == Permutations(Caller) \cup Permutations(VM)

\* vm/doc.go: "Networks are recreated from networks.json, so leases and MACs
\* survive restarts": a VM that was reattached holds the address its QEMU has.
LeasesSurvive ==
    \A v \in VM :
        svc = "serving" /\ present[v] /\ rec[v].state = "live" /\ guest[v] # NoGuest =>
            LET n == guest[v].net IN
            nets[n] # NoGen /\ leases[n][nets[n]][v] = guest[v].ip
=============================================================================
