----------------------------- MODULE MCNetworks -----------------------------
(***************************************************************************)
(* Networks and Metadata for TLC: the two views of addresses share no      *)
(* state, so a behaviour is one of either.                                 *)
(***************************************************************************)
EXTENDS Networks, Metadata, TLC

VARIABLE view   \* the module whose steps this behaviour takes

Symmetry == Permutations(Caller) \cup Permutations(VM)

AddressesInit == view \in {"leases", "metadata"} /\ Init /\ MetadataInit

AddressesNext ==
    /\ UNCHANGED view
    /\ \/ view = "leases" /\ Next /\ UNCHANGED metadataVars
       \/ view = "metadata" /\ MetadataNext /\ UNCHANGED vars

AddressesSpec == AddressesInit /\ [][AddressesNext]_<<view, vars, metadataVars>>
=============================================================================
