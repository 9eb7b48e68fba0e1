--------------------------- MODULE MCAttestation ---------------------------
(***************************************************************************)
(* Attestation and Quotes for TLC: the protocol with interchangeable       *)
(* agents, handlers and keys, and what the quotes say.  The two share no   *)
(* state, so a behaviour is one of either.                                 *)
(***************************************************************************)
EXTENDS Attestation, Quotes, TLC

VARIABLE side   \* the module whose steps this behaviour takes

Symmetry == Permutations(Agent) \cup Permutations(Handler) \cup Permutations(Key)

\* What Quotes chooses initially is fixed for a behaviour of Attestation.
AttestInit ==
    /\ side \in {"protocol", "quotes"} /\ Init /\ QuotesInit
    /\ side = "protocol" =>
         /\ ~server.learn
         /\ \A v \in Node : handle[v] = NoKey /\ version[v] = CHOOSE k \in Kubernetes : TRUE

AttestNext ==
    /\ UNCHANGED side
    /\ \/ side = "protocol" /\ Next /\ UNCHANGED quoteVars
       \/ side = "quotes" /\ QuotesNext /\ UNCHANGED vars

AttestSpec == AttestInit /\ [][AttestNext]_<<side, vars, quoteVars>>
==============================================================================
