---------------------------- MODULE Attestation ----------------------------
(***************************************************************************)
(* Attestation of one VM: the agent in the guest (internal/agent), the     *)
(* metadata handlers (internal/imds), the verifier (internal/attest) with  *)
(* its nonces, and the recording of verdicts in the VM record              *)
(* (internal/vm/imds.go), which gates /user-data.                          *)
(*                                                                         *)
(* A handler takes the nonce store's lock, the verifier's lock and s.mu    *)
(* one after the other; each hold is one step, so that boots, stops,       *)
(* retries, other handlers and a restart of vm-manager fall between them.  *)
(* The TPM's cryptography is one bit of a quote: good.                     *)
(***************************************************************************)
EXTENDS Naturals

CONSTANTS
    Agent,               \* runs of vm-agent in the guest
    Handler,             \* metadata requests the server works on at once
    Key,                 \* attestation keys
    None,                \* no key, no nonce, no handler
    MaxBoots,            \* bound: installed boots
    MaxNonces,           \* bound: nonces issued
    MaxRestarts,         \* bound: restarts of vm-manager
    RequireAttestation   \* Spec.RequireAttestation

ASSUME BoundsAssumption ==
    MaxBoots \in Nat /\ MaxNonces \in Nat /\ MaxRestarts \in Nat

ASSUME OptionsAssumption == RequireAttestation \in BOOLEAN

ASSUME NoneAssumption == None \notin Key \cup Handler \cup (1..MaxNonces)

VARIABLES
    boot,       \* installed boots so far
    state,      \* VM.State, as far as attestation looks at it
    att,        \* VM.Attestation
    lastError,  \* VM.LastError: what it complains of, and the vTPM note
    vtpm,       \* the console of this run shows a vTPM failure
    nonces,     \* nonce.Store: outstanding nonces of the VM
    issued,     \* nonces issued so far
    pin,        \* vmState.ak
    results,    \* vmState.results: whose details they are
    agent,      \* the agent runs
    handler,    \* the handlers
    restarts,   \* restarts of vm-manager
    accepted    \* history: the verified quotes that were recorded

recordVars == <<boot, state, att, lastError, vtpm>>
verifierVars == <<nonces, issued, pin, results>>
vars == <<recordVars, verifierVars, agent, handler, restarts, accepted>>

Stage == {"initrd", "ready"}
Up == {"booting", "attesting", "running", "ready"}
Nonce == 1..MaxNonces
NoError == [what |-> "none", vtpm |-> FALSE]
IdleAgent == [pc |-> "idle", stage |-> "initrd", nonce |-> None, key |-> None,
              good |-> FALSE, waits |-> None, outcome |-> "none"]
IdleHandler == [pc |-> "idle", from |-> 0, stage |-> "initrd", nonce |-> None,
                key |-> None, good |-> FALSE, verdict |-> "none"]

\* Attestation at the start of an installed boot.
FreshAttestation ==
    [released |-> ~RequireAttestation, nonceIssued |-> FALSE,
     initrd |-> "none", ready |-> "none"]

Init ==
    /\ boot = 0 /\ state = "stopped"
    /\ att = FreshAttestation /\ lastError = NoError /\ vtpm = FALSE
    /\ nonces = {} /\ issued = 0 /\ pin = None
    /\ results = [s \in Stage |-> None]
    /\ agent = [a \in Agent |-> IdleAgent]
    /\ handler = [h \in Handler |-> IdleHandler]
    /\ restarts = 0 /\ accepted = {}

-----------------------------------------------------------------------------
(* The life of the VM.                                                     *)

\* startBoot resets Attestation, LastError and the run's console.
StartBoot ==
    /\ state = "stopped" /\ boot < MaxBoots
    /\ boot' = boot + 1 /\ state' = "booting"
    /\ att' = FreshAttestation /\ lastError' = NoError /\ vtpm' = FALSE
    /\ UNCHANGED <<verifierVars, agent, handler, restarts, accepted>>

\* The process is gone, and the agents with it; handlers are not.
Stop ==
    /\ state \in Up
    /\ state' = "stopped"
    /\ agent' = [a \in Agent |-> IdleAgent]
    /\ UNCHANGED <<boot, att, lastError, vtpm, verifierVars, handler, restarts, accepted>>

\* Delete: the entry is gone, and Forget drops what the verifier holds.
Delete ==
    /\ state \in Up \cup {"stopped"}
    /\ state' = "deleted"
    /\ agent' = [a \in Agent |-> IdleAgent]
    /\ nonces' = {} /\ pin' = None /\ results' = [s \in Stage |-> None]
    /\ UNCHANGED <<boot, att, lastError, vtpm, issued, handler, restarts, accepted>>

\* The firmware or kernel logs that the vTPM stopped answering.
VTPMFails ==
    /\ state \in Up /\ ~vtpm
    /\ vtpm' = TRUE
    /\ UNCHANGED <<boot, state, att, lastError, verifierVars, agent, handler,
                   restarts, accepted>>

\* attestationError: the first rejected quote of the boot.
AttestationError(a) ==
    IF a.initrd = "rejected" THEN [what |-> "initrd", vtpm |-> vtpm]
    ELSE IF a.ready = "rejected" THEN [what |-> "ready", vtpm |-> vtpm]
    ELSE NoError

\* Mutant: READY=1 clears LastError.
ReadyErrorCleared(a) == NoError

ReadyError(a) == AttestationError(a)

\* onNotify, READY=1.
Ready ==
    /\ state \in {"booting", "attesting", "running"}
    /\ state' = "ready"
    /\ lastError' = ReadyError(att)
    /\ UNCHANGED <<boot, att, vtpm, verifierVars, agent, handler, restarts, accepted>>

\* onTimeout of an installed boot.
BootTimeout ==
    /\ state \in {"booting", "attesting"}
    /\ state' = "running"
    /\ lastError' = [what |-> "timeout", vtpm |-> vtpm]
    /\ UNCHANGED <<boot, att, vtpm, verifierVars, agent, handler, restarts, accepted>>

\* vm-manager restarts and reattaches: the record survives, the verifier's
\* memory and the requests in work do not.
Restart ==
    /\ restarts < MaxRestarts
    /\ restarts' = restarts + 1
    /\ nonces' = {} /\ pin' = None /\ results' = [s \in Stage |-> None]
    /\ handler' = [h \in Handler |-> IdleHandler]
    /\ agent' = [a \in Agent |-> [agent[a] EXCEPT !.waits = None]]
    /\ UNCHANGED <<recordVars, issued, accepted>>

-----------------------------------------------------------------------------
(* The agent.                                                              *)

Idle(h) == handler[h].pc = "idle"

\* A request reaches the server: LookupByIP knows the VM unless it is deleted.
Receive(h, new) ==
    /\ Idle(h) /\ state \in Up
    /\ handler' = [handler EXCEPT ![h] = new]

\* Attest begins and asks for a nonce.
Attest(a, s, h) ==
    /\ agent[a].pc = "idle" /\ state \in Up
    /\ Receive(h, [IdleHandler EXCEPT !.pc = "issue", !.from = boot])
    /\ agent' = [agent EXCEPT ![a] = [IdleAgent EXCEPT !.pc = "fetch", !.stage = s,
                                                       !.waits = h]]
    /\ UNCHANGED <<recordVars, verifierVars, restarts, accepted>>

\* The quote is built over the nonce and posted.
PostQuote(a, h) ==
    /\ agent[a].pc = "post" /\ agent[a].waits = None
    /\ Receive(h, [pc |-> "consume", from |-> boot, stage |-> agent[a].stage,
                   nonce |-> agent[a].nonce, key |-> agent[a].key,
                   good |-> agent[a].good, verdict |-> "none"])
    /\ agent' = [agent EXCEPT ![a].waits = h]
    /\ UNCHANGED <<recordVars, verifierVars, restarts, accepted>>

\* do: the transport failed, the same request is sent again; what the server
\* made of the first one is not known.
Retry(a) ==
    /\ agent[a].pc \in {"fetch", "post"} /\ agent[a].waits # None
    /\ agent' = [agent EXCEPT ![a].waits = None]
    /\ UNCHANGED <<recordVars, verifierVars, handler, restarts, accepted>>

RetryNonce(a, h) ==
    /\ agent[a].pc = "fetch" /\ agent[a].waits = None
    /\ Receive(h, [IdleHandler EXCEPT !.pc = "issue", !.from = boot])
    /\ agent' = [agent EXCEPT ![a].waits = h]
    /\ UNCHANGED <<recordVars, verifierVars, restarts, accepted>>

-----------------------------------------------------------------------------
(* The handlers of /attest/nonce and /attest/quote.                        *)

Step(h, label) == handler' = [handler EXCEPT ![h].pc = label]

\* Store.Issue; Expire stands for the cap and the TTL.
Issue(h) ==
    /\ handler[h].pc = "issue" /\ issued < MaxNonces
    /\ issued' = issued + 1
    /\ nonces' = nonces \cup {issued + 1}
    /\ handler' = [handler EXCEPT ![h].pc = "onNonce", ![h].nonce = issued + 1]
    /\ UNCHANGED <<recordVars, pin, results, agent, restarts, accepted>>

Expire(n) ==
    /\ n \in nonces
    /\ nonces' = nonces \ {n}
    /\ UNCHANGED <<recordVars, issued, pin, results, agent, handler, restarts, accepted>>

\* onNonce, and the answer to whoever still waits for it.
onNonce(h) ==
    /\ handler[h].pc = "onNonce"
    /\ IF state = "deleted"
       THEN UNCHANGED <<att, state>>
       ELSE /\ att' = [att EXCEPT !.nonceIssued = TRUE]
            /\ state' = IF RequireAttestation /\ state = "booting"
                        THEN "attesting" ELSE state
    /\ \E k \in Key, g \in BOOLEAN :
         agent' = [a \in Agent |->
                     IF agent[a].waits = h
                     THEN [agent[a] EXCEPT !.pc = "post", !.waits = None, !.key = k,
                                           !.nonce = handler[h].nonce, !.good = g]
                     ELSE agent[a]]
    /\ handler' = [handler EXCEPT ![h] = IdleHandler]
    /\ UNCHANGED <<boot, lastError, vtpm, verifierVars, restarts, accepted>>

\* reject: the result is stored and the handler goes on to record it.
Reject(h) ==
    /\ results' = [results EXCEPT ![handler[h].stage] = h]
    /\ handler' = [handler EXCEPT ![h].pc = "result", ![h].verdict = "rejected"]

\* Mutant: a nonce stays in the store.
NoncesKept(n) == nonces

NoncesAfter(n) == nonces \ {n}

\* Store.Consume.
Consume(h) ==
    /\ handler[h].pc = "consume"
    /\ nonces' = NoncesAfter(handler[h].nonce)
    /\ IF handler[h].nonce \in nonces
       THEN Step(h, "judge") /\ UNCHANGED results
       ELSE Reject(h)
    /\ UNCHANGED <<recordVars, issued, pin, agent, restarts, accepted>>

\* Policy, quote, PCRs and, under the verifier's lock, the pinned key.  A VM
\* that is gone has no policy: an error, and nothing is recorded.
Judge(h) ==
    /\ handler[h].pc = "judge"
    /\ \/ /\ state = "deleted"
          /\ handler' = [handler EXCEPT ![h] = IdleHandler]
          /\ agent' = [a \in Agent |-> IF agent[a].waits = h THEN IdleAgent ELSE agent[a]]
          /\ UNCHANGED results
       \/ /\ state # "deleted"
          /\ IF handler[h].good /\ pin \in {None, handler[h].key}
             THEN Step(h, "enroll") /\ UNCHANGED results
             ELSE Reject(h)
          /\ UNCHANGED agent
    /\ UNCHANGED <<recordVars, nonces, issued, pin, restarts, accepted>>

\* Mutant: enroll trusts the earlier look at the pin.
EnrollsUnchecked(s, k) == pin # None \/ s = "initrd"

Enrolls(s, k) == IF pin = None THEN s = "initrd" ELSE pin = k

\* enroll: the pin once more, under the lock that sets it.
Enroll(h) ==
    LET s == handler[h].stage
        k == handler[h].key IN
    /\ handler[h].pc = "enroll"
    /\ IF Enrolls(s, k)
       THEN /\ pin' = IF pin = None THEN k ELSE pin
            /\ handler' = [handler EXCEPT ![h].pc = "store", ![h].verdict = "verified"]
            /\ UNCHANGED results
       ELSE Reject(h) /\ UNCHANGED pin
    /\ UNCHANGED <<recordVars, nonces, issued, agent, restarts, accepted>>

Store(h) ==
    /\ handler[h].pc = "store"
    /\ results' = [results EXCEPT ![handler[h].stage] = h]
    /\ Step(h, "result")
    /\ UNCHANGED <<recordVars, nonces, issued, pin, agent, restarts, accepted>>

\* Mutant: every verified quote releases user-data.
ReleasesAnyStage(s, verdict) == verdict = "verified"

ReleasesUserData(s, verdict) == verdict = "verified" /\ s = "initrd"

\* recordQuote with the verdict of this quote and the details of the last
\* result of the stage, which has served once it is recorded; then the answer.
recordQuote(h) ==
    LET s == handler[h].stage
        verdict == handler[h].verdict
        new == [att EXCEPT !.initrd = IF s = "initrd" THEN verdict ELSE @,
                           !.ready = IF s = "ready" THEN verdict ELSE @,
                           !.released = @ \/ ReleasesUserData(s, verdict)]
        prev == AttestationError(att) IN
    /\ handler[h].pc = "result"
    /\ IF state = "deleted"
       THEN UNCHANGED <<att, lastError, accepted>>
       ELSE /\ att' = new
            /\ lastError' = IF verdict = "rejected" \/ lastError = prev
                            THEN AttestationError(new) ELSE lastError
            /\ accepted' = IF verdict = "verified"
                           THEN accepted \cup {[from |-> handler[h].from, into |-> boot,
                                                stage |-> s, nonce |-> handler[h].nonce,
                                                key |-> handler[h].key, run |-> restarts]}
                           ELSE accepted
    /\ agent' = [a \in Agent |->
                   IF agent[a].waits = h
                   THEN [agent[a] EXCEPT !.pc = "done", !.waits = None, !.outcome = verdict]
                   ELSE agent[a]]
    /\ handler' = [handler EXCEPT ![h] = IdleHandler]
    /\ results' = [results EXCEPT ![s] = IF @ = h THEN None ELSE @]
    /\ UNCHANGED <<boot, state, vtpm, nonces, issued, pin, restarts>>

-----------------------------------------------------------------------------
Next ==
    \/ StartBoot \/ Stop \/ Delete \/ VTPMFails \/ Ready \/ BootTimeout \/ Restart
    \/ \E a \in Agent, h \in Handler :
         \/ \E s \in Stage : Attest(a, s, h)
         \/ PostQuote(a, h) \/ RetryNonce(a, h)
    \/ \E a \in Agent : Retry(a)
    \/ \E n \in Nonce : Expire(n)
    \/ \E h \in Handler :
         \/ Issue(h) \/ onNonce(h)
         \/ Consume(h) \/ Judge(h) \/ Enroll(h) \/ Store(h) \/ recordQuote(h)

Spec == Init /\ [][Next]_vars

-----------------------------------------------------------------------------
(* Properties.                                                             *)

\* User-data of a VM that must attest is released in a boot only by a verified
\* initrd quote recorded during that boot, through stops, starts and restarts.
UserDataGated ==
    RequireAttestation /\ att.released =>
        \E q \in accepted : q.into = boot /\ q.stage = "initrd"

\* However requests are retried and interleaved, one nonce verifies one quote.
NonceSingleUse ==
    \A p, q \in accepted : p.nonce = q.nonce => p = q

\* Between two restarts all verified quotes of the VM are signed by one key,
\* even when two first quotes are judged at the same time.
OneKey ==
    \A p, q \in accepted : p.run = q.run => p.key = q.key

\* A ready VM with a rejected quote says so in LastError: neither READY=1 nor
\* a later verdict of the other stage hides it.
RejectionShown ==
    state = "ready" /\ "rejected" \in {att.initrd, att.ready} =>
        lastError.what \in Stage
=============================================================================
