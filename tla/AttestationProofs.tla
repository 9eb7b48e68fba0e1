-------------------------- MODULE AttestationProofs --------------------------
(***************************************************************************)
(* Attestation and Quotes for every number of agents, handlers, keys,      *)
(* nonces, boots and restarts: what gates /user-data, that a nonce is good *)
(* for one quote and a key for one run of vm-manager, that a rejection     *)
(* stays visible, and what a verified quote and the golden values say.     *)
(***************************************************************************)
EXTENDS Attestation, Quotes, TLAPS

-----------------------------------------------------------------------------
(* Attestation: types.                                                     *)

Verdict == {"none", "verified", "rejected"}

HandlerPC == {"idle", "issue", "onNonce", "consume", "judge", "enroll", "store", "result"}

HandlerRecord ==
  [pc : HandlerPC, from : Nat, stage : Stage, nonce : Nonce \cup {None},
   key : Key \cup {None}, good : BOOLEAN, verdict : Verdict]

AgentRecord ==
  [pc : {"idle", "fetch", "post", "done"}, stage : Stage, nonce : Nonce \cup {None},
   key : Key \cup {None}, good : BOOLEAN, waits : Handler \cup {None},
   outcome : Verdict]

AttestationRecord ==
  [released : BOOLEAN, nonceIssued : BOOLEAN, initrd : Verdict, ready : Verdict]

ErrorRecord == [what : {"none", "initrd", "ready", "timeout"}, vtpm : BOOLEAN]

AcceptedQuote ==
  [from : Nat, into : Nat, stage : Stage, nonce : Nonce \cup {None}, key : Key \cup {None}, run : Nat]

AttestType ==
  /\ boot \in Nat /\ state \in Up \cup {"stopped", "deleted"}
  /\ att \in AttestationRecord
  /\ lastError \in ErrorRecord
  /\ vtpm \in BOOLEAN
  /\ nonces \subseteq Nonce /\ issued \in Nat /\ pin \in Key \cup {None}
  /\ results \in [Stage -> Handler \cup {None}]
  /\ agent \in [Agent -> AgentRecord]
  /\ handler \in [Handler -> HandlerRecord]
  /\ restarts \in Nat /\ accepted \subseteq AcceptedQuote

-----------------------------------------------------------------------------
(* What a handler has in its hands.                                        *)

\* A quote between the nonce store and the record that is not rejected.
InHand(h) ==
  \/ handler[h].pc \in {"judge", "enroll", "store"}
  \/ handler[h].pc = "result" /\ handler[h].verdict = "verified"

\* A nonce that was taken from the store is in the hands of one handler or
\* accepted once.
NonceInv ==
  /\ \A n \in nonces : n <= issued
  /\ \A h \in Handler : InHand(h) =>
       /\ handler[h].nonce \in Nonce /\ handler[h].nonce <= issued
       /\ handler[h].nonce \notin nonces
       /\ \A p \in accepted : p.nonce # handler[h].nonce
       /\ \A g \in Handler : InHand(g) /\ handler[g].nonce = handler[h].nonce => g = h
  /\ \A p \in accepted : p.nonce \in Nonce /\ p.nonce <= issued /\ p.nonce \notin nonces
  /\ NonceSingleUse

\* A quote that passed enroll is signed by the pinned key.
Enrolled(h) == handler[h].pc \in {"store", "result"} /\ handler[h].verdict = "verified"

Signed ==
  /\ \A a \in Agent : agent[a].pc = "post" => agent[a].key \in Key
  /\ \A h \in Handler :
       handler[h].pc \in {"consume", "judge", "enroll", "store", "result"} => handler[h].key \in Key

KeyInv ==
  /\ \A p \in accepted : p.key \in Key /\ p.run <= restarts
  /\ state # "deleted" =>
       /\ \A h \in Handler : Enrolled(h) => handler[h].key = pin
       /\ \A p \in accepted : p.run = restarts => p.key = pin
  /\ OneKey

\* The store has a verdict.
VerdictInv == \A h \in Handler :
  /\ handler[h].pc = "store" => handler[h].verdict = "verified"
  /\ handler[h].pc = "result" => handler[h].verdict \in {"verified", "rejected"}
  /\ handler[h].pc \in {"consume", "judge", "enroll"} => handler[h].verdict = "none"

AttestInv ==
  AttestType /\ VerdictInv /\ NonceInv /\ Signed /\ KeyInv /\ UserDataGated /\ RejectionShown

-----------------------------------------------------------------------------
(* Attestation: types.                                                     *)

\* The initial records are well-typed.
LEMMA IdleTypes ==
  /\ IdleAgent \in AgentRecord /\ IdleHandler \in HandlerRecord
  /\ FreshAttestation \in AttestationRecord /\ NoError \in ErrorRecord
  BY OptionsAssumption DEF IdleAgent, AgentRecord, IdleHandler, HandlerRecord, HandlerPC,
     FreshAttestation, AttestationRecord, NoError, ErrorRecord, Verdict, Stage

\* What the steps do to a handler keeps it well-typed: a new label,
LEMMA HandlerLabel ==
  ASSUME NEW x \in HandlerRecord, NEW l \in HandlerPC
  PROVE [x EXCEPT !.pc = l] \in HandlerRecord
  BY DEF HandlerRecord

\* the nonce of Issue,
LEMMA HandlerNonce ==
  ASSUME NEW x \in HandlerRecord, NEW l \in HandlerPC, NEW n \in Nonce
  PROVE [x EXCEPT !.pc = l, !.nonce = n] \in HandlerRecord
  BY Zenon DEF HandlerRecord

\* and the verdict of Enroll or reject.
LEMMA HandlerVerdict ==
  ASSUME NEW x \in HandlerRecord, NEW l \in HandlerPC, NEW d \in Verdict
  PROVE [x EXCEPT !.pc = l, !.verdict = d] \in HandlerRecord
  BY Zenon DEF HandlerRecord

\* What the steps do to an agent keeps it well-typed: a request that is sent
\* or given up,
LEMMA AgentWaits ==
  ASSUME NEW x \in AgentRecord, NEW w \in Handler \cup {None}
  PROVE [x EXCEPT !.waits = w] \in AgentRecord
  BY DEF AgentRecord

\* the nonce that onNonce answers with,
LEMMA AgentPosts ==
  ASSUME NEW x \in AgentRecord, NEW n \in Nonce \cup {None}, NEW k \in Key, NEW g \in BOOLEAN
  PROVE [x EXCEPT !.pc = "post", !.waits = None, !.key = k, !.nonce = n, !.good = g] \in AgentRecord
  BY Zenon DEF AgentRecord

\* and the verdict that recordQuote answers with.
LEMMA AgentDone ==
  ASSUME NEW x \in AgentRecord, NEW d \in Verdict
  PROVE [x EXCEPT !.pc = "done", !.waits = None, !.outcome = d] \in AgentRecord
  BY Zenon DEF AgentRecord

\* attestationError reports a stage or nothing.
LEMMA ErrorTypes ==
  ASSUME AttestType, NEW a PROVE AttestationError(a) \in ErrorRecord
  BY DEF AttestType, AttestationError, ErrorRecord, NoError

\* A fresh service has well-typed state.
LEMMA AttestTypeInit == Init => AttestType
<1> SUFFICES ASSUME Init PROVE AttestType
  OBVIOUS
<1>1. vtpm \in BOOLEAN
  BY Zenon DEF Init
<1>2. agent \in [Agent -> AgentRecord]
  BY IdleTypes DEF Init
<1>3. handler \in [Handler -> HandlerRecord]
  BY IdleTypes DEF Init
<1>4. att \in AttestationRecord /\ lastError \in ErrorRecord
  BY IdleTypes DEF Init
<1>5. results \in [Stage -> Handler \cup {None}]
  BY DEF Init
<1>6. /\ nonces \subseteq Nonce /\ issued \in Nat /\ pin \in Key \cup {None}
      /\ boot \in Nat /\ restarts \in Nat /\ accepted \subseteq AcceptedQuote
      /\ state \in Up \cup {"stopped", "deleted"}
  BY DEF Init
<1> QED BY <1>1, <1>2, <1>3, <1>4, <1>5, <1>6 DEF AttestType

\* Every step keeps the types.
LEMMA AttestTypeStep == AttestType /\ [Next]_vars => AttestType'
<1> SUFFICES ASSUME AttestType, [Next]_vars PROVE AttestType'
  OBVIOUS
<1> USE DEF AttestType
<1>1. CASE StartBoot
  <2>1. att' \in AttestationRecord /\ lastError' \in ErrorRecord
    BY <1>1, IdleTypes DEF StartBoot
  <2>2. vtpm' \in BOOLEAN
    BY Zenon, <1>1 DEF StartBoot
  <2> QED BY <1>1, <2>1, <2>2 DEF StartBoot, verifierVars, Up
<1>2. CASE Stop \/ Delete
  BY <1>2, IdleTypes DEF Stop, Delete, verifierVars, Up
<1>3. CASE VTPMFails \/ Ready \/ BootTimeout
  <2>1. lastError' \in ErrorRecord
    BY <1>3, ErrorTypes DEF VTPMFails, Ready, BootTimeout, ReadyError, ErrorRecord
  <2> QED BY Zenon, <1>3, <2>1 DEF VTPMFails, Ready, BootTimeout, verifierVars, Up
<1>4. CASE Restart
  <2>1. agent' \in [Agent -> AgentRecord]
    BY Zenon, <1>4, AgentWaits DEF Restart
  <2> QED BY <1>4, <2>1, IdleTypes DEF Restart, recordVars
<1>5. ASSUME NEW a \in Agent, NEW h \in Handler, NEW s \in Stage, Attest(a, s, h)
      PROVE AttestType'
  <2>1. [IdleAgent EXCEPT !.pc = "fetch", !.stage = s, !.waits = h] \in AgentRecord
    BY Zenon, IdleTypes DEF AgentRecord
  <2>2. [IdleHandler EXCEPT !.pc = "issue", !.from = boot] \in HandlerRecord
    BY Zenon, IdleTypes DEF HandlerRecord, HandlerPC
  <2> QED BY <1>5, <2>1, <2>2 DEF Attest, Receive, recordVars, verifierVars
<1>6. ASSUME NEW a \in Agent, NEW h \in Handler, PostQuote(a, h) \/ RetryNonce(a, h)
      PROVE AttestType'
  <2>1. agent' \in [Agent -> AgentRecord]
    BY <1>6, AgentWaits DEF PostQuote, RetryNonce
  <2>2. [IdleHandler EXCEPT !.pc = "issue", !.from = boot] \in HandlerRecord
    BY Zenon, IdleTypes DEF HandlerRecord, HandlerPC
  <2>3. [pc |-> "consume", from |-> boot, stage |-> agent[a].stage, nonce |-> agent[a].nonce,
         key |-> agent[a].key, good |-> agent[a].good, verdict |-> "none"] \in HandlerRecord
    BY DEF AgentRecord, HandlerRecord, HandlerPC, Verdict
  <2>4. handler' \in [Handler -> HandlerRecord]
    BY <1>6, <2>2, <2>3 DEF PostQuote, RetryNonce, Receive
  <2> QED BY <1>6, <2>1, <2>4 DEF PostQuote, RetryNonce, recordVars, verifierVars
<1>7. ASSUME NEW a \in Agent, Retry(a) PROVE AttestType'
  <2>1. agent' \in [Agent -> AgentRecord]
    BY <1>7, AgentWaits DEF Retry
  <2> QED BY <1>7, <2>1 DEF Retry, recordVars, verifierVars
<1>8. ASSUME NEW n \in Nonce, Expire(n) PROVE AttestType'
  BY <1>8 DEF Expire, recordVars
<1>9. ASSUME NEW h \in Handler, Issue(h) PROVE AttestType'
  <2>1. issued + 1 \in Nonce
    BY <1>9, BoundsAssumption DEF Issue, Nonce
  <2>2. handler' = [handler EXCEPT ![h] = [handler[h] EXCEPT !.pc = "onNonce", !.nonce = issued + 1]]
    BY Zenon, <1>9 DEF Issue
  <2>3. handler' \in [Handler -> HandlerRecord]
    BY Zenon, <2>1, <2>2, HandlerNonce DEF HandlerPC
  <2> QED BY <1>9, <2>1, <2>3 DEF Issue, recordVars
<1>10. ASSUME NEW h \in Handler, onNonce(h) PROVE AttestType'
  <2>1. att' \in AttestationRecord /\ state' \in Up \cup {"stopped", "deleted"}
    BY Zenon, <1>10 DEF onNonce, AttestationRecord, Up
  <2>2. handler[h].nonce \in Nonce \cup {None}
    BY DEF HandlerRecord
  <2>3. agent' \in [Agent -> AgentRecord]
    <3>1. PICK k \in Key, g \in BOOLEAN :
            agent' = [a \in Agent |->
                        IF agent[a].waits = h
                        THEN [agent[a] EXCEPT !.pc = "post", !.waits = None, !.key = k,
                                              !.nonce = handler[h].nonce, !.good = g]
                        ELSE agent[a]]
      BY Zenon, <1>10 DEF onNonce
    <3> QED BY Zenon, <3>1, <2>2, AgentPosts
  <2> QED BY Zenon, <1>10, <2>1, <2>3, IdleTypes DEF onNonce, verifierVars
<1>11. ASSUME NEW h \in Handler, Consume(h) \/ Enroll(h) \/ Store(h) PROVE AttestType'
  <2>1. handler[h].stage \in Stage /\ handler[h].key \in Key \cup {None}
    BY DEF HandlerRecord
  <2>2. PICK l \in HandlerPC, d \in Verdict :
           \/ handler' = [handler EXCEPT ![h] = [handler[h] EXCEPT !.pc = l]]
           \/ handler' = [handler EXCEPT ![h] = [handler[h] EXCEPT !.pc = l, !.verdict = d]]
    BY <1>11 DEF Consume, Enroll, Store, Step, Reject, HandlerPC, Verdict
  <2>3. handler' \in [Handler -> HandlerRecord]
    <3>1. [handler[h] EXCEPT !.pc = l] \in HandlerRecord
      BY HandlerLabel
    <3>2. [handler[h] EXCEPT !.pc = l, !.verdict = d] \in HandlerRecord
      BY Zenon, HandlerVerdict
    <3> QED BY <2>2, <3>1, <3>2
  <2> QED BY <1>11, <2>1, <2>3 DEF Consume, Enroll, Store, Step, Reject, NoncesAfter, recordVars
<1>12. ASSUME NEW h \in Handler, Judge(h) PROVE AttestType'
  <2>1. handler[h].stage \in Stage
    BY DEF HandlerRecord
  <2>2. PICK l \in HandlerPC, d \in Verdict :
           \/ handler' = [handler EXCEPT ![h] = IdleHandler]
           \/ handler' = [handler EXCEPT ![h] = [handler[h] EXCEPT !.pc = l]]
           \/ handler' = [handler EXCEPT ![h] = [handler[h] EXCEPT !.pc = l, !.verdict = d]]
    BY <1>12 DEF Judge, Step, Reject, HandlerPC, Verdict
  <2>3. handler' \in [Handler -> HandlerRecord]
    <3>1. [handler[h] EXCEPT !.pc = l] \in HandlerRecord
      BY HandlerLabel
    <3>2. [handler[h] EXCEPT !.pc = l, !.verdict = d] \in HandlerRecord
      BY Zenon, HandlerVerdict
    <3> QED BY <2>2, <3>1, <3>2, IdleTypes
  <2> QED BY <1>12, <2>1, <2>3, IdleTypes DEF Judge, Step, Reject, recordVars
<1>13. ASSUME NEW h \in Handler, recordQuote(h) PROVE AttestType'
  <2>1. /\ handler[h].stage \in Stage /\ handler[h].verdict \in Verdict /\ handler[h].from \in Nat
        /\ handler[h].nonce \in Nonce \cup {None} /\ handler[h].key \in Key \cup {None}
    BY DEF HandlerRecord, Verdict
  <2>2. att' \in AttestationRecord
    BY Zenon, <1>13, <2>1 DEF recordQuote, AttestationRecord
  <2>3. lastError' \in ErrorRecord
    <3>1. PICK a : lastError' \in {lastError, AttestationError(a)}
      BY Zenon, <1>13 DEF recordQuote
    <3> QED BY <3>1, ErrorTypes
  <2>4. [from |-> handler[h].from, into |-> boot, stage |-> handler[h].stage, nonce |-> handler[h].nonce,
         key |-> handler[h].key, run |-> restarts] \in AcceptedQuote
    BY <2>1 DEF AcceptedQuote
  <2>5. accepted' \subseteq AcceptedQuote
    BY Zenon, <1>13, <2>4 DEF recordQuote
  <2>6. agent' \in [Agent -> AgentRecord]
    BY Zenon, <1>13, <2>1, AgentDone DEF recordQuote
  <2> QED BY Zenon, <1>13, <2>1, <2>2, <2>3, <2>5, <2>6, IdleTypes DEF recordQuote
<1>14. CASE UNCHANGED vars
  BY <1>14 DEF vars, recordVars, verifierVars
<1> QED BY Zenon, <1>1, <1>2, <1>3, <1>4, <1>5, <1>6, <1>7, <1>8, <1>9, <1>10, <1>11, <1>12, <1>13, <1>14 DEF Next

-----------------------------------------------------------------------------
(* Attestation: what a step does to the handlers.                          *)

\* Handler h goes on to label l with the nonce n and the verdict d.
Goes(h, l, n, d) ==
  /\ \A g \in Handler \ {h} : handler'[g] = handler[g]
  /\ handler'[h].pc = l /\ handler'[h].nonce = n /\ handler'[h].verdict = d
  /\ handler'[h].key = handler[h].key /\ handler'[h].stage = handler[h].stage

\* Handler h has answered.
Answers(h) ==
  /\ \A g \in Handler \ {h} : handler'[g] = handler[g]
  /\ handler'[h].pc = "idle" /\ handler'[h].verdict = "none"

\* Handler h takes a request.
Receives(h, l) ==
  /\ \A g \in Handler \ {h} : handler'[g] = handler[g]
  /\ handler'[h].pc = l /\ handler'[h].verdict = "none"

\* A handler that goes on, or rejects, keeps nonce, key and stage.
LEMMA HandlerGoes ==
  ASSUME AttestType, NEW h \in Handler
  PROVE /\ \A l : Step(h, l) => Goes(h, l, handler[h].nonce, handler[h].verdict)
        /\ Reject(h) => Goes(h, "result", handler[h].nonce, "rejected")
        /\ handler' = [handler EXCEPT ![h] = IdleHandler] => Answers(h)
<1> USE DEF AttestType
<1>1. ASSUME NEW l, Step(h, l) PROVE Goes(h, l, handler[h].nonce, handler[h].verdict)
  BY <1>1 DEF Step, Goes, HandlerRecord
<1>2. ASSUME Reject(h) PROVE Goes(h, "result", handler[h].nonce, "rejected")
  BY <1>2 DEF Reject, Goes, HandlerRecord
<1>3. ASSUME handler' = [handler EXCEPT ![h] = IdleHandler] PROVE Answers(h)
  BY <1>3 DEF Answers, IdleHandler
<1> QED BY Zenon, <1>1, <1>2, <1>3

\* issueNonce: the handler goes on with the new nonce.
LEMMA IssueStep ==
  ASSUME AttestType, NEW h \in Handler, Issue(h)
  PROVE handler[h].pc = "issue" /\ Goes(h, "onNonce", issued + 1, handler[h].verdict)
  BY DEF Issue, Goes, HandlerRecord, AttestType

\* The nonce request is answered.
LEMMA onNonceStep ==
  ASSUME AttestType, NEW h \in Handler, onNonce(h) PROVE Answers(h)
  BY Zenon, HandlerGoes DEF onNonce

\* nonces.Consume: on to the verifier, or rejected.
LEMMA ConsumeStep ==
  ASSUME AttestType, NEW h \in Handler, Consume(h)
  PROVE /\ handler[h].pc = "consume"
        /\ IF handler[h].nonce \in nonces
           THEN Goes(h, "judge", handler[h].nonce, handler[h].verdict)
           ELSE Goes(h, "result", handler[h].nonce, "rejected")
  BY Zenon, HandlerGoes DEF Consume

\* The verifier: no such VM any more, or on to the enrolment, or rejected.
LEMMA JudgeStep ==
  ASSUME AttestType, NEW h \in Handler, Judge(h)
  PROVE /\ handler[h].pc = "judge"
        /\ \/ state = "deleted" /\ Answers(h)
           \/ /\ state # "deleted" /\ pin \in {None, handler[h].key}
              /\ Goes(h, "enroll", handler[h].nonce, handler[h].verdict)
           \/ state # "deleted" /\ Goes(h, "result", handler[h].nonce, "rejected")
  BY Zenon, HandlerGoes DEF Judge

\* The enrolment: verified, or rejected for another key.
LEMMA EnrollStep ==
  ASSUME AttestType, NEW h \in Handler, Enroll(h)
  PROVE /\ handler[h].pc = "enroll"
        /\ IF Enrolls(handler[h].stage, handler[h].key)
           THEN Goes(h, "store", handler[h].nonce, "verified")
           ELSE Goes(h, "result", handler[h].nonce, "rejected")
<1>1. Enrolls(handler[h].stage, handler[h].key) => Goes(h, "store", handler[h].nonce, "verified")
  BY DEF Enroll, Goes, HandlerRecord, AttestType
<1>2. ~Enrolls(handler[h].stage, handler[h].key) => Goes(h, "result", handler[h].nonce, "rejected")
  BY Zenon, HandlerGoes DEF Enroll
<1>3. handler[h].pc = "enroll"
  BY Zenon DEF Enroll
<1> QED BY Zenon, <1>1, <1>2, <1>3

\* The pin is stored and the handler goes on to record the quote.
LEMMA StoreStep ==
  ASSUME AttestType, NEW h \in Handler, Store(h)
  PROVE handler[h].pc = "store" /\ Goes(h, "result", handler[h].nonce, handler[h].verdict)
  BY Zenon, HandlerGoes DEF Store

\* The quote request is answered.
LEMMA recordQuoteStep ==
  ASSUME AttestType, NEW h \in Handler, recordQuote(h) PROVE Answers(h)
  BY Zenon, HandlerGoes DEF recordQuote

\* The label of a handler that takes a request.
LEMMA HandlerRequests ==
  ASSUME AttestType, NEW a \in Agent, NEW h \in Handler
  PROVE /\ \A s \in Stage : Attest(a, s, h) => Receives(h, "issue")
        /\ RetryNonce(a, h) => Receives(h, "issue")
        /\ PostQuote(a, h) => /\ agent[a].pc = "post"
                              /\ Receives(h, "consume") /\ handler'[h].key = agent[a].key
<1> USE DEF AttestType, Receive, Receives
<1>1. ASSUME NEW s \in Stage, Attest(a, s, h) PROVE Receives(h, "issue")
  BY <1>1 DEF Attest, IdleHandler
<1>2. RetryNonce(a, h) => Receives(h, "issue")
  BY DEF RetryNonce, IdleHandler
<1>3. ASSUME PostQuote(a, h)
      PROVE agent[a].pc = "post" /\ Receives(h, "consume") /\ handler'[h].key = agent[a].key
  BY <1>3 DEF PostQuote
<1> QED BY <1>1, <1>2, <1>3

\* The steps that leave the handlers alone, and Restart, which drops them all.
LEMMA OtherSteps ==
  ASSUME AttestType
  PROVE /\ StartBoot \/ Stop \/ Delete \/ VTPMFails \/ Ready \/ BootTimeout => UNCHANGED handler
        /\ \A a \in Agent : Retry(a) => UNCHANGED handler
        /\ \A n \in Nonce : Expire(n) => UNCHANGED handler
        /\ Restart => \A h \in Handler : handler'[h].pc = "idle" /\ handler'[h].verdict = "none"
  BY DEF StartBoot, Stop, Delete, VTPMFails, Ready, BootTimeout, Retry, Expire, Restart, IdleHandler

-----------------------------------------------------------------------------
(* Attestation: the inductive invariant.                                   *)

\* Every step keeps label and verdict of the handlers in accord.
LEMMA VerdictStep == AttestType /\ VerdictInv /\ [Next]_vars => VerdictInv'
<1> SUFFICES ASSUME AttestType, VerdictInv, [Next]_vars PROVE VerdictInv'
  OBVIOUS
<1> USE DEF VerdictInv
<1>1. CASE StartBoot \/ Stop \/ Delete \/ VTPMFails \/ Ready \/ BootTimeout \/ Restart
  BY <1>1, OtherSteps
<1>2. ASSUME NEW a \in Agent, NEW h \in Handler, NEW s \in Stage, Attest(a, s, h) PROVE VerdictInv'
  BY <1>2, HandlerRequests DEF Receives
<1>3. ASSUME NEW a \in Agent, NEW h \in Handler, PostQuote(a, h) \/ RetryNonce(a, h) PROVE VerdictInv'
  BY <1>3, HandlerRequests DEF Receives
<1>4. ASSUME NEW a \in Agent, Retry(a) PROVE VerdictInv'
  BY <1>4, OtherSteps
<1>5. ASSUME NEW n \in Nonce, Expire(n) PROVE VerdictInv'
  BY <1>5, OtherSteps
<1>6. ASSUME NEW h \in Handler, Issue(h) \/ onNonce(h) \/ Store(h) \/ recordQuote(h) PROVE VerdictInv'
  <2>1. CASE Issue(h)
    BY <2>1, IssueStep DEF Goes
  <2>2. CASE onNonce(h)
    BY <2>2, onNonceStep DEF Answers
  <2>3. CASE Store(h)
    BY <2>3, StoreStep DEF Goes
  <2>4. CASE recordQuote(h)
    BY <2>4, recordQuoteStep DEF Answers
  <2> QED BY Zenon, <1>6, <2>1, <2>2, <2>3, <2>4
<1>7. ASSUME NEW h \in Handler, Consume(h) PROVE VerdictInv'
  BY <1>7, ConsumeStep DEF Goes
<1>8. ASSUME NEW h \in Handler, Judge(h) \/ Enroll(h) PROVE VerdictInv'
  <2>1. CASE Judge(h)
    BY <2>1, JudgeStep DEF Goes, Answers
  <2>2. CASE Enroll(h)
    BY <2>2, EnrollStep DEF Goes
  <2> QED BY Zenon, <1>8, <2>1, <2>2
<1>9. CASE UNCHANGED vars
  BY <1>9 DEF vars
<1> QED BY <1>1, <1>2, <1>3, <1>4, <1>5, <1>6, <1>7, <1>8, <1>9 DEF Next

\* Nothing enters a handler's hands but by Store.Consume.
LEMMA InHandKept ==
  ASSUME AttestType, VerdictInv, [Next]_vars, \A h \in Handler : ~Consume(h)
  PROVE \A h \in Handler : InHand(h)' => InHand(h) /\ handler'[h].nonce = handler[h].nonce
<1> USE DEF InHand
<1>1. CASE StartBoot \/ Stop \/ Delete \/ VTPMFails \/ Ready \/ BootTimeout \/ Restart
  BY <1>1, OtherSteps
<1>2. ASSUME NEW a \in Agent, NEW h \in Handler, NEW s \in Stage, Attest(a, s, h)
      PROVE \A g \in Handler : InHand(g)' => InHand(g) /\ handler'[g].nonce = handler[g].nonce
  BY <1>2, HandlerRequests DEF Receives
<1>3. ASSUME NEW a \in Agent, NEW h \in Handler, PostQuote(a, h) \/ RetryNonce(a, h)
      PROVE \A g \in Handler : InHand(g)' => InHand(g) /\ handler'[g].nonce = handler[g].nonce
  BY <1>3, HandlerRequests DEF Receives
<1>4. ASSUME NEW a \in Agent, Retry(a)
      PROVE \A g \in Handler : InHand(g)' => InHand(g) /\ handler'[g].nonce = handler[g].nonce
  BY <1>4, OtherSteps
<1>5. ASSUME NEW n \in Nonce, Expire(n)
      PROVE \A g \in Handler : InHand(g)' => InHand(g) /\ handler'[g].nonce = handler[g].nonce
  BY <1>5, OtherSteps
<1>6. ASSUME NEW h \in Handler, Issue(h) \/ onNonce(h) \/ Store(h) \/ recordQuote(h)
      PROVE \A g \in Handler : InHand(g)' => InHand(g) /\ handler'[g].nonce = handler[g].nonce
  <2>1. CASE Issue(h)
    BY <2>1, IssueStep DEF Goes
  <2>2. CASE onNonce(h)
    BY <2>2, onNonceStep DEF Answers
  <2>3. CASE Store(h)
    BY <2>3, StoreStep DEF Goes
  <2>4. CASE recordQuote(h)
    BY <2>4, recordQuoteStep DEF Answers
  <2> QED BY Zenon, <1>6, <2>1, <2>2, <2>3, <2>4
<1>7. ASSUME NEW h \in Handler, Judge(h)
      PROVE \A g \in Handler : InHand(g)' => InHand(g) /\ handler'[g].nonce = handler[g].nonce
  BY <1>7, JudgeStep DEF Goes, Answers
<1>8. ASSUME NEW h \in Handler, Enroll(h)
      PROVE \A g \in Handler : InHand(g)' => InHand(g) /\ handler'[g].nonce = handler[g].nonce
  BY <1>8, EnrollStep DEF Goes
<1>9. CASE UNCHANGED vars
  BY <1>9 DEF vars
<1> QED BY <1>1, <1>2, <1>3, <1>4, <1>5, <1>6, <1>7, <1>8, <1>9 DEF Next

\* The steps that neither issue nor consume a nonce nor record a verdict.
LEMMA NoncesKeep ==
  ASSUME AttestType, [Next]_vars,
         \A h \in Handler : ~Issue(h) /\ ~Consume(h) /\ ~recordQuote(h)
  PROVE nonces' \subseteq nonces /\ issued' = issued /\ accepted' = accepted
<1>1. CASE StartBoot \/ Stop \/ Delete \/ VTPMFails \/ Ready \/ BootTimeout \/ Restart
  BY <1>1 DEF StartBoot, Stop, Delete, VTPMFails, Ready, BootTimeout, Restart, verifierVars
<1>2. ASSUME NEW a \in Agent, NEW h \in Handler, NEW s \in Stage,
             Attest(a, s, h) \/ PostQuote(a, h) \/ RetryNonce(a, h)
      PROVE nonces' \subseteq nonces /\ issued' = issued /\ accepted' = accepted
  BY <1>2 DEF Attest, PostQuote, RetryNonce, verifierVars
<1>3. ASSUME NEW a \in Agent, Retry(a)
      PROVE nonces' \subseteq nonces /\ issued' = issued /\ accepted' = accepted
  BY <1>3 DEF Retry, verifierVars
<1>4. ASSUME NEW n \in Nonce, Expire(n)
      PROVE nonces' \subseteq nonces /\ issued' = issued /\ accepted' = accepted
  BY <1>4 DEF Expire
<1>5. ASSUME NEW h \in Handler, onNonce(h) \/ Judge(h) \/ Enroll(h) \/ Store(h)
      PROVE nonces' \subseteq nonces /\ issued' = issued /\ accepted' = accepted
  BY Zenon, <1>5 DEF onNonce, Judge, Enroll, Store, verifierVars
<1>6. CASE UNCHANGED vars
  BY <1>6 DEF vars, verifierVars
<1>7. Stage # {}
  BY DEF Stage
<1> QED BY <1>1, <1>2, <1>3, <1>4, <1>5, <1>6, <1>7 DEF Next

\* Every step keeps a nonce in one place: the store, a handler, or accepted.
LEMMA NonceStep == AttestType /\ VerdictInv /\ NonceInv /\ [Next]_vars => NonceInv'
<1> SUFFICES ASSUME AttestType, VerdictInv, NonceInv, [Next]_vars PROVE NonceInv'
  OBVIOUS
<1> USE DEF NonceInv, NonceSingleUse
<1>1. CASE \A h \in Handler : ~Issue(h) /\ ~Consume(h) /\ ~recordQuote(h)
  <2>1. nonces' \subseteq nonces /\ issued' = issued /\ accepted' = accepted
    BY <1>1, NoncesKeep
  <2>2. \A h \in Handler : InHand(h)' => InHand(h) /\ handler'[h].nonce = handler[h].nonce
    BY <1>1, InHandKept
  <2> QED BY <2>1, <2>2
<1>2. ASSUME NEW h \in Handler, Issue(h) PROVE NonceInv'
  <2>1. \A g \in Handler : ~Consume(g)
    BY <1>2 DEF Issue, Consume, AttestType
  <2>2. \A g \in Handler : InHand(g)' => InHand(g) /\ handler'[g].nonce = handler[g].nonce
    BY <2>1, InHandKept
  <2>3. nonces' = nonces \cup {issued + 1} /\ issued' = issued + 1 /\ accepted' = accepted
    BY <1>2 DEF Issue
  <2>4. Nonce \subseteq Nat /\ issued \in Nat /\ nonces \subseteq Nonce
    BY DEF Nonce, AttestType
  <2>5. \A n \in Nonce : n <= issued => n <= issued' /\ n # issued + 1
    <3> HIDE DEF NonceInv, NonceSingleUse
    <3> SUFFICES ASSUME NEW n \in Nonce, n <= issued PROVE n <= issued' /\ n # issued + 1
      OBVIOUS
    <3>1. n \in Nat /\ issued \in Nat /\ issued' = issued + 1
      BY <2>3, <2>4
    <3> QED BY <3>1
  <2>6. \A n \in nonces' : n <= issued'
    <3> SUFFICES ASSUME NEW n \in nonces' PROVE n <= issued'
      OBVIOUS
    <3>1. CASE n \in nonces
      BY <2>4, <2>5, <3>1
    <3>2. CASE n = issued + 1
      BY <2>3, <2>4, <3>2
    <3> QED BY <2>3, <3>1, <3>2
  <2>7. \A p \in accepted' : p.nonce \in Nonce /\ p.nonce <= issued' /\ p.nonce \notin nonces'
    BY <2>3, <2>5
  <2>8. \A g \in Handler : InHand(g)' => /\ handler'[g].nonce \in Nonce /\ handler'[g].nonce <= issued'
                                         /\ handler'[g].nonce \notin nonces'
    BY <2>2, <2>3, <2>5
  <2> QED BY <2>2, <2>3, <2>6, <2>7, <2>8
<1>3. ASSUME NEW h \in Handler, Consume(h) PROVE NonceInv'
  <2>1. nonces' = nonces \ {handler[h].nonce} /\ issued' = issued /\ accepted' = accepted
    BY <1>3 DEF Consume, NoncesAfter
  <2>2. nonces \subseteq Nonce
    BY DEF AttestType
  <2>3. CASE handler[h].nonce \in nonces
    <3>1. /\ InHand(h)' /\ handler'[h].nonce = handler[h].nonce
          /\ \A g \in Handler \ {h} : (InHand(g)' <=> InHand(g)) /\ handler'[g].nonce = handler[g].nonce
      BY Zenon, <1>3, <2>3, ConsumeStep DEF Goes, InHand
    <3> QED BY <2>1, <2>2, <2>3, <3>1
  <2>4. CASE handler[h].nonce \notin nonces
    <3>1. /\ ~InHand(h)'
          /\ \A g \in Handler \ {h} : (InHand(g)' <=> InHand(g)) /\ handler'[g].nonce = handler[g].nonce
      BY Zenon, <1>3, <2>4, ConsumeStep DEF Goes, InHand
    <3> QED BY <2>1, <3>1
  <2> QED BY <2>3, <2>4
<1>4. ASSUME NEW h \in Handler, recordQuote(h) PROVE NonceInv'
  <2>1. /\ ~InHand(h)'
        /\ \A g \in Handler \ {h} : (InHand(g)' <=> InHand(g)) /\ handler'[g].nonce = handler[g].nonce
    BY <1>4, recordQuoteStep DEF Answers, InHand
  <2>2. nonces' = nonces /\ issued' = issued
    BY Zenon, <1>4 DEF recordQuote
  <2>3. CASE accepted' = accepted
    BY <2>1, <2>2, <2>3
  <2>4. CASE accepted' # accepted
    <3>1. PICK q : accepted' = accepted \cup {q} /\ q.nonce = handler[h].nonce /\ InHand(h)
      BY Zenon, <1>4, <2>4 DEF recordQuote, InHand
    <3> QED BY <2>1, <2>2, <3>1
  <2> QED BY <2>3, <2>4
<1> QED BY <1>1, <1>2, <1>3, <1>4

\* The steps that change neither the pinned key nor what was accepted, do not
\* bring a deleted VM back and enroll no quote.
LEMMA PinKeep ==
  ASSUME AttestType, [Next]_vars, ~Restart, ~Delete, \A h \in Handler : ~Enroll(h) /\ ~recordQuote(h)
  PROVE /\ pin' = pin /\ restarts' = restarts /\ accepted' = accepted
        /\ state = "deleted" => state' = "deleted"
<1> DEFINE Goal == /\ pin' = pin /\ restarts' = restarts /\ accepted' = accepted
                   /\ state = "deleted" => state' = "deleted"
<1>1. CASE StartBoot \/ Stop \/ VTPMFails \/ Ready \/ BootTimeout
  BY <1>1 DEF StartBoot, Stop, VTPMFails, Ready, BootTimeout, verifierVars, Up
<1>2. ASSUME NEW a \in Agent, NEW h \in Handler, NEW s \in Stage,
             Attest(a, s, h) \/ PostQuote(a, h) \/ RetryNonce(a, h)
      PROVE Goal
  BY <1>2 DEF Attest, PostQuote, RetryNonce, verifierVars, recordVars
<1>3. ASSUME NEW a \in Agent, Retry(a) PROVE Goal
  BY <1>3 DEF Retry, verifierVars, recordVars
<1>4. ASSUME NEW n \in Nonce, Expire(n) PROVE Goal
  BY <1>4 DEF Expire, recordVars
<1>5. ASSUME NEW h \in Handler, Issue(h) \/ onNonce(h) \/ Consume(h) \/ Judge(h) \/ Store(h)
      PROVE Goal
  BY Zenon, <1>5 DEF Issue, onNonce, Consume, Judge, Store, verifierVars, recordVars
<1>6. CASE UNCHANGED vars
  BY <1>6 DEF vars, verifierVars, recordVars
<1>7. Stage # {}
  BY DEF Stage
<1> QED BY <1>1, <1>2, <1>3, <1>4, <1>5, <1>6, <1>7 DEF Next

\* A handler that has a quote got its key with the request, and a quote is
\* enrolled by Enroll only.
LEMMA EnrolledKept ==
  ASSUME AttestType, VerdictInv, [Next]_vars, \A h \in Handler : ~Enroll(h)
  PROVE \A h \in Handler : Enrolled(h)' => Enrolled(h) /\ handler'[h].key = handler[h].key
<1> DEFINE Goal == \A g \in Handler : Enrolled(g)' => Enrolled(g) /\ handler'[g].key = handler[g].key
<1> USE DEF Enrolled
<1>1. CASE StartBoot \/ Stop \/ Delete \/ VTPMFails \/ Ready \/ BootTimeout \/ Restart
  BY <1>1, OtherSteps
<1>2. ASSUME NEW a \in Agent, NEW h \in Handler, NEW s \in Stage, Attest(a, s, h) PROVE Goal
  BY <1>2, HandlerRequests DEF Receives
<1>3. ASSUME NEW a \in Agent, NEW h \in Handler, PostQuote(a, h) \/ RetryNonce(a, h) PROVE Goal
  BY <1>3, HandlerRequests DEF Receives
<1>4. ASSUME NEW a \in Agent, Retry(a) PROVE Goal
  BY <1>4, OtherSteps
<1>5. ASSUME NEW n \in Nonce, Expire(n) PROVE Goal
  BY <1>5, OtherSteps
<1>6. ASSUME NEW h \in Handler, Issue(h) \/ onNonce(h) \/ Store(h) \/ recordQuote(h) PROVE Goal
  <2>1. CASE Issue(h)
    BY <2>1, IssueStep DEF Goes
  <2>2. CASE onNonce(h)
    BY <2>2, onNonceStep DEF Answers
  <2>3. CASE Store(h)
    BY <2>3, StoreStep DEF Goes
  <2>4. CASE recordQuote(h)
    BY <2>4, recordQuoteStep DEF Answers
  <2> QED BY Zenon, <1>6, <2>1, <2>2, <2>3, <2>4
<1>7. ASSUME NEW h \in Handler, Judge(h) PROVE Goal
  BY <1>7, JudgeStep DEF Goes, Answers
<1>8. ASSUME NEW h \in Handler, Consume(h) PROVE Goal
  BY Zenon, <1>8, ConsumeStep DEF Goes
<1>9. CASE UNCHANGED vars
  BY <1>9 DEF vars
<1> QED BY Zenon, <1>1, <1>2, <1>3, <1>4, <1>5, <1>6, <1>7, <1>8, <1>9 DEF Next

\* Quotes are signed by a key, in the agent's and in the handlers' hands.
LEMMA SignedStep == AttestType /\ Signed /\ [Next]_vars => Signed'
<1> SUFFICES ASSUME AttestType, Signed, [Next]_vars PROVE Signed'
  OBVIOUS
<1> USE DEF Signed
<1>1. CASE StartBoot \/ Stop \/ Delete \/ VTPMFails \/ Ready \/ BootTimeout
  BY <1>1 DEF StartBoot, Stop, Delete, VTPMFails, Ready, BootTimeout, IdleAgent
<1>2. CASE Restart
  <2>1. \A a \in Agent : agent'[a].pc = agent[a].pc /\ agent'[a].key = agent[a].key
    BY <1>2 DEF Restart, AttestType, AgentRecord
  <2> QED BY <1>2, <2>1, OtherSteps
<1>3. ASSUME NEW a \in Agent, NEW h \in Handler, NEW s \in Stage, Attest(a, s, h) PROVE Signed'
  <2>1. \A b \in Agent : agent'[b].pc = "fetch" \/ agent'[b] = agent[b]
    BY <1>3 DEF Attest, AttestType, IdleAgent
  <2> QED BY <1>3, <2>1, HandlerRequests DEF Receives
<1>4. ASSUME NEW a \in Agent, NEW h \in Handler, PostQuote(a, h) \/ RetryNonce(a, h) PROVE Signed'
  <2>1. \A b \in Agent : agent'[b].pc = agent[b].pc /\ agent'[b].key = agent[b].key
    BY <1>4 DEF PostQuote, RetryNonce, AttestType, AgentRecord
  <2> QED BY <1>4, <2>1, HandlerRequests DEF Receives
<1>5. ASSUME NEW a \in Agent, Retry(a) PROVE Signed'
  <2>1. \A b \in Agent : agent'[b].pc = agent[b].pc /\ agent'[b].key = agent[b].key
    BY <1>5 DEF Retry, AttestType, AgentRecord
  <2> QED BY <1>5, <2>1, OtherSteps
<1>6. ASSUME NEW n \in Nonce, Expire(n) PROVE Signed'
  BY <1>6 DEF Expire
<1>7. ASSUME NEW h \in Handler, onNonce(h) PROVE Signed'
  <2>1. \A a \in Agent : agent'[a] = agent[a] \/ agent'[a].key \in Key
    <3>1. PICK k \in Key, g \in BOOLEAN :
            agent' = [a \in Agent |->
                        IF agent[a].waits = h
                        THEN [agent[a] EXCEPT !.pc = "post", !.waits = None, !.key = k,
                                              !.nonce = handler[h].nonce, !.good = g]
                        ELSE agent[a]]
      BY Zenon, <1>7 DEF onNonce
    <3> QED BY ZenonT(30), <3>1 DEF AttestType, AgentRecord
  <2> QED BY <1>7, <2>1, onNonceStep DEF Answers
<1>8. ASSUME NEW h \in Handler, recordQuote(h) PROVE Signed'
  <2>1. \A a \in Agent : agent'[a] = agent[a] \/ agent'[a].pc = "done"
    BY Zenon, <1>8 DEF recordQuote, AttestType, AgentRecord
  <2> QED BY Zenon, <1>8, <2>1, recordQuoteStep DEF Answers
<1>9. ASSUME NEW h \in Handler, Judge(h) PROVE Signed'
  <2>1. \A a \in Agent : agent'[a] = agent[a] \/ agent'[a].pc = "idle"
    <3>1. IdleAgent.pc = "idle"
      BY DEF IdleAgent
    <3>2. \/ agent' = [a \in Agent |-> IF agent[a].waits = h THEN IdleAgent ELSE agent[a]]
          \/ agent' = agent
      BY <1>9 DEF Judge
    <3> QED BY <3>1, <3>2
  <2>2. \/ Answers(h) \/ Goes(h, "enroll", handler[h].nonce, handler[h].verdict)
        \/ Goes(h, "result", handler[h].nonce, "rejected")
    BY Zenon, <1>9, JudgeStep
  <2>3. handler[h].pc = "judge"
    BY Zenon, <1>9, JudgeStep
  <2> QED BY <2>1, <2>2, <2>3 DEF Answers, Goes
<1>10. ASSUME NEW h \in Handler, Issue(h) \/ Consume(h) \/ Enroll(h) \/ Store(h) PROVE Signed'
  <2>1. agent' = agent
    BY <1>10 DEF Issue, Consume, Enroll, Store
  <2>2. CASE Issue(h)
    BY <2>1, <2>2, IssueStep DEF Goes
  <2>3. CASE Consume(h)
    BY <2>1, <2>3, ConsumeStep DEF Goes
  <2>4. CASE Enroll(h)
    BY <2>1, <2>4, EnrollStep DEF Goes
  <2>5. CASE Store(h)
    BY <2>1, <2>5, StoreStep DEF Goes
  <2> QED BY Zenon, <1>10, <2>2, <2>3, <2>4, <2>5
<1>11. CASE UNCHANGED vars
  BY <1>11 DEF vars
<1> QED BY Zenon, <1>1, <1>2, <1>3, <1>4, <1>5, <1>6, <1>7, <1>8, <1>9, <1>10, <1>11 DEF Next

\* Every step keeps the quotes accepted since the last restart under the
\* pinned key.
LEMMA KeyStep == AttestType /\ VerdictInv /\ Signed /\ KeyInv /\ [Next]_vars => KeyInv'
<1> SUFFICES ASSUME AttestType, VerdictInv, Signed, KeyInv, [Next]_vars PROVE KeyInv'
  OBVIOUS
<1> USE DEF KeyInv, OneKey
<1>1. CASE /\ ~Restart /\ ~Delete /\ \A h \in Handler : ~Enroll(h) /\ ~recordQuote(h)
  <2>1. /\ pin' = pin /\ restarts' = restarts /\ accepted' = accepted
        /\ state = "deleted" => state' = "deleted"
    BY <1>1, PinKeep
  <2>2. \A h \in Handler : Enrolled(h)' => Enrolled(h) /\ handler'[h].key = handler[h].key
    BY <1>1, EnrolledKept
  <2> QED BY <2>1, <2>2
<1>2. CASE Restart
  <2>1. \A h \in Handler : ~Enrolled(h)'
    BY <1>2, OtherSteps DEF Enrolled
  <2>2. restarts \in Nat /\ restarts' = restarts + 1 /\ accepted' = accepted
    BY <1>2 DEF Restart, AttestType
  <2>3. \A p \in accepted : p.run \in Nat /\ p.run <= restarts' /\ p.run # restarts'
    BY <2>2 DEF AttestType, AcceptedQuote
  <2> QED BY <2>1, <2>2, <2>3
<1>3. CASE Delete
  BY Zenon, <1>3 DEF Delete
<1>4. ASSUME NEW h \in Handler, Enroll(h) PROVE KeyInv'
  <2>1. /\ accepted' = accepted /\ restarts' = restarts /\ state' = state
        /\ handler[h].key \in Key
    BY <1>4 DEF Enroll, recordVars, Signed
  <2>2. \A g \in Handler \ {h} : handler'[g] = handler[g]
    BY Zenon, <1>4, EnrollStep DEF Goes
  <2>3. CASE Enrolls(handler[h].stage, handler[h].key)
    <3>1. pin' = handler[h].key /\ handler'[h].key = handler[h].key /\ pin \in {None, handler[h].key}
      BY <1>4, <2>3, EnrollStep DEF Goes, Enroll, Enrolls
    <3>2. CASE pin = None
      <4>1. state # "deleted" => \A p \in accepted : p.run # restarts
        BY <3>2, NoneAssumption
      <4>2. state # "deleted" => \A g \in Handler : ~Enrolled(g)
        BY <3>2, NoneAssumption DEF Signed, Enrolled
      <4> QED BY <2>1, <2>2, <3>1, <4>1, <4>2 DEF Enrolled
    <3> QED BY <2>1, <2>2, <3>1, <3>2 DEF Enrolled
  <2>4. CASE ~Enrolls(handler[h].stage, handler[h].key)
    <3>1. pin' = pin /\ ~Enrolled(h)'
      BY Zenon, <1>4, <2>4, EnrollStep DEF Goes, Enroll, Enrolled
    <3> QED BY <2>1, <2>2, <3>1 DEF Enrolled
  <2> QED BY <2>3, <2>4
<1>5. ASSUME NEW h \in Handler, recordQuote(h) PROVE KeyInv'
  <2>1. pin' = pin /\ restarts' = restarts /\ state' = state /\ restarts \in Nat
    BY Zenon, <1>5 DEF recordQuote, AttestType
  <2>2. \A g \in Handler : Enrolled(g)' => Enrolled(g) /\ handler'[g].key = handler[g].key
    BY Zenon, <1>5, recordQuoteStep DEF Answers, Enrolled
  <2>3. CASE accepted' = accepted
    BY <2>1, <2>2, <2>3
  <2>4. CASE accepted' # accepted
    <3> DEFINE q == [from |-> handler[h].from, into |-> boot, stage |-> handler[h].stage,
                     nonce |-> handler[h].nonce, key |-> handler[h].key, run |-> restarts]
    <3>1. accepted' = accepted \cup {q} /\ Enrolled(h) /\ state # "deleted"
      BY Zenon, <1>5, <2>4 DEF recordQuote, Enrolled
    <3>2. q.key = pin /\ q.key \in Key /\ q.run = restarts /\ q.run <= restarts
      <4>1. q.key = handler[h].key /\ q.run = restarts
        BY Zenon
      <4>2. handler[h].key = pin /\ handler[h].key \in Key
        BY Zenon, <3>1 DEF Enrolled, Signed
      <4>3. restarts <= restarts
        BY <2>1
      <4> QED BY Zenon, <4>1, <4>2, <4>3
    <3> HIDE DEF q
    <3>3. \A p \in accepted' : p = q \/ p \in accepted
      BY Zenon, <3>1
    <3>4. \A p \in accepted : p.run = restarts => p.key = pin
      BY Zenon, <3>1
    <3>5. OneKey'
      BY Zenon, <3>2, <3>3, <3>4
    <3>6. \A p \in accepted' : p.key \in Key /\ p.run <= restarts'
      BY Zenon, <2>1, <3>2, <3>3
    <3>7. \A p \in accepted' : p.run = restarts' => p.key = pin'
      BY Zenon, <2>1, <3>2, <3>3, <3>4
    <3>8. \A g \in Handler : Enrolled(g)' => handler'[g].key = pin'
      BY Zenon, <2>1, <2>2, <3>1
    <3> QED BY Zenon, <3>5, <3>6, <3>7, <3>8
  <2> QED BY <2>3, <2>4
<1> QED BY <1>1, <1>2, <1>3, <1>4, <1>5

\* Every step that releases user-data records a verified initrd quote of the
\* boot; startBoot withdraws the release.
LEMMA UserDataStep == AttestType /\ UserDataGated /\ [Next]_vars => UserDataGated'
<1> SUFFICES ASSUME AttestType, UserDataGated, [Next]_vars PROVE UserDataGated'
  OBVIOUS
<1> USE DEF UserDataGated
<1>1. CASE StartBoot
  <2>1. att'.released = ~RequireAttestation
    BY <1>1 DEF StartBoot, FreshAttestation
  <2> QED BY Zenon, <2>1
<1>2. CASE Stop \/ Delete \/ VTPMFails \/ Ready \/ BootTimeout \/ Restart
  BY <1>2 DEF Stop, Delete, VTPMFails, Ready, BootTimeout, Restart, recordVars
<1>3. ASSUME NEW a \in Agent, NEW h \in Handler, NEW s \in Stage, Attest(a, s, h) PROVE UserDataGated'
  BY <1>3 DEF Attest, recordVars
<1>4. ASSUME NEW a \in Agent, NEW h \in Handler, PostQuote(a, h) \/ RetryNonce(a, h) PROVE UserDataGated'
  BY <1>4 DEF PostQuote, RetryNonce, recordVars
<1>5. ASSUME NEW a \in Agent, Retry(a) PROVE UserDataGated'
  BY <1>5 DEF Retry, recordVars
<1>6. ASSUME NEW n \in Nonce, Expire(n) PROVE UserDataGated'
  BY <1>6 DEF Expire, recordVars
<1>7. ASSUME NEW h \in Handler, onNonce(h) PROVE UserDataGated'
  <2>1. att'.released = att.released
    BY Zenon, <1>7 DEF onNonce, AttestType, AttestationRecord
  <2> QED BY Zenon, <1>7, <2>1 DEF onNonce
<1>8. ASSUME NEW h \in Handler, Issue(h) \/ Consume(h) \/ Judge(h) \/ Enroll(h) \/ Store(h)
      PROVE UserDataGated'
  BY <1>8 DEF Issue, Consume, Judge, Enroll, Store, recordVars
<1>9. ASSUME NEW h \in Handler, recordQuote(h) PROVE UserDataGated'
  <2> DEFINE q == [from |-> handler[h].from, into |-> boot, stage |-> handler[h].stage,
                   nonce |-> handler[h].nonce, key |-> handler[h].key, run |-> restarts]
  <2>1. boot' = boot /\ accepted \subseteq accepted'
    BY Zenon, <1>9 DEF recordQuote
  <2>2. CASE ReleasesUserData(handler[h].stage, handler[h].verdict) /\ state # "deleted"
    <3>1. q \in accepted' /\ q.into = boot /\ q.stage = "initrd"
      BY Zenon, <1>9, <2>2 DEF recordQuote, ReleasesUserData
    <3> QED BY <2>1, <3>1
  <2>3. CASE ~(ReleasesUserData(handler[h].stage, handler[h].verdict) /\ state # "deleted")
    <3>1. att'.released => att.released
      BY Zenon, <1>9, <2>3 DEF recordQuote, AttestType, AttestationRecord
    <3> QED BY <2>1, <3>1
  <2> QED BY <2>2, <2>3
<1>10. CASE UNCHANGED vars
  BY <1>10 DEF vars, recordVars
<1> QED BY <1>1, <1>2, <1>3, <1>4, <1>5, <1>6, <1>7, <1>8, <1>9, <1>10 DEF Next

\* Every step to a rejection, to ready or to another LastError keeps the
\* rejection in LastError.
LEMMA RejectionStep == AttestType /\ RejectionShown /\ [Next]_vars => RejectionShown'
<1> SUFFICES ASSUME AttestType, RejectionShown, [Next]_vars PROVE RejectionShown'
  OBVIOUS
<1> USE DEF RejectionShown
<1>1. \A a : "rejected" \in {a.initrd, a.ready} => AttestationError(a).what \in Stage
  BY DEF AttestationError, Stage
<1>2. CASE StartBoot \/ Stop \/ Delete \/ VTPMFails \/ BootTimeout \/ Restart
  BY <1>2 DEF StartBoot, Stop, Delete, VTPMFails, BootTimeout, Restart, recordVars
<1>3. CASE Ready
  BY <1>1, <1>3 DEF Ready, ReadyError
<1>4. ASSUME NEW a \in Agent, NEW h \in Handler, NEW s \in Stage, Attest(a, s, h) PROVE RejectionShown'
  BY <1>4 DEF Attest, recordVars
<1>5. ASSUME NEW a \in Agent, NEW h \in Handler, PostQuote(a, h) \/ RetryNonce(a, h) PROVE RejectionShown'
  BY <1>5 DEF PostQuote, RetryNonce, recordVars
<1>6. ASSUME NEW a \in Agent, Retry(a) PROVE RejectionShown'
  BY <1>6 DEF Retry, recordVars
<1>7. ASSUME NEW n \in Nonce, Expire(n) PROVE RejectionShown'
  BY <1>7 DEF Expire, recordVars
<1>8. ASSUME NEW h \in Handler, onNonce(h) PROVE RejectionShown'
  <2>1. /\ att'.initrd = att.initrd /\ att'.ready = att.ready
        /\ state' = "ready" => state = "ready"
    BY Zenon, <1>8 DEF onNonce, AttestType, AttestationRecord
  <2> QED BY Zenon, <1>8, <2>1 DEF onNonce
<1>9. ASSUME NEW h \in Handler, Issue(h) \/ Consume(h) \/ Judge(h) \/ Enroll(h) \/ Store(h)
      PROVE RejectionShown'
  BY <1>9 DEF Issue, Consume, Judge, Enroll, Store, recordVars
<1>10. ASSUME NEW h \in Handler, recordQuote(h) PROVE RejectionShown'
  <2>1. state' = state
    BY Zenon, <1>10 DEF recordQuote
  <2>2. CASE lastError' = AttestationError(att')
    BY <1>1, <2>2
  <2>3. CASE lastError' # AttestationError(att')
    <3>1. state = "deleted" \/ (handler[h].verdict # "rejected" /\ lastError' = lastError)
      BY Zenon, <1>10, <2>3 DEF recordQuote
    <3>2. "rejected" \in {att'.initrd, att'.ready} => "rejected" \in {att.initrd, att.ready} \/ state = "deleted"
      BY Zenon, <1>10, <3>1 DEF recordQuote, AttestType, AttestationRecord
    <3> QED BY <2>1, <3>1, <3>2
  <2> QED BY <2>2, <2>3
<1>11. CASE UNCHANGED vars
  BY <1>11 DEF vars, recordVars
<1> QED BY Zenon, <1>1, <1>2, <1>3, <1>4, <1>5, <1>6, <1>7, <1>8, <1>9, <1>10, <1>11 DEF Next

-----------------------------------------------------------------------------
(* Attestation: the theorems.                                              *)

\* The inductive invariant holds at the start.
LEMMA AttestInvInit == Init => AttestInv
<1> SUFFICES ASSUME Init PROVE AttestInv
  OBVIOUS
<1>1. AttestType
  BY AttestTypeInit
<1>2. VerdictInv /\ Signed /\ \A h \in Handler : ~InHand(h)
  BY DEF Init, VerdictInv, Signed, InHand, IdleHandler, IdleAgent
<1>3. NonceInv /\ KeyInv
  BY <1>2 DEF Init, NonceInv, NonceSingleUse, KeyInv, OneKey, Enrolled, IdleHandler
<1>4. UserDataGated /\ RejectionShown
  BY Zenon DEF Init, UserDataGated, RejectionShown, FreshAttestation
<1> QED BY <1>1, <1>2, <1>3, <1>4 DEF AttestInv

\* Every step keeps it.
LEMMA AttestInvStep == AttestInv /\ [Next]_vars => AttestInv'
  BY AttestTypeStep, VerdictStep, NonceStep, SignedStep, KeyStep, UserDataStep, RejectionStep
     DEF AttestInv

\* The inductive invariant holds of every reachable state.
LEMMA AttestInvariant == Spec => []AttestInv
  BY AttestInvInit, AttestInvStep, PTL DEF Spec

\* /user-data of a VM that must attest: whatever stops, restarts and requests
\* fall between the steps of the handlers, it is released in a boot only by a
\* verified initrd quote recorded during that boot.
THEOREM UserDataAfterQuote == Spec => []UserDataGated
  BY AttestInvariant, PTL DEF AttestInv

\* Store.Consume: however requests are repeated and interleaved, one nonce
\* verifies one quote.
THEOREM NonceVerifiesOnce == Spec => []NonceSingleUse
<1>1. AttestInv => NonceSingleUse
  BY Zenon DEF AttestInv, NonceInv
<1> QED BY <1>1, AttestInvariant, PTL

\* enroll: between two restarts of vm-manager every accepted quote of the VM
\* is signed by one key, however many first quotes are judged at once.
THEOREM QuotesShareKey == Spec => []OneKey
<1>1. AttestInv => OneKey
  BY Zenon DEF AttestInv, KeyInv
<1> QED BY <1>1, AttestInvariant, PTL

\* recordQuote and onNotify: a ready VM with a rejected quote says so in
\* LastError.
THEOREM RejectionVisible == Spec => []RejectionShown
  BY AttestInvariant, PTL DEF AttestInv

-----------------------------------------------------------------------------
(* Quotes: the inductive invariant.                                        *)

BootState == [build : Build, phase : Enter..ReadyPhase, merged : BOOLEAN]

\* The PCRs that say the same of every VM of the image.
ImagePCRs == {2, 3, 4, 6, 7}

\* Values that a verified ready quote of a VM of the image held.
GoldenValues(f) ==
  /\ GoldenIndexes \subseteq DOMAIN f
  /\ \E b \in Build : f[0] = <<b, TRUE>>
  /\ \A i \in ImagePCRs : f[i] = <<"image", TRUE>>

\* A quote is signed by the key of the template over the bank of the boot.
QuoteOf(v, q) ==
  /\ DOMAIN q = {"stage", "todo", "values", "signed", "of"}
  /\ q.of # NoTPM =>
       LET separated == q.of.phase >= Separated IN
       /\ q.stage \in {"initrd", "ready"} /\ q.of \in BootState /\ handle[v] = AKTemplate
       /\ DOMAIN q.signed = Selection(q.stage)
       /\ q.signed[0] = <<q.of.build, separated>>
       /\ \A i \in ImagePCRs : q.signed[i] = <<"image", separated>>
       /\ q.signed[PCRUKI] = <<PhasePath(q.of.phase)>>
       /\ q.stage = "ready" =>
            q.signed[PCRSysext] = <<IF q.of.merged THEN version[v] ELSE Absent, separated>>

QuoteInv ==
  /\ server.build \in Build
  /\ server.policy = NoGolden \/ GoldenValues(server.policy.values)
  /\ policyFile = NoGolden \/ GoldenValues(policyFile.values)
  /\ command = <<>> \/ GoldenValues(command)
  /\ DOMAIN readyPCRs = Node /\ \A v \in Node : readyPCRs[v] = <<>> \/ GoldenValues(readyPCRs[v])
  /\ tpm \in [Node -> BootState \cup {NoTPM}]
  /\ DOMAIN handle = Node /\ DOMAIN quoting = Node
  /\ \A v \in Node :
       /\ QuoteOf(v, quoting[v])
       /\ quoting[v] # NoQuote => quoting[v].stage \in {"initrd", "ready"} /\ handle[v] = AKTemplate

\* The bank of a VM, PCR by PCR.
LEMMA BankValues ==
  ASSUME NEW v \in Node
  PROVE LET separated == tpm[v].phase >= Separated IN
        /\ DOMAIN BankOf(v) = PCRs
        /\ BankOf(v)[0] = <<tpm[v].build, separated>>
        /\ \A i \in ImagePCRs : BankOf(v)[i] = <<"image", separated>>
        /\ BankOf(v)[PCRUKI] = <<PhasePath(tpm[v].phase)>>
        /\ BankOf(v)[PCRSysext] = <<IF tpm[v].merged THEN version[v] ELSE Absent, separated>>
<1>1. /\ DOMAIN BankOf(v) = PCRs
      /\ BankOf(v)[0] = <<tpm[v].build, tpm[v].phase >= Separated>>
  <2>1. 0 \in PCRs /\ 0 \notin {1, 5} /\ 0 \notin {2, 3, 4, 6, 7} /\ 0 # PCRUKI /\ 0 # PCRSysext
    BY DEF PCRs, firmwarePCRs, PCRUKI, PCRSysext
  <2> QED BY <2>1 DEF BankOf
<1>2. ASSUME NEW i \in ImagePCRs PROVE BankOf(v)[i] = <<"image", tpm[v].phase >= Separated>>
  <2>1. i \in PCRs /\ i # 0 /\ i \notin {1, 5} /\ i \in {2, 3, 4, 6, 7}
    BY DEF PCRs, firmwarePCRs, ImagePCRs
  <2>2. i # PCRUKI /\ i # PCRSysext
    BY DEF ImagePCRs, PCRUKI, PCRSysext
  <2> QED BY <2>1, <2>2 DEF BankOf
<1>3. /\ PCRUKI \in PCRs /\ PCRUKI \notin {0, 1, 5} /\ PCRUKI \notin {2, 3, 4, 6, 7}
      /\ PCRSysext \in PCRs /\ PCRSysext \notin {0, 1, 5} /\ PCRSysext \notin {2, 3, 4, 6, 7}
      /\ PCRUKI # PCRSysext
  BY DEF PCRs, firmwarePCRs, PCRUKI, PCRSysext
<1>4. BankOf(v)[PCRUKI] = <<PhasePath(tpm[v].phase)>>
  BY <1>3 DEF BankOf
<1>5. BankOf(v)[PCRSysext] = <<IF tpm[v].merged THEN version[v] ELSE Absent, tpm[v].phase >= Separated>>
  BY <1>3 DEF BankOf
<1> QED BY Zenon, <1>1, <1>2, <1>4, <1>5

\* What a verified quote has passed, and what makes a quote pass.
LEMMA JudgedVerified ==
  ASSUME NEW v \in Node
  PROVE LET q == quoting[v]
            compared == goldenFirmwarePCRs \cup IF q.stage = "ready" THEN {PCRSysext} ELSE {}
            fits(i) == Expected(i, version[v]) # {} => q.values[i] \in Expected(i, version[v]) IN
        /\ Judged(v) = "verified" =>
             /\ q.values = q.signed /\ q.values[PCRUKI] = <<q.stage>>
             /\ \A i \in compared : fits(i)
        /\ /\ CheckAK(handle[v]) /\ q.values = q.signed /\ q.values[PCRUKI] = <<q.stage>>
           /\ \A i \in compared : fits(i)
           /\ \A i \in goldenFirmwarePCRs : Expected(i, version[v]) # {}
           => Judged(v) = "verified"
        /\ ~(\A i \in goldenFirmwarePCRs : fits(i)) =>
             Judged(v) \in {"key", "digest", "pcr 11", FirmwareVerdict}
<1> DEFINE q == quoting[v]
           compared == goldenFirmwarePCRs \cup IF q.stage = "ready" THEN {PCRSysext} ELSE {}
           expected(i) == Expected(i, version[v])
           wrong == {i \in compared : expected(i) # {} /\ q.values[i] \notin expected(i)}
           unknown == {i \in compared \ {PCRSysext} : expected(i) = {}}
<1>1. Judged(v) =
        IF ~CheckAK(handle[v]) THEN "key"
        ELSE IF ~(q.values = q.signed) THEN "digest"
        ELSE IF q.values[PCRUKI] # <<q.stage>> THEN "pcr 11"
        ELSE IF wrong # {} THEN IF wrong \subseteq {PCRSysext} THEN "mismatch" ELSE FirmwareVerdict
        ELSE IF unknown # {} /\ ~server.learn THEN "unknown"
        ELSE "verified"
  BY DEF Judged, Parse, VerifyPCRs
<1>2. wrong = {} <=> \A i \in compared : expected(i) # {} => q.values[i] \in expected(i)
  OBVIOUS
<1>3. (\A i \in goldenFirmwarePCRs : expected(i) # {}) => unknown = {}
  OBVIOUS
<1>4. ~(\A i \in goldenFirmwarePCRs : expected(i) # {} => q.values[i] \in expected(i)) =>
         ~(wrong \subseteq {PCRSysext})
  BY DEF goldenFirmwarePCRs, PCRSysext
<1>5. FirmwareVerdict \in {"mismatch", "mismatch, same firmware", "mismatch, other firmware"}
  BY DEF FirmwareVerdict
<1> HIDE DEF wrong, unknown
<1>6. Judged(v) = "verified" =>
        CheckAK(handle[v]) /\ q.values = q.signed /\ q.values[PCRUKI] = <<q.stage>> /\ wrong = {}
  BY Zenon, <1>1, <1>5
<1>7. CheckAK(handle[v]) /\ q.values = q.signed /\ q.values[PCRUKI] = <<q.stage>> /\ wrong = {} /\ unknown = {}
        => Judged(v) = "verified"
  BY <1>1
<1>8. ASSUME ~(wrong \subseteq {PCRSysext})
      PROVE Judged(v) \in {"key", "digest", "pcr 11", FirmwareVerdict}
  <2>1. wrong # {}
    BY <1>8
  <2> QED BY Zenon, <1>1, <1>8, <2>1
<1> HIDE DEF q, compared, expected
<1>9. /\ Judged(v) = "verified" =>
           /\ q.values = q.signed /\ q.values[PCRUKI] = <<q.stage>>
           /\ \A i \in compared : expected(i) # {} => q.values[i] \in expected(i)
      /\ /\ CheckAK(handle[v]) /\ q.values = q.signed /\ q.values[PCRUKI] = <<q.stage>>
         /\ \A i \in compared : expected(i) # {} => q.values[i] \in expected(i)
         /\ \A i \in goldenFirmwarePCRs : expected(i) # {}
         => Judged(v) = "verified"
      /\ ~(\A i \in goldenFirmwarePCRs : expected(i) # {} => q.values[i] \in expected(i)) =>
           Judged(v) \in {"key", "digest", "pcr 11", FirmwareVerdict}
  BY Zenon, <1>2, <1>3, <1>4, <1>6, <1>7, <1>8
<1> QED BY Zenon, <1>9 DEF q, compared, expected

\* A quote that is as signed, by a key made from the template, and whose
\* values are all expected ones is verified.
LEMMA ExpectedVerified ==
  ASSUME NEW v \in Node, CheckAK(handle[v]), quoting[v].values = quoting[v].signed,
         quoting[v].values[PCRUKI] = <<quoting[v].stage>>,
         \A i \in goldenFirmwarePCRs \cup (IF quoting[v].stage = "ready" THEN {PCRSysext} ELSE {}) :
            quoting[v].values[i] \in Expected(i, version[v]),
         \A i \in goldenFirmwarePCRs : Expected(i, version[v]) # {}
  PROVE Judged(v) = "verified"
  BY ZenonT(30), JudgedVerified

\* At the start nothing is quoted and nothing is golden.
LEMMA QuoteInvInit == QuotesInit => QuoteInv
<1> SUFFICES ASSUME QuotesInit PROVE QuoteInv
  OBVIOUS
<1>1. server.build \in Build /\ server.policy = NoGolden
  BY BuildAssumption DEF QuotesInit
<1>2. DOMAIN NoQuote = {"stage", "todo", "values", "signed", "of"} /\ NoQuote.of = NoTPM
  BY DEF NoQuote
<1>3. DOMAIN handle = Node /\ DOMAIN quoting = Node /\ DOMAIN readyPCRs = Node
  BY DEF QuotesInit
<1>4. \A v \in Node : quoting[v] = NoQuote /\ readyPCRs[v] = <<>>
  BY DEF QuotesInit
<1>5. tpm \in [Node -> BootState \cup {NoTPM}] /\ command = <<>> /\ policyFile = NoGolden
  BY DEF QuotesInit
<1> QED BY <1>1, <1>2, <1>3, <1>4, <1>5 DEF QuoteInv, QuoteOf

\* A quote stays what it is as long as the key and the version do.
LEMMA QuoteOfKeeps ==
  ASSUME NEW v, NEW q, QuoteOf(v, q), handle'[v] = handle[v], version' = version
  PROVE QuoteOf(v, q)'
  BY DEF QuoteOf

\* Reading PCRs changes neither the stage of a quote nor what was signed.
LEMMA QuoteOfReads ==
  ASSUME NEW v, QuoteOf(v, quoting[v]), DOMAIN quoting'[v] = DOMAIN quoting[v],
         quoting'[v].stage = quoting[v].stage, quoting'[v].signed = quoting[v].signed,
         quoting'[v].of = quoting[v].of, handle' = handle, version' = version
  PROVE QuoteOf(v, quoting[v])'
  BY DEF QuoteOf

\* The PCRs of a quote include those that are compared.
LEMMA Selected ==
  ASSUME NEW stage
  PROVE /\ 0 \in Selection(stage) /\ ImagePCRs \subseteq Selection(stage)
        /\ PCRUKI \in Selection(stage)
        /\ stage = "ready" => PCRSysext \in Selection(stage)
<1>1. 0 \in firmwarePCRs /\ ImagePCRs \subseteq firmwarePCRs
  BY DEF firmwarePCRs, ImagePCRs
<1> QED BY Zenon, <1>1 DEF Selection

\* The phase of a boot moves from one phase to the next.
LEMMA BootStates ==
  ASSUME NEW t \in BootState
  PROVE /\ t.phase \in Enter..Leave => [t EXCEPT !.phase = @ + 1] \in BootState
        /\ [t EXCEPT !.merged = TRUE] \in BootState
<1>1. ASSUME t.phase \in Enter..Leave PROVE [t EXCEPT !.phase = t.phase + 1] \in BootState
  <2>1. t.phase + 1 \in Enter..ReadyPhase
    BY <1>1 DEF Enter, Leave, ReadyPhase
  <2> QED BY <2>1 DEF BootState
<1>2. [t EXCEPT !.merged = TRUE] \in BootState
  BY Zenon DEF BootState
<1> QED BY <1>1, <1>2

\* A verified quote says in which phase it was signed.
LEMMA VerifiedQuote ==
  ASSUME QuoteInv, NEW v \in Node, quoting[v].of # NoTPM, Judged(v) = "verified"
  PROVE /\ PhasePath(quoting[v].of.phase) = quoting[v].stage
        /\ quoting[v].stage = "ready" => GoldenValues(quoting[v].values)
<1>1. quoting[v].values = quoting[v].signed /\ quoting[v].values[PCRUKI] = <<quoting[v].stage>>
  BY Zenon, JudgedVerified
<1>2. QuoteOf(v, quoting[v])
  BY Zenon DEF QuoteInv
<1>3. PhasePath(quoting[v].of.phase) = quoting[v].stage
  <2>1. quoting[v].signed[PCRUKI] = <<PhasePath(quoting[v].of.phase)>>
    BY Zenon, <1>2 DEF QuoteOf
  <2>2. \A x, y : <<x>> = <<y>> => x = y
    BY Zenon
  <2> QED BY Zenon, <1>1, <2>1, <2>2
<1>4. ASSUME quoting[v].stage = "ready" PROVE GoldenValues(quoting[v].signed)
  <2>1. quoting[v].of \in BootState
    BY Zenon, <1>2 DEF QuoteOf
  <2>2. quoting[v].of.phase >= Separated /\ quoting[v].of.build \in Build
    BY <1>3, <1>4, <2>1 DEF PhasePath, BootState, Separated, Leave, Enter, ReadyPhase
  <2>3. GoldenIndexes \subseteq Selection("ready")
    BY DEF GoldenIndexes, Selection, goldenFirmwarePCRs, firmwarePCRs
  <2>4. /\ DOMAIN quoting[v].signed = Selection("ready")
        /\ quoting[v].signed[0] = <<quoting[v].of.build, TRUE>>
        /\ \A i \in ImagePCRs : quoting[v].signed[i] = <<"image", TRUE>>
    BY Zenon, <1>2, <1>4, <2>2 DEF QuoteOf
  <2> QED BY Zenon, <2>2, <2>3, <2>4 DEF GoldenValues
<1> QED BY <1>1, <1>3, <1>4

\* Every step keeps what quotes, golden values and the keys say.
LEMMA QuoteInvStep == QuoteInv /\ [QuotesNext]_quoteVars => QuoteInv'
<1> SUFFICES ASSUME QuoteInv, [QuotesNext]_quoteVars PROVE QuoteInv'
  OBVIOUS
<1>0. /\ DOMAIN NoQuote = {"stage", "todo", "values", "signed", "of"} /\ NoQuote.of = NoTPM
      /\ \A v, q : q.of = NoTPM /\ DOMAIN q = {"stage", "todo", "values", "signed", "of"} => QuoteOf(v, q)'
  BY DEF NoQuote, QuoteOf
<1> USE DEF QuoteInv
<1>1. ASSUME NEW v \in Node, PowerOn(v) PROVE QuoteInv'
  <2>1. [build |-> server.build, phase |-> Enter, merged |-> FALSE] \in BootState
    BY DEF BootState, Enter, ReadyPhase
  <2>2. tpm' \in [Node -> BootState \cup {NoTPM}]
    BY Zenon, <1>1, <2>1 DEF PowerOn
  <2> QED BY Zenon, <1>1, <2>2, QuoteOfKeeps DEF PowerOn
<1>2. ASSUME NEW v \in Node, Measure(v) \/ MeasureSysext(v) PROVE QuoteInv'
  <2>1. tpm[v] \in BootState
    BY <1>2 DEF Measure, MeasureSysext, NoTPM, Enter, Leave, Off
  <2>2. \/ /\ tpm' = [tpm EXCEPT ![v] = [tpm[v] EXCEPT !.phase = tpm[v].phase + 1]]
           /\ tpm[v].phase \in Enter..Leave
        \/ tpm' = [tpm EXCEPT ![v] = [tpm[v] EXCEPT !.merged = TRUE]]
    BY <1>2 DEF Measure, MeasureSysext
  <2>3. tpm' \in [Node -> BootState \cup {NoTPM}]
    <3>1. tpm[v].phase \in Enter..Leave => [tpm[v] EXCEPT !.phase = tpm[v].phase + 1] \in BootState
      BY Zenon, <2>1, BootStates
    <3>2. [tpm[v] EXCEPT !.merged = TRUE] \in BootState
      BY Zenon, <2>1, BootStates
    <3> QED BY Zenon, <2>2, <3>1, <3>2
  <2> QED BY <1>2, <2>3, QuoteOfKeeps DEF Measure, MeasureSysext
<1>3. ASSUME NEW v \in Node, PowerOff(v) PROVE QuoteInv'
  BY Zenon, <1>0, <1>3, QuoteOfKeeps DEF PowerOff
<1>4. ASSUME NEW v \in Node, NEW stage \in {"initrd", "ready"}, BuildQuote(v, stage) PROVE QuoteInv'
  <2> DEFINE new == [NoQuote EXCEPT !.stage = stage, !.todo = Selection(stage)]
  <2>1. DOMAIN new = {"stage", "todo", "values", "signed", "of"} /\ new.of = NoTPM /\ new.stage = stage
    BY DEF NoQuote
  <2>2. quoting' = [quoting EXCEPT ![v] = new] /\ handle' = [handle EXCEPT ![v] = AKTemplate]
    BY Zenon, <1>4 DEF BuildQuote, EnsureAK
  <2> HIDE DEF new
  <2>3. \A u \in Node : QuoteOf(u, quoting[u])'
    BY <1>0, <1>4, <2>1, <2>2 DEF BuildQuote
  <2> QED BY <1>4, <2>1, <2>2, <2>3 DEF BuildQuote
<1>5. ASSUME NEW v \in Node, ReadPCRs(v) PROVE QuoteInv'
  <2>1. /\ DOMAIN quoting' = Node /\ \A u \in Node \ {v} : quoting'[u] = quoting[u]
        /\ DOMAIN quoting'[v] = DOMAIN quoting[v]
        /\ \A f \in {"stage", "signed", "of"} : quoting'[v][f] = quoting[v][f]
    BY <1>5 DEF ReadPCRs, QuoteOf
  <2>2. quoting[v] # NoQuote
    BY <1>5 DEF ReadPCRs, NoQuote
  <2>3. QuoteOf(v, quoting[v])'
    <3>1. handle' = handle /\ version' = version
      BY Zenon, <1>5 DEF ReadPCRs
    <3>2. quoting'[v].stage = quoting[v].stage /\ quoting'[v].signed = quoting[v].signed
          /\ quoting'[v].of = quoting[v].of
      BY Zenon, <2>1
    <3>3. QuoteOf(v, quoting[v])
      BY Zenon DEF QuoteInv
    <3> QED BY Zenon, <2>1, <3>1, <3>2, <3>3, QuoteOfReads
  <2> QED BY Zenon, <1>5, <2>1, <2>2, <2>3, QuoteOfKeeps DEF ReadPCRs
<1>6. ASSUME NEW v \in Node, SignPCRs(v) PROVE QuoteInv'
  <2> DEFINE q == quoting[v]
             new == quoting'[v]
             separated == tpm[v].phase >= Separated
  <2>1. /\ DOMAIN quoting' = Node /\ \A u \in Node \ {v} : quoting'[u] = quoting[u]
        /\ DOMAIN new = DOMAIN q /\ new.stage = q.stage /\ new.of = tpm[v]
        /\ new.signed = [i \in Selection(q.stage) |-> BankOf(v)[i]]
    BY <1>6 DEF SignPCRs, QuoteOf
  <2>2. q.stage \in {"initrd", "ready"} /\ handle[v] = AKTemplate
    BY <1>6 DEF SignPCRs
  <2>3. QuoteOf(v, quoting[v])'
    <3>1. /\ 0 \in Selection(q.stage) /\ ImagePCRs \subseteq Selection(q.stage)
          /\ PCRUKI \in Selection(q.stage)
          /\ q.stage = "ready" => PCRSysext \in Selection(q.stage)
      BY Zenon, Selected
    <3>2. /\ new.signed[0] = <<tpm[v].build, separated>>
          /\ \A i \in ImagePCRs : new.signed[i] = <<"image", separated>>
          /\ new.signed[PCRUKI] = <<PhasePath(tpm[v].phase)>>
          /\ q.stage = "ready" =>
               new.signed[PCRSysext] = <<IF tpm[v].merged THEN version[v] ELSE Absent, separated>>
      <4>1. \A i \in Selection(q.stage) : new.signed[i] = BankOf(v)[i]
        BY Zenon, <2>1
      <4>2. new.signed[0] = <<tpm[v].build, separated>>
        BY Zenon, <3>1, <4>1, BankValues
      <4>3. \A i \in ImagePCRs : new.signed[i] = <<"image", separated>>
        BY Zenon, <3>1, <4>1, BankValues
      <4>4. new.signed[PCRUKI] = <<PhasePath(tpm[v].phase)>>
        BY Zenon, <3>1, <4>1, BankValues
      <4>5. q.stage = "ready" =>
              new.signed[PCRSysext] = <<IF tpm[v].merged THEN version[v] ELSE Absent, separated>>
        BY Zenon, <3>1, <4>1, BankValues
      <4> QED BY Zenon, <4>2, <4>3, <4>4, <4>5
    <3>3. /\ DOMAIN new = {"stage", "todo", "values", "signed", "of"}
          /\ handle' = handle /\ version' = version
          /\ tpm[v] # NoTPM => tpm[v] \in BootState
      BY <1>6, <2>1 DEF SignPCRs, QuoteOf
    <3> HIDE DEF q
    <3> QED BY Zenon, <2>1, <2>2, <3>2, <3>3 DEF QuoteOf, new
  <2> QED BY Zenon, <1>6, <2>1, <2>2, <2>3, QuoteOfKeeps DEF SignPCRs
<1>7. ASSUME NEW v \in Node, JudgeQuote(v) PROVE QuoteInv'
  <2>1. readyPCRs' = readyPCRs
        \/ readyPCRs' = [readyPCRs EXCEPT ![v] = <<>>]
        \/ /\ readyPCRs' = [readyPCRs EXCEPT ![v] = quoting[v].values]
           /\ GoldenValues(quoting[v].values)
    BY Zenon, <1>7, VerifiedQuote DEF JudgeQuote
  <2>2. DOMAIN readyPCRs' = Node /\ \A u \in Node : readyPCRs'[u] = <<>> \/ GoldenValues(readyPCRs'[u])
    BY Zenon, <2>1
  <2> QED BY Zenon, <1>0, <1>7, <2>2, QuoteOfKeeps DEF JudgeQuote
<1>8. ASSUME NEW v \in Node, GoldenFetch(v) PROVE QuoteInv'
  <2>1. GoldenValues(readyPCRs[v])
    BY Zenon, <1>8 DEF GoldenFetch
  <2>2. 0 \in GoldenIndexes /\ ImagePCRs \subseteq GoldenIndexes
    BY DEF GoldenIndexes, goldenFirmwarePCRs, ImagePCRs
  <2>3. GoldenValues(command')
    BY Zenon, <1>8, <2>1, <2>2 DEF GoldenFetch, GoldenValues
  <2> QED BY Zenon, <1>8, <2>3, QuoteOfKeeps DEF GoldenFetch
<1>9. CASE GoldenWrite \/ GoldenClear
  <2>1. policyFile' = NoGolden \/ GoldenValues(policyFile'.values)
    <3>1. CASE GoldenWrite
      <4>1. policyFile'.values = command /\ GoldenValues(command)
        BY Zenon, <3>1 DEF GoldenWrite, QuoteInv
      <4> QED BY Zenon, <4>1
    <3>2. CASE GoldenClear
      BY Zenon, <3>2 DEF GoldenClear
    <3> QED BY Zenon, <1>9, <3>1, <3>2
  <2>2. command' = <<>> \/ command' = command
    BY <1>9 DEF GoldenWrite, GoldenClear
  <2> QED BY Zenon, <1>9, <2>1, <2>2, QuoteOfKeeps DEF GoldenWrite, GoldenClear
<1>10. ASSUME NEW b \in Build, NEW learn \in BOOLEAN, ServerStart(b, learn) PROVE QuoteInv'
  <2>1. server'.build = b /\ server'.policy = policyFile
    BY Zenon, <1>10 DEF ServerStart
  <2> QED BY Zenon, <1>10, <2>1, QuoteOfKeeps DEF ServerStart
<1>11. CASE UNCHANGED quoteVars
  BY Zenon, <1>11, QuoteOfKeeps DEF quoteVars
<1> QED BY Zenon, <1>1, <1>2, <1>3, <1>4, <1>5, <1>6, <1>7, <1>8, <1>9, <1>10, <1>11 DEF QuotesNext

-----------------------------------------------------------------------------
(* Quotes: the theorems.                                                   *)

\* Only JudgeQuote leaves a verdict behind.
LEMMA OnlyJudged ==
  ASSUME [QuotesNext]_quoteVars, \A v \in Node : ~JudgeQuote(v)
  PROVE last' = NoVerdict \/ UNCHANGED quoteVars
  BY Zenon DEF QuotesNext, PowerOn, Measure, MeasureSysext, PowerOff, BuildQuote, ReadPCRs, SignPCRs,
     GoldenFetch, GoldenWrite, GoldenClear, ServerStart

\* JudgeQuote leaves a verdict that is bound to what the TPM signed.
LEMMA QuoteBindsStep == QuoteInv /\ QuoteBinds /\ [QuotesNext]_quoteVars => QuoteBinds'
<1> SUFFICES ASSUME QuoteInv, QuoteBinds, [QuotesNext]_quoteVars PROVE QuoteBinds'
  OBVIOUS
<1>1. CASE \A v \in Node : ~JudgeQuote(v)
  <2>1. last' = NoVerdict \/ UNCHANGED quoteVars
    BY <1>1, OnlyJudged
  <2>2. CASE last' = NoVerdict
    BY Zenon, <2>2 DEF NoVerdict, QuoteBinds, Verified
  <2>3. CASE UNCHANGED quoteVars
    BY Zenon, <2>3 DEF quoteVars, QuoteBinds, Verified, Expected
  <2> QED BY <2>1, <2>2, <2>3
<1>2. ASSUME NEW v \in Node, JudgeQuote(v), Verified' PROVE QuoteBinds'
  <2> DEFINE q == quoting[v]
             compared == goldenFirmwarePCRs \cup IF q.stage = "ready" THEN {PCRSysext} ELSE {}
  <2>1. /\ last'.verdict = Judged(v) /\ last'.vm = v /\ last'.stage = q.stage /\ last'.of = q.of
        /\ last'.signed = q.signed /\ q.of # NoTPM /\ server' = server /\ version' = version
    BY Zenon, <1>2 DEF JudgeQuote
  <2>2. Judged(v) = "verified"
    BY <1>2, <2>1 DEF Verified
  <2>3. PhasePath(q.of.phase) = q.stage
    BY <2>1, <2>2, VerifiedQuote
  <2>4. /\ q.values = q.signed
        /\ \A i \in compared : Expected(i, version[v]) # {} => q.values[i] \in Expected(i, version[v])
    BY Zenon, <2>2, JudgedVerified
  <2>5. DOMAIN q.signed = Selection(q.stage)
    BY Zenon, <2>1 DEF QuoteInv, QuoteOf
  <2>6. GoldenIndexes \cap Selection(q.stage) \subseteq compared
    BY DEF GoldenIndexes, Selection, goldenFirmwarePCRs, firmwarePCRs, PCRUKI, PCRSysext
  <2>7. \A i : \A x \in Expected(i, version[v]) : Expected(i, version[v]) = {x}
    BY Zenon DEF Expected
  <2>8. \A i \in GoldenIndexes \cap DOMAIN q.signed : Expected(i, version[v]) \subseteq {q.signed[i]}
    BY <2>4, <2>5, <2>6, <2>7
  <2>9. \A i : Expected(i, version[v])' = Expected(i, version[v])
    BY <2>1 DEF Expected
  <2> HIDE DEF q
  <2> QED BY ZenonT(30), <2>1, <2>3, <2>8, <2>9 DEF QuoteBinds
<1> QED BY Zenon, <1>1, <1>2 DEF QuoteBinds

\* Every verdict of JudgeQuote agrees with the golden values.
LEMMA GoldenStep == QuoteInv /\ GoldenVouches /\ [QuotesNext]_quoteVars => GoldenVouches'
<1> SUFFICES ASSUME QuoteInv, GoldenVouches, [QuotesNext]_quoteVars PROVE GoldenVouches'
  OBVIOUS
<1>1. CASE \A v \in Node : ~JudgeQuote(v)
  <2>1. last' = NoVerdict \/ UNCHANGED quoteVars
    BY <1>1, OnlyJudged
  <2>2. CASE last' = NoVerdict
    BY Zenon, <2>2 DEF GoldenVouches
  <2>3. CASE UNCHANGED quoteVars
    BY Zenon, <2>3 DEF quoteVars, GoldenVouches, GoldenKnown, GoldenBuild, Verified
  <2> QED BY <2>1, <2>2, <2>3
<1>2. ASSUME NEW v \in Node, JudgeQuote(v), GoldenKnown PROVE GoldenVouches'
  <2> DEFINE q == quoting[v]
             compared == goldenFirmwarePCRs \cup IF q.stage = "ready" THEN {PCRSysext} ELSE {}
             expected(i) == Expected(i, version[v])
  <2>1. /\ last'.verdict = Judged(v) /\ last'.vm = v /\ last'.stage = q.stage /\ last'.of = q.of
        /\ last'.signed = q.signed /\ last'.values = q.values
        /\ q.of # NoTPM /\ server' = server /\ version' = version
    BY <1>2 DEF JudgeQuote
  <2>2. PICK b \in Build : server.policy.values[0] = <<b, TRUE>>
    BY Zenon, <1>2 DEF QuoteInv, GoldenKnown, GoldenValues
  <2>3. /\ GoldenIndexes \subseteq DOMAIN server.policy.values
        /\ \A i \in ImagePCRs : server.policy.values[i] = <<"image", TRUE>>
    BY Zenon, <1>2 DEF QuoteInv, GoldenKnown, GoldenValues
  <2>4. GoldenBuild = b
    BY <2>2 DEF GoldenBuild
  <2>5. /\ expected(0) = {<<b, TRUE>>} /\ \A i \in ImagePCRs : expected(i) = {<<"image", TRUE>>}
        /\ \A i \in goldenFirmwarePCRs : i = 0 \/ i \in ImagePCRs
    <3>1. /\ 0 \in GoldenIndexes /\ 0 # PCRSysext
          /\ ImagePCRs \subseteq GoldenIndexes /\ PCRSysext \notin ImagePCRs
          /\ \A i \in goldenFirmwarePCRs : i = 0 \/ i \in ImagePCRs
      BY DEF GoldenIndexes, goldenFirmwarePCRs, ImagePCRs, PCRSysext
    <3> QED BY Zenon, <2>2, <2>3, <3>1 DEF Expected
  <2>6. QuoteOf(v, q) /\ q.stage \in {"initrd", "ready"} /\ q.of \in BootState
    BY Zenon, <2>1 DEF QuoteInv, QuoteOf
  <2>7. ASSUME /\ q.of.build = b /\ q.values = q.signed
               /\ q.of.phase = IF q.stage = "initrd" THEN Separated ELSE ReadyPhase
               /\ q.stage = "ready" =>
                    IF version[v] \in Published THEN q.of.merged
                    ELSE server.policy.values[PCRSysext] = q.signed[PCRSysext]
        PROVE Judged(v) = "verified"
    <3>1. q.of.phase >= Separated /\ PhasePath(q.of.phase) = q.stage
      <4>1. CASE q.stage = "initrd"
        <5>1. q.of.phase = Separated
          BY Zenon, <2>7, <4>1
        <5> QED BY <4>1, <5>1 DEF PhasePath, Separated
      <4>2. CASE q.stage = "ready"
        <5>1. q.of.phase = ReadyPhase
          BY Zenon, <2>7, <4>2
        <5> QED BY <4>2, <5>1 DEF PhasePath, Separated, Leave, ReadyPhase
      <4> QED BY Zenon, <2>6, <4>1, <4>2
    <3>2. /\ q.signed[0] = <<b, TRUE>> /\ \A i \in ImagePCRs : q.signed[i] = <<"image", TRUE>>
          /\ q.signed[PCRUKI] = <<q.stage>> /\ handle[v] = AKTemplate
      BY Zenon, <2>1, <2>6, <2>7, <3>1 DEF QuoteOf
    <3>3. CheckAK(handle[v])
      <4>1. CheckAK(AKTemplate)
        BY DEF CheckAK, AKTemplate
      <4> QED BY Zenon, <3>2, <4>1
    <3>4. ASSUME q.stage = "ready" PROVE q.signed[PCRSysext] \in expected(PCRSysext)
      <4>1. CASE version[v] \in Published
        <5>1. q.signed[PCRSysext] = <<version[v], TRUE>>
          BY Zenon, <2>1, <2>6, <2>7, <3>1, <3>4, <4>1 DEF QuoteOf
        <5> QED BY Zenon, <4>1, <5>1 DEF Expected
      <4>2. CASE version[v] \notin Published
        BY <2>3, <2>7, <3>4, <4>2 DEF Expected, GoldenIndexes
      <4> QED BY Zenon, <4>1, <4>2
    <3>5. \A i \in compared : q.values[i] \in expected(i)
      BY Zenon, <2>5, <2>7, <3>2, <3>4
    <3>6. \A i \in goldenFirmwarePCRs : expected(i) # {}
      BY Zenon, <2>5
    <3>7. q.values = q.signed /\ q.values[PCRUKI] = <<q.stage>>
      BY Zenon, <2>7, <3>2
    <3> QED BY Zenon, ExpectedVerified, <3>3, <3>5, <3>6, <3>7
  <2>8. ASSUME q.of.build # b, q.values = q.signed PROVE q.values[0] \notin expected(0)
    <3>1. q.signed[0][1] = q.of.build
      <4>1. q.signed[0] = <<q.of.build, q.of.phase >= Separated>>
        BY Zenon, <2>1, <2>6 DEF QuoteOf
      <4>2. \A x, y : <<x, y>>[1] = x
        OBVIOUS
      <4> QED BY Zenon, <4>1, <4>2
    <3>2. <<b, TRUE>>[1] = b
      OBVIOUS
    <3>3. q.signed[0] # <<b, TRUE>>
      BY <2>8, <3>1, <3>2, Zenon
    <3> QED BY Zenon, <2>5, <2>8, <3>3
  <2>9. expected(0) # {} /\ 0 \in goldenFirmwarePCRs /\ goldenFirmwarePCRs \subseteq compared
    BY Zenon, <2>5 DEF goldenFirmwarePCRs
  <2>10. q.of.build # b => Judged(v) # "verified"
    BY Zenon, <2>8, <2>9, JudgedVerified
  <2>11. ASSUME q.of.build # b, q.of.build = server.build, server.policy.build = b
         PROVE Judged(v) \notin {"mismatch", "mismatch, same firmware"}
    <3>1. FirmwareVerdict = "mismatch, other firmware"
      BY <2>11, BuildAssumption DEF FirmwareVerdict
    <3>2. CASE q.values = q.signed
      <4>1. Judged(v) \in {"key", "digest", "pcr 11", FirmwareVerdict}
        BY Zenon, <2>8, <2>9, <2>11, <3>2, JudgedVerified
      <4> QED BY Zenon, <3>1, <4>1
    <3>3. CASE q.values # q.signed
      BY <3>3 DEF Judged, VerifyPCRs
    <3> QED BY Zenon, <3>2, <3>3
  <2>12. GoldenBuild' = b
    BY <2>1, <2>4 DEF GoldenBuild
  <2> HIDE DEF q
  <2> QED BY Zenon, <2>1, <2>7, <2>10, <2>11, <2>12 DEF GoldenVouches, Verified
<1>3. ASSUME NEW v \in Node, JudgeQuote(v), ~GoldenKnown PROVE GoldenVouches'
  BY Zenon, <1>3 DEF JudgeQuote, GoldenVouches, GoldenKnown
<1> QED BY <1>1, <1>2, <1>3

\* SubmitQuote: a verified quote vouches for the guest at the moment the TPM
\* signed: it was in the phase of its stage, and every compared PCR that has
\* an expected value held it.
THEOREM VerifiedQuotesBind == QuotesSpec => []QuoteBinds
<1>1. QuotesInit => QuoteBinds
  BY DEF QuotesInit, QuoteBinds, Verified, NoVerdict
<1> QED BY <1>1, QuoteInvInit, QuoteInvStep, QuoteBindsStep, PTL DEF QuotesSpec

\* vm-manager image golden: the values taken from one VM verify every VM of
\* the image under the firmware they were recorded with, and none under other
\* firmware, whose mismatch the verdict names.
THEOREM GoldenValuesVouch == QuotesSpec => []GoldenVouches
<1>1. QuotesInit => GoldenVouches
  BY Zenon DEF QuotesInit, GoldenVouches
<1> QED BY <1>1, QuoteInvInit, QuoteInvStep, GoldenStep, PTL DEF QuotesSpec
==============================================================================
