------------------------------- MODULE Quotes -------------------------------
(***************************************************************************)
(* What a quote says and what it is compared with: the agent that reads    *)
(* the PCRs in rounds and has the TPM sign them (internal/agent/quote),    *)
(* the checks of the verifier (internal/tpmquote, internal/attest) and the *)
(* golden values that `vm-manager image golden` takes from one VM's quote  *)
(* (cmd/image.go), while the guests go on measuring and the server is      *)
(* started again with other firmware.                                      *)
(*                                                                         *)
(* A PCR value is what has been measured into it.  Nonces and the pinned   *)
(* key are those of Attestation.                                           *)
(***************************************************************************)
EXTENDS Naturals, FiniteSetsExt

CONSTANTS
    Node,         \* VMs, all of one image
    Build,        \* firmware builds
    Kubernetes,   \* Kubernetes versions
    Published,    \* those with a pcr13 entry in the policy
    Round,        \* PCRs a TPM answers per TPM2_PCR_Read
    MaxPowerOns,  \* bound: boots of all VMs
    MaxServers    \* bound: starts of the server

ASSUME QuotesAssumption ==
    Published \subseteq Kubernetes /\ Round \in Nat \ {0} /\ MaxPowerOns \in Nat /\ MaxServers \in Nat

Absent == "absent"

\* The server has firmware, and the sha256 of a build is never empty.
ASSUME BuildAssumption == Build # {} /\ Absent \notin Build

VARIABLES
    server,      \* the firmware it boots, learn mode, the policy it has read
    policyFile,  \* golden and golden_firmware of the image's policy.json
    version,     \* Spec.KubernetesVersion of each VM
    tpm,         \* firmware, phase and sysext that have been measured
    handle,      \* the key at AKHandle, which outlives the boot
    quoting,     \* Build in the agent
    readyPCRs,   \* Attestation.Ready.PCRs, when verified
    command,     \* the values `image golden` has fetched
    last,        \* the quote judged last
    powerOns,
    servers

quoteVars == <<server, policyFile, version, tpm, handle, quoting, readyPCRs, command, last,
               powerOns, servers>>

-----------------------------------------------------------------------------
(* The TPM.                                                                *)

firmwarePCRs == 0..7
PCRUKI == 11
PCRSysext == 13
PCRs == firmwarePCRs \cup {PCRUKI, PCRSysext}

\* The phases of a boot: the initrd before and after the os-separator, the
\* system, and the system with the ready phase measured.
Off == 0
Enter == 1
Separated == 2
Leave == 3
ReadyPhase == 4

NoTPM == [build |-> Absent, phase |-> Off, merged |-> FALSE]

\* The phase path that PCR 11 holds.
PhasePath(phase) ==
    IF phase <= Separated THEN "initrd" ELSE IF phase = Leave THEN "between" ELSE "ready"

\* PCRs 1 and 5 hold what is the VM's own: credentials, partition table.
BankOf(v) ==
    LET t == tpm[v]
        separated == t.phase >= Separated IN
    [i \in PCRs |->
        CASE i = 0 -> <<t.build, separated>>
          [] i \in {1, 5} -> <<v, separated>>
          [] i \in {2, 3, 4, 6, 7} -> <<"image", separated>>
          [] i = PCRUKI -> <<PhasePath(t.phase)>>
          [] i = PCRSysext -> <<IF t.merged THEN version[v] ELSE Absent, separated>>]

\* AKTemplate, and a key another tool left in the TPM.
AKTemplate == [fixed |-> TRUE, restricted |-> TRUE, sign |-> TRUE, decrypt |-> FALSE,
               type |-> "ecc", size |-> "P-256", scheme |-> "ECDSA"]
ForeignKey == [AKTemplate EXCEPT !.restricted = FALSE]
NoKey == [AKTemplate EXCEPT !.type = "none"]

\* checkAK: the keys that are admitted.
CheckAK(k) ==
    /\ k.fixed /\ k.restricted /\ k.sign /\ ~k.decrypt
    /\ <<k.type, k.size>> \in {<<"ecc", "P-256">>, <<"rsa", "2048">>}
    /\ k.scheme \in IF k.type = "ecc" THEN {"ECDSA"} ELSE {"RSASSA", "RSAPSS"}

NoQuote == [stage |-> "none", todo |-> {}, values |-> <<>>, signed |-> <<>>, of |-> NoTPM]
NoGolden == [values |-> <<>>, build |-> Absent]
NoVerdict == [verdict |-> "none"]

QuotesInit ==
    /\ \E learn \in BOOLEAN :
         server = [build |-> CHOOSE b \in Build : TRUE, learn |-> learn, policy |-> NoGolden]
    /\ policyFile = NoGolden
    /\ version \in [Node -> Kubernetes]
    /\ tpm = [v \in Node |-> NoTPM]
    /\ \E k \in {NoKey, ForeignKey} : handle = [v \in Node |-> k]
    /\ quoting = [v \in Node |-> NoQuote]
    /\ readyPCRs = [v \in Node |-> <<>>]
    /\ command = <<>> /\ last = NoVerdict
    /\ powerOns = 0 /\ servers = 1

\* A VM boots with the firmware of the server; startBoot resets the record.
PowerOn(v) ==
    /\ tpm[v] = NoTPM /\ powerOns < MaxPowerOns
    /\ powerOns' = powerOns + 1
    /\ tpm' = [tpm EXCEPT ![v] = [build |-> server.build, phase |-> Enter, merged |-> FALSE]]
    /\ readyPCRs' = [readyPCRs EXCEPT ![v] = <<>>]
    /\ last' = NoVerdict
    /\ UNCHANGED <<server, policyFile, version, handle, quoting, command, servers>>

\* The guest measures its next phase.  The agent of the initrd is gone by the
\* time the system is ready.
Measure(v) ==
    /\ tpm[v].phase \in Enter..Leave
    /\ tpm[v].phase = Leave => quoting[v].stage # "initrd"
    /\ tpm' = [tpm EXCEPT ![v].phase = @ + 1]
    /\ last' = NoVerdict
    /\ UNCHANGED <<server, policyFile, version, handle, quoting, readyPCRs, command, powerOns,
                   servers>>

\* vm-kubernetes.service measures the sysext it has merged, if it ever does.
MeasureSysext(v) ==
    /\ tpm[v].phase >= Leave /\ ~tpm[v].merged
    /\ tpm' = [tpm EXCEPT ![v].merged = TRUE]
    /\ last' = NoVerdict
    /\ UNCHANGED <<server, policyFile, version, handle, quoting, readyPCRs, command, powerOns,
                   servers>>

PowerOff(v) ==
    /\ tpm[v] # NoTPM
    /\ tpm' = [tpm EXCEPT ![v] = NoTPM]
    /\ quoting' = [quoting EXCEPT ![v] = NoQuote]
    /\ last' = NoVerdict
    /\ UNCHANGED <<server, policyFile, version, handle, readyPCRs, command, powerOns, servers>>

-----------------------------------------------------------------------------
(* The agent.                                                              *)

Selection(stage) == firmwarePCRs \cup {PCRUKI} \cup IF stage = "ready" THEN {PCRSysext} ELSE {}

\* EnsureAK: an empty handle is filled from the template; readAK refuses a key
\* that is not of the template (matchesAKTemplate).
EnsureAK(v) ==
    LET key == IF handle[v] = NoKey THEN AKTemplate ELSE handle[v] IN
    key = AKTemplate /\ handle' = [handle EXCEPT ![v] = key]

\* Build, in the initrd and in the system.  Bound: one quote at a time, for
\* those of two VMs share nothing until they are judged.
BuildQuote(v, stage) ==
    /\ \A u \in Node : quoting[u] = NoQuote
    /\ tpm[v].phase \in IF stage = "initrd" THEN {Enter, Separated} ELSE {Leave, ReadyPhase}
    /\ EnsureAK(v)
    /\ quoting' = [quoting EXCEPT ![v] =
                     [NoQuote EXCEPT !.stage = stage, !.todo = Selection(stage)]]
    /\ last' = NoVerdict
    /\ UNCHANGED <<server, policyFile, version, tpm, readyPCRs, command, powerOns, servers>>

\* The lowest n of a set of indexes.
Lowest(S, n) == {i \in S : Cardinality({j \in S : j < i}) < n}

\* ReadPCRs: one TPM2_PCR_Read.
ReadPCRs(v) ==
    LET q == quoting[v]
        got == Lowest(q.todo, Round)
        bank == BankOf(v) IN
    /\ q.todo # {}
    /\ quoting' = [quoting EXCEPT
                     ![v].todo = q.todo \ got,
                     ![v].values = [i \in DOMAIN q.values \cup got |->
                                      IF i \in got THEN bank[i] ELSE q.values[i]]]
    /\ last' = NoVerdict
    /\ UNCHANGED <<server, policyFile, version, tpm, handle, readyPCRs, command, powerOns,
                   servers>>

\* AK.Quote: the TPM signs the PCRs as they are now.
SignPCRs(v) ==
    LET q == quoting[v]
        bank == BankOf(v) IN
    /\ q # NoQuote /\ q.todo = {} /\ q.of = NoTPM
    /\ quoting' = [quoting EXCEPT ![v].signed = [i \in Selection(q.stage) |-> bank[i]],
                                  ![v].of = tpm[v]]
    /\ last' = NoVerdict
    /\ UNCHANGED <<server, policyFile, version, tpm, handle, readyPCRs, command, powerOns,
                   servers>>

-----------------------------------------------------------------------------
(* The verifier.                                                           *)

\* Mutant: golden values are compared for every firmware PCR.
goldenFirmwarePCRsAll == firmwarePCRs

goldenFirmwarePCRs == {0, 2, 3, 4, 6, 7}

GoldenIndexes == goldenFirmwarePCRs \cup {PCRSysext}

\* expected: the pcr13 entry of the VM's version, else the golden value; the
\* empty set when there is neither.
Expected(i, ver) ==
    IF i = PCRSysext /\ ver \in Published THEN {<<ver, TRUE>>}
    ELSE IF i \in DOMAIN server.policy.values THEN {server.policy.values[i]}
    ELSE {}

\* Mutant: the digest is not compared with the values.
VerifyPCRsNot(q) == TRUE

\* VerifyPCRs: the values that were sent are the ones the TPM signed.
VerifyPCRs(q) == q.values = q.signed

\* firmwareVerdict: whether the server boots the build that was recorded.
FirmwareVerdict ==
    IF server.policy.build = Absent THEN "mismatch"
    ELSE IF server.policy.build = server.build THEN "mismatch, same firmware"
    ELSE "mismatch, other firmware"

\* Parse: a quote made by the TPM is well formed, of the right type and in one
\* bank, so that what it may refuse is the key.
Parse(v) == CheckAK(handle[v])

\* SubmitQuote from Parse on, in its order.
Judged(v) ==
    LET q == quoting[v]
        compared == goldenFirmwarePCRs \cup IF q.stage = "ready" THEN {PCRSysext} ELSE {}
        expected(i) == Expected(i, version[v])
        wrong == {i \in compared : expected(i) # {} /\ q.values[i] \notin expected(i)}
        unknown == {i \in compared \ {PCRSysext} : expected(i) = {}} IN
    IF ~Parse(v) THEN "key"
    ELSE IF ~VerifyPCRs(q) THEN "digest"
    ELSE IF q.values[PCRUKI] # <<q.stage>> THEN "pcr 11"
    ELSE IF wrong # {} THEN IF wrong \subseteq {PCRSysext} THEN "mismatch" ELSE FirmwareVerdict
    ELSE IF unknown # {} /\ ~server.learn THEN "unknown"
    ELSE "verified"

\* SubmitQuote and recordQuote.
JudgeQuote(v) ==
    LET q == quoting[v] IN
    /\ q.of # NoTPM
    /\ last' = [verdict |-> Judged(v), vm |-> v, stage |-> q.stage, of |-> q.of,
                values |-> q.values, signed |-> q.signed]
    /\ readyPCRs' = IF q.stage # "ready" THEN readyPCRs
                    ELSE [readyPCRs EXCEPT ![v] = IF Judged(v) = "verified" THEN q.values ELSE <<>>]
    /\ quoting' = [quoting EXCEPT ![v] = NoQuote]
    /\ UNCHANGED <<server, policyFile, version, tpm, handle, command, powerOns, servers>>

-----------------------------------------------------------------------------
(* vm-manager image golden, and the server that reads what it wrote.       *)

\* fetchAttestation: a verified ready quote is required.
GoldenFetch(v) ==
    /\ command = <<>> /\ readyPCRs[v] # <<>>
    /\ command' = [i \in GoldenIndexes |-> readyPCRs[v][i]]
    /\ last' = NoVerdict
    /\ UNCHANGED <<server, policyFile, version, tpm, handle, quoting, readyPCRs, powerOns,
                   servers>>

\* The firmware of the server, from GET /host, and writeGolden.
GoldenWrite ==
    /\ command # <<>>
    /\ policyFile' = [values |-> command, build |-> server.build]
    /\ command' = <<>> /\ last' = NoVerdict
    /\ UNCHANGED <<server, version, tpm, handle, quoting, readyPCRs, powerOns, servers>>

\* --clear.
GoldenClear ==
    /\ policyFile # NoGolden /\ command = <<>>
    /\ policyFile' = NoGolden
    /\ last' = NoVerdict
    /\ UNCHANGED <<server, version, tpm, handle, quoting, readyPCRs, command, powerOns, servers>>

\* The server starts again, with any firmware and mode; it reads the policies
\* once (images.Load).  Running VMs are reattached.
ServerStart(b, learn) ==
    /\ servers < MaxServers
    /\ servers' = servers + 1
    /\ server' = [build |-> b, learn |-> learn, policy |-> policyFile]
    /\ last' = NoVerdict
    /\ UNCHANGED <<policyFile, version, tpm, handle, quoting, readyPCRs, command, powerOns>>

-----------------------------------------------------------------------------
QuotesNext ==
    \/ \E v \in Node :
         \/ PowerOn(v) \/ Measure(v) \/ MeasureSysext(v) \/ PowerOff(v)
         \/ \E stage \in {"initrd", "ready"} : BuildQuote(v, stage)
         \/ ReadPCRs(v) \/ SignPCRs(v) \/ JudgeQuote(v)
         \/ GoldenFetch(v)
    \/ GoldenWrite \/ GoldenClear
    \/ \E b \in Build, learn \in BOOLEAN : ServerStart(b, learn)

QuotesSpec == QuotesInit /\ [][QuotesNext]_quoteVars

-----------------------------------------------------------------------------
(* Properties.                                                             *)

Verified == last.verdict = "verified"
GoldenKnown == server.policy # NoGolden
GoldenBuild == server.policy.values[0][1]

\* A verified quote vouches for the guest at the moment the TPM signed, not
\* for what the agent read round by round before: it was in the phase of the
\* stage, and every compared PCR that has an expected value held it.
QuoteBinds ==
    Verified =>
        /\ PhasePath(last.of.phase) = last.stage
        /\ \A i \in GoldenIndexes \cap DOMAIN last.signed :
             Expected(i, version[last.vm]) \subseteq {last.signed[i]}

\* The golden values of one VM vouch for every VM of the image: with the
\* firmware they were recorded under, a quote that no measurement overtook
\* verifies in the phase of its stage, whatever is the VM's own in PCRs 1 and
\* 5; with other firmware none does, and the verdict names the firmware if the
\* build in the policy is that of the values and the VM was booted by this
\* server's.  (At the ready stage the sysext must be the recorded or published one.)
GoldenVouches ==
    last # NoVerdict /\ GoldenKnown =>
        /\ /\ last.of.build = GoldenBuild
           /\ last.values = last.signed /\ last.of.phase = IF last.stage = "initrd" THEN Separated ELSE ReadyPhase
           /\ last.stage = "ready" =>
                IF version[last.vm] \in Published THEN last.of.merged
                ELSE server.policy.values[PCRSysext] = last.signed[PCRSysext]
           => Verified
        /\ last.of.build # GoldenBuild => ~Verified
        /\ last.of.build # GoldenBuild /\ last.of.build = server.build
             /\ server.policy.build = GoldenBuild =>
               last.verdict \notin {"mismatch", "mismatch, same firmware"}
=============================================================================
