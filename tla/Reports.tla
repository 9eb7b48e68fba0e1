------------------------------ MODULE Reports -------------------------------
(***************************************************************************)
(* A VM's guest reports (vm/imds.go StoreReport, metrics/guest.go) and the *)
(* one answer put together from two places: get_vm_metrics, which reads    *)
(* the raw report and then its summary (api/vm.go metrics).                *)
(***************************************************************************)
EXTENDS Naturals

CONSTANTS
    Uploads,        \* bound: reports the guest uploads, numbered as they come
    MaxRestores     \* bound: restarts of vm-manager

ASSUME ReportsAssumption == Uploads \in Nat /\ MaxRestores \in Nat

Report == 1..Uploads
NoReport == 0

VARIABLES
    upload,     \* where StoreReport of each upload is
    parses,     \* the uploads that are a systemd-report
    stored,     \* entry.report
    reportFile, \* report.json
    summary,    \* guestCollector.vms: the upload it is of
    raw,        \* what metrics() has from Report, in a set
    answer,     \* the last answer of get_vm_metrics
    unsettled,  \* history: uploads overlapped, or vm-manager was restarted, and no
                \* upload that parses was stored and exported alone since
    restores

reportVars == <<upload, parses, stored, reportFile, summary, raw, answer, unsettled, restores>>

-----------------------------------------------------------------------------
NoAnswer == [note |-> "", raw |-> NoReport, guest |-> NoReport, settled |-> TRUE]

\* No StoreReport is between its two steps.
Settled == ~unsettled /\ \A u \in Report : upload[u] # "kept"

ReportsInit ==
    /\ upload = [u \in Report |-> "none"] /\ parses \in SUBSET Report
    /\ stored = NoReport /\ reportFile = NoReport /\ summary = NoReport
    /\ raw = {} /\ answer = NoAnswer /\ unsettled = FALSE /\ restores = 0

\* Service.StoreReport, under s.mu: in memory and in report.json.
KeepReport(u) ==
    /\ upload[u] = "none" /\ \A w \in Report : w < u => upload[w] # "none"
    /\ upload' = [upload EXCEPT ![u] = "kept"]
    /\ stored' = u /\ reportFile' = u
    /\ unsettled' = (unsettled \/ \E w \in Report : upload[w] = "kept")
    /\ UNCHANGED <<parses, summary, raw, answer, restores>>

\* Mutant: a report that does not parse takes the last one away.
ReplaceCleared(u) == IF u \in parses THEN u ELSE NoReport

\* guestCollector.store: a report that parses takes the place of the last one.
Replace(u) == IF u \in parses THEN u ELSE summary

\* Registry.StoreReport, without the lock.
ExportReport(u) ==
    /\ upload[u] = "kept"
    /\ upload' = [upload EXCEPT ![u] = "done"]
    /\ summary' = Replace(u)
    /\ unsettled' = (unsettled /\ ~(u \in parses /\ u = stored /\ \A w \in Report \ {u} : upload[w] # "kept"))
    /\ UNCHANGED <<parses, stored, reportFile, raw, answer, restores>>

\* metrics: Service.Report ...
MetricsReport ==
    /\ raw = {}
    /\ raw' = {stored}
    /\ UNCHANGED <<upload, parses, stored, reportFile, summary, answer, unsettled, restores>>

\* The note that explains a missing guest section.
Note(r) ==
    IF r = NoReport THEN "no report"
    ELSE IF summary = NoReport THEN "not a systemd-report" ELSE ""

\* ... then Registry.VM, which has the last summary of the VM.
MetricsVM ==
    \E r \in raw :
        /\ answer' = [note |-> Note(r), raw |-> r, guest |-> summary, settled |-> Settled]
        /\ raw' = {}
        /\ UNCHANGED <<upload, parses, stored, reportFile, summary, unsettled, restores>>

\* vm-manager starts again: loadEntry reads report.json, the registry is new.
Restore ==
    /\ restores < MaxRestores /\ restores' = restores + 1
    /\ upload' = [u \in Report |-> IF upload[u] = "kept" THEN "done" ELSE upload[u]]
    /\ stored' = reportFile /\ summary' = NoReport
    /\ raw' = {} /\ answer' = NoAnswer /\ unsettled' = TRUE
    /\ UNCHANGED <<parses, reportFile>>

ReportsNext ==
    \/ \E u \in Report : KeepReport(u) \/ ExportReport(u)
    \/ MetricsReport \/ MetricsVM \/ Restore

ReportsSpec == ReportsInit /\ [][ReportsNext]_reportVars

-----------------------------------------------------------------------------
(* Properties.                                                             *)

\* What get_vm_metrics shows is of the guest's last report that parses, and its
\* note is true: "the guest's last upload is not a systemd-report and was not
\* exported".  Asked while an upload is stored and not yet exported, after two
\* uploads at once (exported in either order), or after a restart (which begins
\* without summaries), it may be neither; the next upload that parses mends it.
MetricsTrue ==
    answer.settled =>
        /\ answer.note = "not a systemd-report" => answer.raw \notin parses
        /\ \A u \in parses : u <= answer.raw => answer.guest \in parses /\ answer.guest >= u
=============================================================================
