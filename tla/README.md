# Verification of vm-manager

TLA+ models of vm-manager, the TLC runs that check them on small instances and
TLAPS proofs of their safety properties for every size. The models are written
from the Go source; `PROJECT.json` names the source lines behind every definition, the
runs, the mutants, the findings and the hazards.

```
tlc -workers 2 -config MCLifecycle.cfg MCLifecycle     # a run
tlapm VMLifecycleProofs.tla                            # a proof
```

## The system

vm-manager is one Go process per host and state directory. It creates VMs that
install an operating system to a disk (phase A) and then boot from it (phase
B), keeps a record of each in `vms/<id>/vm.json`, and leaves the QEMU and swtpm
processes running when it is restarted.

| part | state | operations | what makes it hard |
|---|---|---|---|
| VM service (`internal/vm`) | `s.vms`, `entry.rec`, `entry.proc`, `entry.opMu`, `s.mu`, `vm.json` | Create, Start, Stop, Reboot, Delete, supervisor (exit, timer, READY=1), handoff, Load, Close | calls race supervisors, a handoff that holds no lock, shutdown, crashes at any step |
| IMDS adapter, verifier, agent (`internal/vm/imds.go`, `internal/attest`, `internal/nonce`, `internal/imds`, `internal/agent`) | `rec.Attestation`, `LastError`, nonces, the pinned key, results | nonce, quote, release of user-data, reset on boot | requests of an earlier boot, retries, two quotes judged at once |
| TPM quotes and golden values (`internal/agent/quote`, `internal/tpmquote`, `cmd/image.go`) | PCRs, the key at its handle, `policy.json` | read in rounds, sign, verify, record golden values | the guest measures on while its PCRs are read; firmware and policy change with the server |
| Networks (`internal/network`, `persistNetworks`) | networks, leases, IMDS servers, port forwards, `networks.json` | create, delete, attach, detach, restore, look a guest up by its address, forward | snapshot and write are two steps, check and close are two holds of a mutex, failing writes, addresses given on |
| Launcher and runtimes (`internal/runtime/proc`, `internal/runtime/qemu`, `internal/tpm`) | units, pidfds, QMP socket, exit statuses | start, attach, watch, settle, release, stop, kill | the unit name outlives the process behind it, systemctl calls that fail |
| serve (`cmd/serve.go`, `notify_persist.go`, `lock.go`) | flock, notify port file, bound ports, network socket path | start-up in order, shutdown in order | an old and a new process overlap |
| QMP, varlink, notify (`qmp.go`, `internal/varlink`, `notify.go`) | pending commands, received descriptors, subscriptions, messages being read | execute, read, receive, subscribe, deliver | replies, ends of connections and cancellations race |
| API and guest reports (`internal/api`, `internal/metrics`) | raw report, `report.json`, summaries | a route and a tool per operation; store, export, summarise | two surfaces over one service; one answer from two places |
| OAuth, catalog of releases, host gauges, command line | | | stateless or pure I/O: not modelled, see below |

The parts meet in the VM service: a start attaches the network, starts swtpm,
subscribes to the CID and starts QEMU; the supervisor learns of the exit from
the launcher, stops swtpm, unsubscribes and settles the record; the metadata
service writes attestation results into the record of the running boot.

## Modules

| module | models |
|---|---|
| `VMLifecycle` | the VM service. Threads are API calls, the supervisor of each QEMU run and the per-entry part of Close. A block under `s.mu` is one step, `opMu` is a variable, and a QEMU start is three steps (guards, process up, commit). |
| `VMContract` | the abstract specification: the transition table of `doc.go` on the persisted state and `InstalledAt`. Transitions the code makes beyond the table are kept apart at its end. |
| `VMLifecycleInv` | the inductive invariant `IInv`, as named conjuncts |
| `VMLifecycleProcesses`, `VMLifecycleProofs` | the proofs: types, locks and processes, then the VMs and the refinement |
| `MCLifecycle`, `LifecycleClaims` | instances for TLC; a statement of a comment |
| `Attestation` | nonces, quotes, verdicts and user-data of one VM over several boots and restarts |
| `Quotes` | what a quote says and is compared with: the agent's rounds of reading, the key, the checks of the verifier, `image golden` and the policy a server reads at its start. A PCR value is the record of what was measured into it. |
| `AttestationProofs` | the proofs about both |
| `MCAttestation` | the two side by side |
| `Networks`, `LeaseClaims` | networks, leases, IMDS registration and the two files under overlapping API calls; a statement of a comment |
| `Metadata` | VMs by their address: the entry from allocate to the end of Delete step by step, requests of guests and Forward calls in flight beside it |
| `NetworksProofs` | the proofs about `Networks` |
| `MCNetworks` | `Networks` and `Metadata` side by side |
| `Units`, `MCUnits` | QEMU and swtpm as systemd units, one systemctl call or wait per step |
| `UnitsProofs` | the proofs: host and driver, then watchers, stops and theorems |
| `QMP`, `Varlink`, `Subscriptions`, `Notify` | the QMP client; the varlink connection with its descriptors and the volume acquired over it; CIDs and notify subscriptions; the messages of guests on their way through the notify listener |
| `Serve` | start-up and shutdown of overlapping vm-manager processes |
| `API`, `Reports` | the routes and tools over the services; guest reports stored, exported and summarised |
| `ChannelsProofs`, `SubscriptionsProofs`, `ServeProofs` | the proofs about `QMP`, `Notify`, `Reports` and `Varlink`; about `Subscriptions`; about `Serve` and `API` |
| `MCChannels` | `QMP`, `Varlink`, `Subscriptions`, `Notify`, `Serve`, `API` and `Reports` side by side |

"Side by side": the MC module has a variable, chosen initially, that says which
module a behaviour is of. The others keep their initial state in it, so each is
checked exactly as it would be alone and the state counts add up.

State and actions keep the names of the code. A definition starting with
"Mutant:" in its comment is a plausible bug used to test that a property
notices; no specification uses it.

`Networks`, `Metadata`, `Units`, `Subscriptions` and `Serve` each model a slice of the same
service at a finer grain than `VMLifecycle` does for that slice (the network
calls of a start, its systemctl calls, its subscriptions, the processes around
it) and leave the rest of it coarse. They are checked separately: their product
is out of reach, and the interface between them (a start succeeds or fails, an
exit is reported after the process is dead) is what `OnePerUnit` and
`DoneMeansDead` establish for the launcher that `VMLifecycle` assumes.

## Runs

| run | question | answer |
|---|---|---|
| `lifecycle` | do calls, supervisors, timeouts, a stopping Close, a crash and restarts keep one QEMU per disk, records that match processes, and the contract? (children of vm-manager) | holds |
| `lifecycle_units` | the same with units that outlive vm-manager and a detaching Close: is `IInv` an invariant, does `vm.json` implement `VMContract`? | holds |
| `lifecycle_live` | do Close, Delete, Stop and the installer end? | holds, stopping Close |
| `attestation` | is user-data released only by an initrd quote recorded in this boot, a nonce used once, one key accepted, a rejection visible? does a verified quote speak of one moment of the guest, and do golden values of one VM vouch for the others and for no other firmware? | holds |
| `networks` | is an address leased once, does a running VM keep its lease, does no lease outlive its VM? is a guest taken for the VM it is, and does Delete leave nothing behind? | holds until the first restart, uniqueness always; what late requests leave behind is stated in `NothingLeftBehind` |
| `launcher` | one process per unit, exits reported only for the dead, swtpm after QEMU, no endless wait, with a failing systemctl call and a restart anywhere | holds |
| `channels` | are replies, descriptors, CIDs, subscriptions and notifications never lost, leaked, mixed up? is a reattached guest heard on the port it carries, and does whoever serves listen at the network socket? do a route and its tool mean the same? is what get_vm_metrics says true? | holds, exceptions stated in `SubscriptionHeld`, `APIParity`, `MetricsTrue`, and conditions on overlapping starts |
| `claim_delete` | doc.go:44, no start once Delete has begun | violated: a Create overtaken between allocate and launch |
| `claim_close_returns` | doc.go:51, Close returns | violated with DetachOnClose: Delete waits for a supervisor that has left, holding `opMu` |
| `claim_leases` | doc.go:114, leases survive restarts | violated: an older snapshot is written over a newer one |
| `claim_identity` | README.md:308-313, networks with overlapping CIDRs do not see each other and a guest is identified by its lease address | violated: `LookupByIP` searches the VMs of all networks |
| `claim_release` | systemd.go:360, release follows the end of the process | violated: the poll fallback takes a failed `systemctl show` for an exit |

Conditions in properties are not decoration. `GuestHasLease` excludes the
window in `Manager.Delete` between looking at the leases and closing the
network; `GuestsHeard` and `NetworkServed` exclude two first starts that
overlap, and overlapping starts that no recorded notify port holds back;
`DoneMeansDead` excludes a process settled on a failed show; `SettlesOwn`
excludes a process whose holder stopped waiting; `TeardownAfterExit` is about
the plain launcher; `AddressIsIdentity` excludes a Create being discarded and a
VM that Load marked failed, `NothingLeftBehind` calls that looked the VM up
before teardown; `ReadyIsOwn` excludes a message that was being read while the
CID changed hands; `APIParity` fields neither surface knows and console lines
that are no number; `MetricsTrue` answers given while an upload is between its
two steps, after two at once or after a restart. Each exclusion is a behaviour TLC reported, and each is
listed under "Observations".

### Bounds

- lifecycle: one VM, two calls at a time (plus its supervisors and the visit of
  Close), three QEMU runs, one crash, any number of clean restarts within the
  runs. VMs share only `s.vms` and `closing`, so one VM with two calls shows
  every race over `opMu`; three runs are an installer, its boot and a later
  start.
- lifecycle_live: two runs, no crash; liveness needs no third run because no
  obligation spans more than one stop.
- attestation: two boots, two nonces, two keys, two requests in work, one
  restart: the least at which a request of the previous boot meets one of this.
  Quotes: two VMs, two boots, two firmware builds, two Kubernetes versions of
  which one is published, eight PCRs per read (so that a quote takes two rounds,
  as with a real TPM) and two starts of the server: one VM records, the other is
  compared, under the same firmware or the other.
- networks: one name with two generations, two VMs, two addresses, two calls,
  one restart, every write able to fail. Two addresses for two VMs make the pool
  both full and reused. Metadata: two VMs one after the other on one address,
  one call in flight, one restart; `claim_identity` has two networks.
- launcher: two processes per unit, one failing call, one restart. With two
  failing calls `WaitsEnd` states its limit (`faults >= 2`): a SIGKILL that
  fails twice leaves Stop waiting for the guest.
- channels: three commands of two callers; three replies of up to two parts and
  two descriptors; two VMs, CIDs 3 to 6 with the base at 5 (the search wraps),
  one retry, three subscriptions; three boots on one CID with three messages and
  a channel of one, so that it is full and reused; two vm-manager processes, two
  ports, four starts (writes of the notify-port file succeed unless another
  process renamed the shared temporary file away); every API request with every
  outcome of its method; three uploads, any of which parse, and one restart.

Symmetry is used over calls, VMs, keys, handlers and processes, in runs of
safety properties only. Deadlock is checked in `lifecycle` and `lifecycle_live`.
`lifecycle_units` can stop for good where a detaching Close hangs
(`claim_close_returns`). The other runs end where a bound is used up (nothing is
left to start, issue or send), which is an end of the model and not of the
system.

### Fairness

`FairSpec` of `VMLifecycle` assumes
- strong fairness of each thread: a goroutine blocked on `opMu` gets it when it
  is free again and again (Go mutexes hand over to starving waiters), and a
  select with a ready case proceeds;
- weak fairness of the exit of a QEMU that was told to end (Stop escalates to
  SIGKILL) and of the launcher's report of an exit;
- weak fairness of Load and of the steps of Close.
Nothing is assumed of clients, guests, timers racing exits, or crashes.

## Proofs

Every theorem is for all values of the constants: any sets of VMs, calls,
callers, keys, requests and builds, any number of runs, boots, crashes,
restarts, messages and failing calls. What is assumed of the constants are the
named assumptions of the modules: bounds are naturals, options are Booleans,
identities differ from one another and from the null values; the notify buffer
holds at least one message (`NotifyAssumption`); there is a
firmware build, and its hash is not empty (`BuildAssumption`); the range of
CIDs is not empty and does not begin at 0 (`CIDAssumption`). One theorem has a
hypothesis of its own, `Room`: there are fewer VMs than CIDs.

| theorem | states |
|---|---|
| `TypeCorrect` (`VMLifecycleProcesses`) | `Spec => []TypeOK` |
| `MutualExclusion` (`VMLifecycleProcesses`) | `Spec => []LockDiscipline`: who is inside `opMu` holds it |
| `OneQEMUPerVM`, `SupervisorOwns` (`VMLifecycleProcesses`) | `Spec => []OneQEMU`, `Spec => []SupervisorOwnsProcess` |
| `Inductive`, `StateTable`, `HandoffNeverLost`, `TeardownWaits`, `ClosedForGood` (`VMLifecycleProofs`) | `Spec => []` of `IInv`, `StateMatchesProcess`, `HandoffKept`, `TeardownAfterExit`, `ClosedStaysStopped` |
| `ImplementsContract` (`VMLifecycleProofs`) | `Spec => RecordContract`: `vm.json` implements `VMContract` |
| `UserDataAfterQuote`, `NonceVerifiesOnce`, `QuotesShareKey`, `RejectionVisible` (`AttestationProofs`) | `Spec => []` of `UserDataGated`, `NonceSingleUse`, `OneKey`, `RejectionShown` of `Attestation` |
| `VerifiedQuotesBind`, `GoldenValuesVouch` (`AttestationProofs`) | `QuotesSpec => []` of `QuoteBinds`, `GoldenVouches` of `Quotes` |
| `OneProcessPerUnit`, `DoneAfterExit`, `SettlesOwnUnit`, `SwtpmOutlivesQEMU`, `WaitsForTheDying` (`UnitsProofs`) | `Spec => []` of `OnePerUnit`, `DoneMeansDead`, `SettlesOwn`, `TPMAfterQEMU`, `WaitsEnd` of `Units` |
| `AcknowledgementsCount`, `NotificationsAreOwn`, `MetricsAreTrue` (`ChannelsProofs`) | `QMPSpec => []RepliesKept`, `NotifySpec => []ReadyIsOwn`, `ReportsSpec => []MetricsTrue` |
| `FilesStayWithReply`, `FilesAccounted` (`ChannelsProofs`) | `VarlinkSpec => []FilesBelong`, `VarlinkSpec => []NoFileLeaks` |
| `CIDsDiffer`, `BootedAreHeard` (`SubscriptionsProofs`) | `SubscriptionsSpec => []CIDsUnique`; given `Room`, `SubscriptionsSpec => []SubscriptionHeld` |
| `ReattachedAreHeard`, `NetworkIsServed`, `SurfacesAgree` (`ServeProofs`) | `ServeSpec => []GuestsHeard`, `ServeSpec => []NetworkServed`, `APISpec => []APIParity` |
| `NoAddressTwice`, `AddressStaysLeased`, `NoLeaseIsLost` (`NetworksProofs`) | `Spec => []` of `LeasesUnique`, `GuestHasLease`, `LeaseHasOwner` of `Networks` |

### VMLifecycle

`OneQEMU` is not inductive: that a start finds no other run alive depends on
who holds `opMu`, on `entry.proc` being the only supervised run, and on what a
restart finds. The invariant is built in four layers, each inductive relative
to those below:

1. `TypeInv`: types of all variables.
2. `LockInv`: `LockDiscipline` and which code each kind of thread can be in,
   while Load runs and after. A lemma per action shows that it moves one thread
   and takes or gives back one lock.
3. `ProcInv`: a process has a supervisor, a start in flight has an entry without
   a process, a Create comes before every run of its VM, with the plain launcher
   every running QEMU is an entry's or a start's (`Tracked`), and `OneQEMU`. With
   the systemd launcher the last is due to the refusal of a loaded unit name.

4. `VMInv`, one VM at a time: `ProcessLife` (an exit is reported once and for
   good, a Stop or Delete waits for the run it found, teardown meets no start),
   `RecordLife` (a state says who is at work: `StateFollows`, and what `vm.json`
   may lag behind: `SavedOrGone`), `InstallerVouches` (an installed record has an
   installer run that exited 0) and `StaysStopped`.

`IInv` of `VMLifecycleInv` is the conjunction; TLC checks all of it in
`lifecycle_units`. But for the start and the end of vm-manager a step is of one
VM, so each lemma of `VMLifecycleProofs` shows that an action leaves the other
VMs alone, keeps `VMInv` of its own and takes the persisted record where
`VMContract` allows; the refinement is the last of the three.

### Attestation and Quotes

`AttestInv` adds to the four properties what the steps between them need. A
nonce that a request has taken out is in no other request, not in the store and
under no accepted quote (`NonceInv`). A verified quote on its way from enroll to
the record is signed by the pinned key, and so is every quote accepted since the
last restart (`KeyInv`): enroll compares under the mutex of the verifier, so the
second of two first quotes meets the key of the first. A request has a verdict
exactly when it is past the checks (`VerdictInv`).

`QuoteInv` says what a bank of PCRs can look like, value by value: the values a
VM has read, those in the policy, in the file and in the hands of `image golden`
are banks of the ready phase of some boot. `QuoteBinds` then follows from the
checks in their order, because the signed digest is that of the moment of
signing; `GoldenVouches` compares two banks of the same phase PCR by PCR.

### Units

`UnitInv` has four parts. `HostInv`: what runs is the main process of its unit,
so a second process under the name needs the first to have ended. `DriverInv`:
which processes a start, an attach or a boot holds at each of its calls, and
that a process it waits for has a watcher. `WatchInv`: what a watcher knows at
each of its steps (a status it read is its own process's unless the holder gave
up; released means dead unless a show failed). `StopInv`: Stop and the
supervisor act on watched processes, and a Stop ends without an exit only after
two failing calls.

### QMP, Notify, Reports and Varlink

`QMPInv`: ids are issued once; a pending id belongs to the caller whose command
it is; a reply that was read is in the channel of its caller until taken; after
the end of the connection nothing becomes pending. `NotifyInv`: a CID has one
holder, its channel is the holder's, and a message was sent by the run that held
the CID when it was accepted unless the CID has changed hands since.
`ReportsInv`: outside the windows named in `MetricsTrue`, the last exported
summary is of the last report that parses.

`VarlinkInv` speaks of positions in the stream instead of the replies one by
one, so no induction over sequences is needed. Replies lie one after the other
and what was consumed is whole replies (`Layout`). A batch of descriptors ends
inside the reply it came with, which is still to be consumed (`Batches`): so
taking the batches that end before the cut takes those of this reply and no
other, however recvmsg split it. A descriptor that arrived is in a batch, with
the caller, in the volume or closed (`Kept`), and in one of these only
(`Accounted`).

### Subscriptions

`CIDInv` is enough for `CIDsUnique`: allocate and reassignCID choose outside the
CIDs of all records as long as one is left, and a QEMU has the CID of its record. `SubscriptionHeld`
needs `SubscriptionInv`: channels are not shared and a subscribed one is open,
and a VM that subscribed alone has, under its CID, the channel it reads from.
What could take it away is another VM that has given the CID up and has yet to
drop its subscription, the window of `shared`. That the search for a CID ends
below the reserved last value rests on `Room`; it is proved by counting: the
search goes round the whole range, and the records cannot fill it.

### Serve and API

`ServeInv`: without overlap one process is up (`Alone`); a recorded port stays
recorded (`PortKept`) and is the one every later process asks for (`PortSteady`);
whoever got past the listener has that port until the last step of its close,
so no second process reaches the network (`PortGuards`). `GuestsHeard` follows
from the second and third, `NetworkServed` is preserved because of the last. The
theorems keep the exclusions of the two properties.

`SurfacesAgree` is a case split over requests and outcomes; `API` has no
constants, so it says no more than the run, in a form that does not depend on
enumerating them.

### Networks

Two layers. `NetInv` holds always: the shape of a call at each of its steps,
what it holds (`opMu` of its VM from launch on, `Manager.mu` between the two
steps of `Manager.Delete`), and `LeasesUnique`. A snapshot on its way to
`networks.json` and the file itself must be restorable, that is free of
duplicate addresses, because Restore takes them over without looking.

`FirstRun` holds until vm-manager first ends, as do the two properties that
follow from it. Generations of a name are numbered and those before the current
one are closed, so a lease in a live network is in the last (`Numbered`). An id
is fresh until allocate; a call between attach and the start of QEMU has its
lease; past detach, the VM has none left, so that forget drops a record nobody
leases for (`FreshAt`). The leases of a VM are in the network of its record, and
the address of a guest is one of them (`Attachment`).

The next free address is a least element of a set of numbers; that there is one
is taken from the well-foundedness of the naturals.

### Only model-checked

- Liveness (`CloseCompletes`, `InstallSettles`, `DeleteCompletes`,
  `StopCompletes`): fairness and ENABLED are out of the prover's reach.
- `AddressIsIdentity` and `NothingLeftBehind` of `Metadata`: both have
  exclusions that speak of calls in flight, and an inductive invariant has to
  follow an entry, its lease and its listeners through teardown; not attempted.

## Observations

Besides the five claims, TLC shows these behaviours of the code. Each is in the
models; none is excluded from the state space.

- A metadata request that found the entry before Delete saves `vm.json` again
  after `RemoveAll` (imds.go:153), so the record of a deleted VM can reappear;
  doc.go:38 says the record disappears.
- A quote of one boot that is still being verified when the VM is stopped and
  started is recorded in the next boot (imds.go:177); doc.go:70-71 says
  user-data is gated again after Start.
- CreateNetwork and DeleteNetwork of one name can leave the server of the dead
  network registered (imds.go:219), so the next network of that name has none;
  service.go:480 says it is served before any guest can boot.
- `Manager.Delete` looks at the leases and closes the network in two holds of
  its mutex; an Attach in between loses its network (manager.go:111-126).
- A start whose `systemctl show` fails after `systemd-run` leaves an orphan that
  blocks the unit name until it ends (systemd.go:152), and `prepare` of the next
  start removes its QMP socket (runtime.go:244).
- A failed reattachment stops swtpm while QEMU runs on (reattach.go:66).
- `components.close` gives the state directory back before it closes the
  networks, so with `--notify-port` or without vsock the old process can unlink
  the network socket of the new one (serve.go:457-480, network.go:457).
- Two first starts at once can record each other's notify port, which is written
  before the lock is taken (notify_persist.go:50).
- `reassignCID` gives a CID up before its subscription is dropped; a VM that
  takes the CID in between is deaf for that boot (lifecycle.go:379-391).
- A crash between `RemoveAll` and `persistNetworks` leaves a lease without a VM,
  which blocks DeleteNetwork (lifecycle.go:338).
- discard gives the address of a failed Create back while its record, which is
  not marked deleting, still has it; a record that Load marks failed keeps its
  address too. The next VM with that address is then one of two records
  `LookupByIP` finds (imds.go:24). `rec.IP` is written once, at Create.
- Forward appends its listener to the entry after an unlocked wait; if Delete
  tears the entry down in between, the listener stays until vm-manager ends
  (exec.go:229-235). A report exported after ForgetVM leaves its series.
- `image golden` writes the firmware of the server of that moment; when the VM
  was booted by a server with other firmware, `golden_firmware` is not the build
  of the values and a later verdict names the wrong one (image.go:206).
- A notification that is being read when its sender's CID gets a new holder is
  delivered to the new one (notify.go:225).
- Between store and export of an upload, and after a restart until the next one,
  get_vm_metrics says that the last upload was no systemd-report though it was
  (api/vm.go:186).
- A route refuses unknown fields and console lines that are no number, its tool
  takes them (rest.go:221, mcp.go).

## Not modelled

- OAuth, flags, logging, tracing, host gauges, host information, identity, build
  information: stateless, or read-only.
- Signatures and binary formats of quotes: a quote in `Quotes` was made by the
  TPM. JSON encodings, the rendering of metadata keys, the parsing of a report.
- QEMU's command line (spec.go, compat.go), seccomp, image building and
  unpacking: conversions and file I/O no property here depends on.
- exec with its host key pin, and the console: I/O through the guest, with one
  mutex around the file of the pin. The copying of forwarded connections.
- The file storage provider, WaitFor, `writeAtomic`'s own crash points other than
  for the notify port.
- The catalog of releases: Load reads a directory once and nothing changes it
  afterwards. Its version order (images.go:319-340) is a pure function.

## Plan

1. Model next: the version order of releases and the address layout as operators
   checked against reference definitions; WaitFor; exec's host key pin;
   `writeAtomic` with crashes; the file provider.
2. Prove next: `AddressIsIdentity` for networks that do not overlap, and
   `NothingLeftBehind`.
