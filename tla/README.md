# MBLINK: verification notes

MBLINK is a diagnostic client for Mercedes vehicles.  A platform shell (iOS,
Linux, an STM32 box) owns the transport to an ELM327-style adapter; portable C
state machines in `src/mercedes` decide what to ask next and what an answer
means.  They never block and never own a thread: the shell asks a machine for a
command, sends it, and hands back the response, a time-out or the news that the
wire was lost.  That is the part of the program where ordering, staleness and
recovery can go wrong.  A second hazard is duplication: gearbox frames are
decoded in several places, from several tables, that must say the same.  These
TLA+ modules describe both, and the firmware update of the STM32 box.

Paths below are relative to the repository root unless they name a file of this
directory.

## Inventory

| component | state | operations | talks to | hard part |
|---|---|---|---|---|
| Module scan, `src/mercedes/module_scan.c` | stage, scope, candidate route, module table, VIN, fault-pass index, resume and recovery markers | five `begin*`, `command`, `accept`, `resume_after_interruption`, `begin_late_transmission` | its owner (commands and responses); through it the adapter, the gateway and the ECUs | some forty stages that each rely on what earlier ones left in the adapter; interruptions anywhere; an identity layer wrapped around a core machine that was written for another order |
| Scan plans and known routes, `src/mercedes/discover_plan.c` | none | enumerate targets, look up a route | module scan | bus changes inside a plan, reserved addresses |
| Data scan, `src/mercedes/data_scan.c` | current identifier, retry counter, counters, record table | five `begin*`, `command`, `accept` | its owner | late answers that belong to the previous request; the record limit; the last identifier of a range |
| STM32F767 OTA target, `src/embedded/stm32f767_ota.c` | image in progress, selected slot; in flash: two slots, pending-candidate record, version counter, active slot | bind, slot/write/verify/stage/commit callbacks, abort, `confirm_after_boot` | the UDS bootloader core of Link; flash and option bytes | a reset between any two steps; anti-rollback |
| Connection lifecycle, `src/mercedes/connection_lifecycle.c` | mode, module index and stage of the session being entered or left | `init`, `begin`, `finish`, enter and quit commands of a module | Apple coordinator | disconnecting in the middle of set-up |
| Apple coordinator, `platform/apple/MBLinkDiagnosticsController.m` | which machine is in charge, start-up pass, scheduled job, channel restore, timers | callbacks from Link's bridge, timers and the user interface | all machines above | which machine an arriving response belongs to |
| Engine probe, `src/mercedes/probe.c` | Link's probe, the evidence derived from it | `begin`, `command`, `accept` | Linux workstation | evidence of an earlier car or an earlier response |
| Linux workstation, `app/linux/main.c` | probe, module scan, flags of both, selection, graphs, preferences file | five callbacks of the manufacturer extension, user | Link's shell | hand-over between two machines; whose selection is saved |
| Transmission decoders, `src/mercedes/transmission.c`, `egs5x_lookup.c` | none | decode a CAN frame or a local identifier | both shells | the same bits decoded in several places |
| Diagnostic server and console, `src/mercedes/server.c`, `src/embedded/console.c` | line buffer, settings, pending request | byte input, request dispatch | firmware loop | text handling |
| ECU packs, evidence tables, VIN decoder | none | look-ups | module scan, coordinator | volume, not behaviour |
| Core, ELM327, ISO-TP, UDS, KWP and OBD façades | none of their own | wrap Link | everything | their implementation is Link's, which is not in this repository |
| iOS views, tools | user interface | — | machines above | outside |

What makes each of the stateful ones correct:

* **Module scan.** Every request goes out through an adapter configured for the
  ECU it is meant for.  An ECU that answered is in the table; nothing else should
  be.
  Identity comes before TesterPresent and fault memory.  Every planned route is
  tried, every found module is asked for its faults, an interruption costs at
  most one route.  Saved identities survive reconnects; the late probe leaves
  other modules alone.  The scan comes to rest.
* **Data scan.** No answer is stored under an identifier it was not an answer
  to; each identifier is counted once; at most two retries of one read; the table
  is never overrun and the scan ends.
* **OTA target.** The version counter only grows, only for an image that is
  running and verified; a reset anywhere leaves a bootable device on which
  confirmation can be repeated; an active slot is never erased.
* **Coordinator and lifecycle.** An answer reaches the machine that asked.  Each
  session is entered once and left before an orderly disconnect; a disconnect
  that was asked for comes about.
* **Probe and workstation.** Identifiers of the CRD3 family go only to a car that
  speaks for such a unit.  One machine owns the wire.  One car's selection is
  never shown, polled or saved as another's.
* **Decoders.** No bit belongs to two signals, no word of a table is unreachable,
  and what is decoded twice is decoded alike.

## Modules

| module | contents |
|---|---|
| `ModuleScan` | the module scan: constants and assumptions, one action per stage, resume and late probe, the adapter it drives, properties; refines `Survey` |
| `DataScan` | the data scan: begin calls, one action per kind of stage, the answers of an ECU that come late, properties |
| `Survey` | what a scan promises: routes are asked in order, then modules read in order, nothing left out unpaid; no stages, no adapter |
| `AntiRollback` | what an A/B firmware update promises: versions and a counter only |
| `Ota` | the STM32F767 update target over flash words, with resets and failing hooks; refines `AntiRollback` |
| `Coordinator` | the Apple coordinator with the lifecycle of the sessions: one wire, many users of it |
| `Probe` | the engine probe and the evidence it derives |
| `Workstation` | the Linux workstation; extends `Probe` |
| `FrameTable` | rows of a CAN catalogue: how they are read and what they show |
| `Egs51`, `Egs52`, `Egs53` | the three catalogues, every frame and every signal, with the rules of each |
| `Transmission` | the decoders written by hand, the texts and the names they look up, the local identifiers |
| `TransmissionLive` | the two decoders of the actual values of local identifier 30 |
| `Decoders` | the decoders side by side: a walk over every frame; extends the two before |
| `MC...` | the instance of each for TLC |
| `ModuleScanProofs` | proofs: the adapter and the module table of a scan |
| `ModuleScanEvidenceProofs` | proofs on top of it: what was heard, asked and recorded |
| `ModuleScanCoverageProofs` | proofs on top of that: coverage, profile and late probe, the refinement of `Survey`, the descent to rest |
| `DataScanProofs`, `OtaProofs`, `CoordinatorProofs`, `WorkstationProofs`, `DecoderProofs` | proofs about one module each |

Each specification ends with its properties.  An operator with the comment
"Slip:" before a definition is a plausible mistake in that definition; nothing
uses it, it is there so that one can put it in the definition's place and see
which property notices.

### How `ModuleScan` corresponds to the code

A *step* is one call of `accept()`: the command of the current stage has been
issued, and the step consumes its response.  `command()` is a function of the
scan's state, so what it sends is folded into the step: the adapter-setup
actions apply the command to the variable `adapter` when the ELM answers `OK`
(or reject: `AdapterRejects`), the request actions draw a reply.

* **Routes.**  `candidate_tx`, `candidate_rx`, `candidate_extended` together are
  a route; `target` is its place in the plan (for FULL and CENSUS this is
  `full_target_index`, for QUICK and GATEWAY the place the candidate identifier
  has in the sequence `advance_candidate` computes).  `Route[r]` holds what the
  static tables say of it: addressing, whether the known-route table has it,
  whether that table allows an automatic session, protocols, length of the VIN
  probe list, whether the reply identifier is evidenced.
* **Candidate.** `cand` is the rest of the `candidate_*` and probe fields; they
  are reset together by the three `set_*_target` functions (`FreshCandidate`).
* **Module table.**  `found` is the order of `modules[]`, `entry[r]` the content:
  protocol, whether the identity is absent, read or brought by a saved profile,
  whether a family was resolved, the session flags, TesterPresent, and the state
  of the fault list.
* **Adapter.**  `adapter` (external) has the ELM327's protocol, header, receive
  filter, formatting and time-out as ATSP, ATSH, ATCRA/ATCF/ATCM, ATH, ATCAF,
  ATCFC and ATST set them; selecting a protocol voids header and filter.
* **Vehicle.**  `fitted` is the set of routes with an ECU behind them, chosen in
  the initial state.  A request to one of them may get a positive reply, a
  negative one or none.  An absent ECU is silent, except that on
  `GatewayAnswers` the gateway may answer for it (negative response A0/A1); that
  answer may be missed like any other, at each request anew.  An
  ECU of `RepliesElsewhere` answers on another identifier than the planned one,
  so an exact filter hides it.
* **History.**  `heard`, `asked` and `unanswered` record which ECUs were really
  heard, what identity requests were made, and on which routes without an ECU one
  of them was missed; nothing reads them but properties.

The core machine and the identity-first layer are modelled *composed*, as
`accept()` composes them: `StartIdentity` is the redirect at
module_scan.c:2782, the tail of `TesterPresent` the deferral at 2804, and
`UdsIdentity`/`KwpIdentity` replace the core's `DISCOVERY_IDENTITY` case.

`RetryRoute`, `SkipRoute` and `SkipModule` are the three outcomes of
`resume_after_interruption`; an interruption may arrive in every stage,
including those that replay the set-up after an earlier one.

`Survey` is the scan without all this: a queue of routes, then one of modules;
an exchange with the current one, which may then be left; an interruption, which
may leave it behind unasked; a failure; a second look at the transmission.
`ModuleScan` implements it under the mapping in its section on the survey: the
queue is what lies ahead in `Plan[scope]` or in `found`, what was asked and read
are `asked` and the entries with a fault result, interruptions are
`recovery_count`.  All set-up stages stutter.

What is abstracted: texts, VIN characters, fault lists and raw replies are kept
only as "read from this route"; a reply identifier is right or wrong; the
17-character VIN check and text length checks are choices between a usable and
an unusable positive reply, as is the decoding of a fault list.  Both `DISCOVERY_ENABLE_HEADERS` and
`DISCOVERY_LOCK_HEADERS_OFF` are left out: no transition leads to the first, and
without headers the response parser that leads to the second never accepts a
response (this is the subject of `scan_unlearned_reply`).

### How `DataScan` corresponds to the code

A step is again one call of `accept()`.  `call` is the accepted begin call (five
C functions, four kinds: `begin_probe_commands` is one function under two names),
`Accepted` the checks of all of them; `Refuse` keeps what a refused call leaves:
nothing of the earlier scan when the list fails after `initialise_scan`, all of
it when it is refused before.  `current` is the 16-bit identifier and wraps at
`IdLast`; `Request` is what `command()` would ask for.  `Accept` has one disjunct
per outcome of the three decoders; `MayRetry` is
`retry_current_identifier_after_transient`, whose argument says that silence is
retried only where the identifier is known to exist.  `Interrupt` is the owner
dropping the scan.

The ECU and the ELM are external: an answer may miss its exchange and is then
queued in `late`, to be delivered in the place of the next answer; a negative
answer names only its service.  `steady` is an ECU that always answers
positively, so that a lost reading can only be blamed on the scan.  Payload bytes
are left out; a record keeps which request its answer was an answer to.

### How `Ota` corresponds to the code

Flash is a function from addresses to words; a word says which image it belongs
to and where in it, so erasing or writing beside the slot shows.  The actions are
the hooks that `mblink_stm32f767_ota_bind` installs (`begin_image` and
`select_inactive_slot` in `RequestDownload`, `write_block` in `TransferData`, the
verify hooks in `CheckMemory`, `stage` in `StageForReset`, `commit_version` in
`ConfirmBoot`, `abort_image` in `Abort`) and `confirm_after_boot` (`Confirm`).
The order in which Link's bootloader core calls them is external (`core`), as is
the boot ROM (`Reset`): it starts any slot that is complete, authentic and not
older than the counter.  Address sums are taken modulo `AddressSpace`, as the
32-bit sum in `write_block` is; the sums in `contains` are 64 bits wide in the
code and here.

`AntiRollback` has only versions: one that runs, those that could be booted, the
counter.  `Ota` implements it under `runs <- runs.version`, `good <-
GoodVersions` (the versions of all complete and authentic images in the slots):
erasing and downloading are `Install`, a reset is `Boot`, a confirmation that
commits is `Confirm`, everything else stutters.

### How `Coordinator` corresponds to the code

All of the Objective-C controller runs on the main thread, so a handler is
atomic; what interleaves are answers, timers, the user and Link.  A handler ends
in calls of others, several deep; each is an operator over the state it has
reached so far, named after the method in its comment, and says what the next
state may be.  `c` is one record: Link's fields first (connection, whether the
wire is lent, the command on it, which module the adapter addresses), then the
controller's, then history.

* **The wire.** `beginManufacturerCommand` is `Sent`, possible while the wire is
  lent and empty.  `Command(op, module, what)` remembers who sent it, which the
  code does not: `didReceiveManufacturerResponse` goes by what is active
  (`Handler`).  That the two agree is `AnswersGoHome`.
* **Sessions.** `mode`, `stage`, `index`, `attempted` and `requested` are the
  fields of `connection_lifecycle.c`; `Eligible` is its rule for which module is
  next, `BeginSession` its walk.  Which module documents enter and quit commands is a
  constant.
* **Scan and reads.** What they find is left to `ModuleScan` and `DataScan`; here
  a scan sends commands, may enter the session of the route it is at, may record
  modules, and ends; a read sends commands and ends.
* **History.** `open` are the sessions someone asked to enter and nobody asked to
  quit, `entries` counts the requests.  `stranded`, `unmarked` and `skipped` name
  the cases the properties except; each is described under Observations.

### How `Probe` and `Workstation` correspond to the code

`probe` is Link's generic ECU probe (external); `evidence` is what
`mercedes_probe_sync_evidence` derives after each response.  A text is kept as
usable or not, and whether it speaks for a CRD3 unit is a property of the car.
`Gated` is the decision after the last standard identity request.

`Workstation` has the five callbacks of the manufacturer extension
(`manufacturer_begin`, `_next_command`, `_accept_response`, `_finished`,
`_progress_changed`), `connection_changed`, the toggling of a value, the change of
a preference, and the preferences file, which both save.  The code looks at no
result of a file operation, so `Loaded` and `Saved` may fail: a load yields any
part of the stored group (nothing without a path or when the file does not load);
a save leaves the file alone, or writes the selection's group together with what
it could read of the others, which is less than what was there when the file did
not load.  `access` is history: how the last access went.  `engine` and `modules` are the four flags of each machine.
When the module scan takes over, its own steps are those of `ModuleScan`; here it
goes on, ends well or ends badly.  Link's shell decides when to connect, begin,
give up or finish.

### How the decoder modules correspond to the code

`Egs51`, `Egs52` and `Egs53` have one definition per frame of the C tables, in
their order, with a row for every signal: kind, first bit, length, scale, and the
raw values that have a word.  Wording and units are left out; a scale is a name,
equal for equal formulas.  `FrameTable` is the extraction (bit 0 is the top bit
of byte 0), including EGS52's composite signals, and each catalogue has its own
rules for "not available" and for scales that depend on the name.

`Transmission` lists each decoder written by hand field by field in the order of
the source, with the names under which its text asks the catalogue.
`TransmissionLive` has the decoders of a whole 61 30 reply and of a masked
selection.  `Decoders` has no counterpart in the code: it is the walk over all of
these for comparison.

## Runs

The routes of `ModuleScan` come from `MCModuleScan`: `eis` (source-backed,
automatic session, VIN cascade with the long time-out), `ic` (source-backed,
neither session nor VIN probe, both protocols documented), `gs` (the KWP
transmission), `obd` (legislated slot, three VIN probes), `slot` (lattice slot or
generic sweep identifier), `ext` (29-bit).  These are the combinations of
attributes the source tables have, as far as the stage machine tells them apart.

| run | asks | instance |
|---|---|---|
| `discovery` | in each scope: correct adapter, sound and complete table, absent ECUs only in two named ways, identity first, coverage, refinement of `Survey` | plans of two or three routes covering every kind, table of 2, up to 2 interruptions, a gateway that answers for absent ECUs |
| `reconnect` | saved profile, census and the late transmission probe after either: attribution, retained identities, locality of the late probe; the whole inductive invariant (`ScanInvariant`) | profile `gs, eis`, plan `ic, gs`, table of 3, up to 2 interruptions, a gateway that answers for an absent `ic` |
| `rest` | the scan comes to rest, and every step lowers its rank | QUICK, GATEWAY and CENSUS, one plan with an ECU of both protocols and no VIN probe, table as large as the plan, 1 interruption |
| `data_reads` | attribution, counting, staying in the plan, losing nothing, ending; the inductive invariant | six accepted calls of all kinds and both protocols, three refused ones; 2 records, 2 scans, 2 late answers |
| `ota_update` | bootable at every moment, flash confined, refinement of `AntiRollback`; the inductive invariant | six addresses, one good layout and four to refuse, six images and the factory's |
| `coordinator` | answers go home, sessions are accounted for, a disconnect comes about; the inductive invariant | two modules, 2 disconnect retries, 1 read retry |
| `workstation` | CRD3 gating, hand-over, consistent selection, one car's file entry, with a file that may fail; the inductive invariant | two cars, two standard identifiers and one of the family, one value to select |
| `decoders` | sound tables, resolvable names, agreeing layouts, independent selections | all 227 frames of the three catalogues, every bit of a full frame and every shorter length; 60 replies, 56 selections |
| `session_repeat`, `gateway_phantom`, `unlearned_reply`, `full_table` | one statement of the repository each that the code does not keep, see Findings | the smallest instance that shows it |

Why the bounds are enough for what they claim:

* **Two routes.**  A stage reads the candidate route, one table entry or the
  adapter, and the adapter remembers one header and one filter: what one route
  can spoil for another shows with two.  The FULL plan has three because it
  changes bus between the second and the third.
* **Table of two.**  QUICK, GATEWAY and CENSUS plans fit; FULL does not, so the
  full-table paths are in `discovery` as well.  The real census has 57 targets and the
  table 64 entries; only FULL and GATEWAY (263) can fill it.  In `rest` it
  cannot fill, and `full_table` shows why that matters.
* **Two interruptions.**  The code allows three.  Two reach every branch: retry,
  and the second on the same route or module, which skips.
* **Replies.** Positive and usable, positive and unusable, negative, gateway,
  none, in any order also on one route; a late or malformed reply counts as none because Link resynchronises the
  wire before a resume (`mercedes_module_scan_identity_first.h`).
* **Data reads.** Identifiers 0 to 3 and local identifiers to 2, so that a range
  ends at the last identifier there is; two records, one fewer than the longest
  range; two late answers, as many as one read may be retried for, which is also
  the number for which the code promises that nothing is lost; `NoKnownValueLost`
  is proved for any number up to it.  A second scan
  shows what the first leaves behind.
* **Update.** Two words per slot let an image be partly written and partly erased;
  the second slot ends at the last address.  The layouts to be refused break one
  check of `bind` each.
* **Coordinator.** Two modules: one whose session the coordinator enters and one
  whose session the scan enters; a walk over the table has a next and a last with
  two.  With three modules the same properties hold as well (765,920 states);
  the run keeps to two for time.  The real timers retry 160 and 80 times; two and
  one have a first, a next and a last.  `MaxReads` is explained under Fairness.
* **Workstation.** A hazard is one car's data under another's name: two cars, the
  one a CRD3 car and the other not.  Two standard identifiers and a fingerprint
  identifier give the decision index a neighbour on both sides.  Values are
  loaded, saved and lost independently of each other, so one shows what any
  number would; the theorems hold for any set.
* **Decoders.** Nothing is bounded but the replies, which vary every byte that is
  checked around its limit and each length around its limit;
  `ReadingsIndependent` covers all others.  One bit set at a time compares two
  extractions completely, because each result bit is one payload bit: this is
  `BitByBit`.

Deadlock is checked everywhere; a scan that has ended stutters explicitly
(`Rest`).

**Fairness.** `ModuleScan` and `DataScan`: weak fairness of `Step`: the owner
polls `command()` and delivers either the response or, after `timeout_ms`, an
empty one, so a scan that has a command outstanding is eventually stepped.
Interruptions, late answers and begins are not fair and are bounded by
`recovery_count` in the code and by `MaxDelays` and `MaxScans` in the model; no
assumption is made on what the vehicle answers.

`Coordinator`: weak fairness of `Answer \/ Fail` (Link's watchdog answers what
the vehicle does not) and of each disconnect timer (`dispatch_after` fires).
Nothing is assumed of the user or of Link lending the wire: a disconnect that is
refused to the end closes the link.  `MaxReads` bounds the reads a user asks for
while a disconnect is due, because each of them delays it and the code does not
refuse them.  The last timer of a disconnect is taken not to fire before the two
commands of a channel restore are over (20 s against 2 s).  A scan may take
longer than these 20 s, and in the model it may: then the running scan notices
the request with its next answer.

### Findings

Each is a run expected to be violated, with the trace TLC prints as evidence.

1. `session_repeat`: a session request is met with silence; an interruption after it
   makes the restarted route request the session again, although
   `candidate_session_attempted` is set; the comment at module_scan.c:1728 and the
   changelog say once per connection.
2. `gateway_phantom`: on a source-backed route with an automatic session the
   gateway's A0/A1 answer *to the session request* records an absent ECU; only the
   identity layer knows that these codes prove nothing.  On other routes with
   a known reply identifier the same happens when the reply to the identity request was missed and TesterPresent, the
   fault request or the VIN request (module_scan.c:1763, 1802, 1873) is answered
   with A0/A1.  The run's instance takes the first way; `AbsenceReported`, in
   `discovery`, says that there is no third.
3. `unlearned_reply`: the FULL sweep is documented to learn reply identifiers, but
   the stage that would turn response headers on is never entered.
4. `full_table`: with the table full, an ECU that answers only the VIN request
   keeps the scan going around identity, TesterPresent, faults and VIN.

### Observations

What the models reach and the properties except by name, because no document
decides it, or because it rests on sources the repository does not hold:

* **A failure in the middle of a session command or a restore** (`stranded`).
  `manufacturerExtensionDidFailWithStatus` (MBLinkDiagnosticsController.m:1765-1811)
  clears the scan and the reads, not the session mode nor the restore stage.  If
  Link keeps the connection, later answers are taken for session answers, enter and
  quit commands may go out with the adapter addressed elsewhere, and a
  disconnect finds the controller busy for ever.
* **A user's read during a scheduled job's restore** (`stranded`).
  `tryBeginManufacturerDataScan` (line 2691) skips borrowing the wire when a
  scheduled job is active, without asking whose job: the read fails to send and
  completes the extension under the restore command.
* **Sessions the scan entered** (`unmarked`).  The scan marks a session request
  after its reply, on a module in the table.  If the reply is lost or the scan is
  broken off before the candidate is recorded, no quit is sent, although
  CHANGELOG.md:21 says each entered ECU gets one.  A module whose pack documents
  no quit command is not told to quit either.
* **Modules that could not be addressed in the teardown** (`skipped`) keep their
  session.
* **The preferences file** (`access`).  `save_display_preferences` ignores a failed
  load of the existing file and writes it anew (main.c:542-588): the selections of
  all other vehicles are lost, though CHANGELOG.md:541 says they are stored per
  VIN.  `load_polling_selection_for_vehicle` takes a failed load for an empty
  selection (main.c:416-449), which the next toggle stores.  A failed write, or a
  missing path, is not noticed: what is shown is then not what is stored.
  `SelectionConsistent` and `PrefsConfined` except these by the kind of access, and
  say what still holds: nothing is polled, and nothing is stored for another
  vehicle, that was not chosen for it.  That `link_parameter_selection_init` accepts
  the VIN the probe validated is taken for granted.
* **Positions, not meanings.**  Where a catalogue has no word for a bit, a text by
  hand is compared by place only: that `automatic_transmission` is shown where the
  bit is 0 (transmission.c:582) has nothing to be compared with.
* **EGS51 gear words** (`Misworded`).  The text of GS_218 (transmission.c:1513)
  uses EGS52's gear names: codes 6, 7 and 8 (R, R2, P) read 6, 7 and D-CVT,
  though docs/MERCEDES.md:806 says names are not applied across generations.
* **Unreachable words** (`Uncarried`).  EGS51's `WRC` is three bits long but has
  words for 128 to 135; the mask of EGS52's `FCOD_MOT` (egs52_lookup.c:547) weighs
  the seventh bit 128 where the words count it 64, so words 64 to 99 never show.
* **Late negative answers** carry no identifier and are counted against the read
  that is current; a late positive answer of the *other* KWP service is not taken
  for stale and costs the current read its retries.
* **An aborted download after a failed confirmation** clears the pending record of
  the slot that runs, so that update is never confirmed.  Nothing unsafe follows.

## Proofs

Each theorem holds for all constants that satisfy the assumptions of its module.
One about a specification, `NoKnownValueLost`, has a hypothesis besides, stated in the
table and explained below.  `FaultCoverage` and `NoBacktrack` are proved only: the runs check `SurveyKept`
and `ScanInvariant`, which say more.

| module | theorem | statement |
|---|---|---|
| `ModuleScanProofs` | `TypeCorrect` | `Spec => []TypeOK` |
| | `ModuleTableSound` | `Spec => []ModuleTable` |
| | `AdapterAgrees` | `Spec => []AdapterAgreement` |
| | `InductiveInvariantHolds` | `Spec => []InductiveInvariant` |
| `ModuleScanEvidenceProofs` | `RepliesAreAttributed` | `Spec => []ReplyAttribution` |
| | `RespondersAreRecorded` | `Spec => []NoResponderLost` |
| | `IdentityComesFirst` | `Spec => []IdentityBeforeFaults` |
| | `AbsenceIsReported` | `Spec => []AbsenceReported` |
| | `EvidenceInvariantHolds`, `AbsenceInvariantHolds` | the invariants behind them |
| `ModuleScanCoverageProofs` | `RoutesAreCovered` | `Spec => []RouteCoverage` |
| | `FaultsAreCovered` | `Spec => []FaultCoverage` |
| | `OnlyForward` | `Spec => NoBacktrack` |
| | `LateProbesAreLocal` | `Spec => LateProbeIsLocal` |
| | `SavedIdentitiesSurvive` | `Spec => SavedIdentityRetained` |
| | `ScanIsSurvey` | `Spec => SurveyKept`, that is `Spec => S!Spec` |
| | `ScanDescends` | `Spec => TowardsRest` |
| | `RankIsNatural` | `Spec => [](Rank \in [1 .. 8 -> Nat])` |
| | `NoEndlessDescent` | no infinite sequence of ranks goes down |
| | `ProfileInvariantHolds`, `CoverageInvariantHolds`, `ProgressInvariantHolds` | the invariants behind them |
| | `ScanInvariantHolds` | `Spec => []ScanInvariant`, all of these invariants |
| `DataScanProofs` | `DataTypeCorrect` | `Spec => []TypeOK` |
| | `RecordsAreAttributed` | `Spec => []RecordAttribution` |
| | `TallyHolds` | `Spec => []Tally` |
| | `PlanIsKept` | `Spec => []ReadsStayInPlan` |
| | `NoKnownValueLost` | `MaxDelays <= MaxRetries` implies `Spec => []NothingLost` |
| | `DataInvariantHolds` | `Spec => []InductiveInvariant` |
| `OtaProofs` | `OtaTypeCorrect` | `Spec => []TypeOK` |
| | `AlwaysBootable` | `Spec => []Bootable` |
| | `FlashIsConfined` | `Spec => FlashConfined` |
| | `OtaImplementsAntiRollback` | `Spec => AntiRollbackKept` |
| | `OtaInvariantHolds` | `Spec => []InductiveInvariant` |
| `CoordinatorProofs` | `AnswersReachTheirOperation` | `Spec => []AnswersGoHome` |
| | `SessionsAreAccountedFor` | `Spec => []SessionsAccounted` |
| | `CoordinatorInvariantHolds` | `Spec => []InductiveInvariant` |
| `WorkstationProofs` | `FamilyIsGated` | `Spec => []FingerprintGated` |
| | `WireIsHandedOver` | `Spec => []HandOver` |
| | `SelectionAgrees` | `Spec => []SelectionConsistent` |
| | `PreferencesAreConfined` | `Spec => PrefsConfined` |
| | `WorkstationInvariantHolds` | `Spec => []InductiveInvariant` |
| `DecoderProofs` | `ReadingsIndependent` | `LiveSpec => []SelectionIndependent` |
| | `WalkLeavesReadings`, `SelectionsIndependent` | `Spec => LiveSpec`, `Spec => []SelectionIndependent` |
| | `BitByBit` | agreement on every single bit is agreement on every payload |
| | `RowsMoveAlone` | rows that share no bit are read independently |
| | `TextAgreesOnEveryPayload` | `TextAgrees(text)` makes each field of the text a row of the catalogue, for every payload |

### Module scan

`PlanAssumption` is what the tables guarantee: plans start on 11-bit CAN and
change to 29-bit at most once; routes with an automatic session are 11-bit
source-backed ones.  `ConstantsAssumption` types the rest.

**The invariant.**  `AdapterAgreement` speaks of the stages in which a request to
an ECU is outstanding.  It is not inductive: nothing says that the header set two
stages ago is still there.  `Configured` adds, for every set-up stage, what the
commands so far have established.  That in turn needs `Position`: a stage of
discovery has a candidate of the plan, a stage of the fault pass an existing
module, the long VIN time-out is only on where `DISCOVERY_RESTORE_TIMEOUT` still
lies ahead, and during set-up (including a resume) `AfterInit`, the stage that
follows, fits the bus of the route it returns to.  `ModuleTable` is needed
because `record_module` appends only routes that are not there yet.
`InductiveInvariant == TypeOK /\ ModuleTable /\ Position /\ Configured`.  The
invariants below extend it; `ScanInvariant` is all of them, and what the
`reconnect` run checks.

**Layout.**  Lemmas about helpers and records first.  Then the requests to a
candidate's ECU: each has a lemma that reduces it to one shape (`ProbeShape`:
the adapter is left alone, the table changes by at most one entry, the scan stays
on the route or leaves it through `AdvanceCandidate`), and `NextRouteKeeps` and
`ProbeKeeps` show once that this shape keeps the invariant.  The set-up commands
are grouped by what they configure (`InitCommandKeeps`, `RouteCommandKeeps`,
`DtcCommandKeeps`, ...).  Interruption, rejection, the late probe and `Init`
follow, then the temporal theorems.

**Evidence.**  That a reply is credited to the right ECU follows from
`AdapterAgreement` only together with what the code remembers between stages.
`EvidenceInvariant` says it: in a stage after the identity request the candidate
was asked (this is what restarting a route must preserve); metadata is read of a
recorded module, or with the table truncated; an active session of the candidate
was granted by its own ECU; and it includes `ReplyAttribution` and
`NoResponderLost`, whose exceptions (open sweep, saved profile, truncated table) are
in their definitions.  Steps fall into three kinds, and each kind has one lemma: those that hear
nothing (set-up, interruption), the requests to a candidate, the requests to a
module of the table.

That no absent ECU is recorded is not true (finding 2), so `AbsenceIsReported` states
what is: the gateway answers for it, and either its route has an automatic session
or one of its identity requests was missed.  `AbsenceInvariant` strengthens this to
the stages in between: a session is requested only where the route allows one, and
past the identity request the candidate is fitted or is in `unanswered`, because
the gateway's answer to the identity request would have ended the route.

**Profile and late probe.**  `ProfileInvariant`: only a CACHED scan is `single`,
and its one module is the transmission; a saved identity belongs to a module of
the table; when the identity of a module is about to be read again although one
is there, the scan knows that the KWP identity was captured.  The action
properties are read off the steps under it.

**Coverage.**  A route is left out when it is interrupted twice.  So the number of
routes behind the scan that were not asked is at most half of the recoveries, but
this is not inductive: after the first interruption of a route its price is half
paid.  `PaidFor(missed)` keeps the account: twice the number missed, plus one
while the last interruption may still turn out to be the first of two, is within
`recoveries`.  The same account serves modules in the fault pass.  The source
allows three recoveries, so at most one route and at most one module is left
out; the theorems hold for any limit.

**Survey.**  Each step of a scan is an exchange, an interruption, a failure, a
second look or a stutter of `Survey`.  The lemmas take the steps in the groups the
other proofs use.  A step that stays on its route or module is `Stay`, one
that advances is `Leave`, with the tail of the queue from `SubSeq`; the account
of `CoverageInvariant` is the condition on `Leave`, and `EvidenceInvariant` gives
that what is left by an exchange was asked.

**Rest.**  That a scan ends is a liveness property, and stays with TLC.  What
makes it end is proved.  `Rank` says what may still happen, what weighs most
first: the late probe, the interruptions left, discovery and fault pass, routes or
modules from the current one on, whether the candidate is still to be recorded,
protocols not tried, stages to the end of the route, repetitions of the stage.
`ScanDescends`: every step lowers it in lexicographic order.  For the VIN cascade
this needs `ProgressInvariant`, since its stages lead back to the identity request:
they are entered only while the candidate is not in the table, and a positive
answer records it, if there is room.  If there is none, nothing goes down; that
is the exception in `TowardsRest`, and finding 4 is the circle it leaves.  By
`NoEndlessDescent` a scan takes finitely many steps: the library's theorem on
lexicographic products, and for the order of the numbers a counting
argument, since the induction theorems cannot be used (a set without a least
element would be closed upwards and under the predecessor, which no finite set is).
What TLC adds in `ComesToRest` is only that a scan that may take a step does.

### Data scan

`DataAssumption` types the calls; that a call is accepted is checked by the code
and the model.  None of the three properties is inductive: that a range does not
wrap needs to know that `current` is the identifier of read number `attempted`;
that no read is recorded twice needs to know that every record comes from an
earlier place of the plan, and that the places of an accepted call differ
(`PlanIsDistinct`).  `Position` says this; `InductiveInvariant` adds it to the
properties.  `AdvanceMoves` and `OutcomeKeeps` carry the weight: the first shows
that `AdvanceIdentifier` is a step in the plan or the end of it, the second that
every outcome of `Accept` is one of four shapes that keep the invariant.

`NoKnownValueLost` is about an ECU that always answers, some of whose answers
come late.  A retry is caused by an answer that was missing, and that answer is
still in the queue: `Outstanding` says that the queue holds as many answers as
were late, all positive, and that the last of them, one for each retry of the
present read, are answers to the present read.  An older answer names another
identifier and is taken for stale, which costs a retry but changes one late answer
for another.  So with no more late answers than retries the read never
runs out of them.  The bound is necessary: with one more late answer the value is
lost, and the code promises nothing else.

### Update

`OtaAssumption` types layouts and images.  The invariant adds to the properties
`BoundFirst` (only a bound device downloads, so its layout passed `BindAccepts`)
and `DownloadAside` (a download goes to the slot that does not execute and fits
it, and the core's idea of the counter is the present one).  `AddressInSlot` and
`RegionsAreDisjoint` turn the checks of `bind` into the fact that the modular
address sum stays in the slot and away from bootloader and active slot;
`EraseShape` and `ProgramShape` reduce the two writes to "changes only the other
slot", which keeps `Bootable` and is `FlashConfined`.  For the refinement,
`NewImagesAreDownloads` shows that a version which becomes bootable is the one
being downloaded, hence newer than the counter, and `NothingCommitsWhileOldRuns`
that the core's commit never happens before the reset.

### Coordinator

`CoordinatorAssumption` types the two kinds of modules; number of modules, reads
and retries are arbitrary.  The invariant is a predicate `Safe` of the record `c`,
so that it can be asked of the states a handler passes through:

* `LinkInvariant`: what is possible on a closed, a new and a lent link;
* `CustodyInvariant`: at most one of session, restore, read and scan is under way,
  it holds the wire, and a command on the wire is its own, for the module whose
  turn it is, with the adapter addressed to that module when it matters;
* `EntryInvariant`: a session asked for is marked as attempted, or is one the scan
  has not yet recorded, so no second request is made;
* `ExitInvariant`: during the teardown every open session that can be quit lies
  ahead, was skipped, or is one nobody recorded;
* `UnderWay`: a session being set up has a stage and was not asked for before.

The first four (`Lawful`) hold even while a handler puts one module behind and
seeks the next; `UnderWay` does not.  The first two give `AnswersGoHome`, the
others `SessionsAccounted`.

A handler in the model is a chain of operators, each over the state reached so
far and the next state.  The lemmas follow the chains from their ends: for each
operator one lemma says that from a state meeting its precondition whatever next
state it allows is `Safe`, resting on the lemmas of the operators it calls.  Each
action is then the last link.

### Workstation

`ProbePosition` ties the place in the request list to what was read, so that the
fingerprint part is entered only after the decision; `EvidenceIsOwn` says
that the evidence is of the vehicle plugged in and of texts of this probe;
`WireOwner` adds to `HandOver` what the flags of the machine in waiting are;
`SelectionIsOwn` keeps the selection to the vehicle plugged in.  With them
`HandOver` and `SelectionConsistent` are inductive.  `LoadedKeeps` and `SavedShape`
say what an access to the file, failures included, may leave: a save touches
only the selection's group, or is blind and takes values away from others, which is
`PrefsConfined`.

### Decoders

`IInv` says a reading is what the masked decoder made of its reply.  `PartOfWhole`
(whole and masked decoder agree), `FieldAlone` and `OwnBytes` (a value depends on
its own bytes) are proved of the operators, family by family.  `Decoders` takes the
steps of the readings only when its walk is over, and otherwise leaves them alone.

The walk sets one bit at a time.  `ExtractAdds` and `RawAdds` show that what an
extraction reads out of a payload is the union of what it reads out of its bits, for
plain and composite rows; `BitByBit` and `RowsMoveAlone` follow.
`PlainIsExtracted` says that `extract_can_bits` and a plain row at the same place
are the same function; `TextAgrees` demands such a row, so what the
walk finds on one bit holds on every payload.

### Only model-checked

* **Liveness** (`ComesToRest`, `ScanEnds`, `DisconnectCompletes`): fairness and
  ENABLED are beyond the prover.  Of the first, the descent is proved.
* **The catalogues** (`TableSound`, `NamesResolve`, `LayoutsAgree`): statements
  about finite data, which TLC covers completely; a proof would be the same
  enumeration.  What carries them from single bits to payloads is proved.
* **The four findings**: they are refutations, for which one instance is enough.

Every other property a passing run checks is also a theorem.

## Plan

Done: module scan, data scan, update target with its abstraction, coordinator and
lifecycle, probe and workstation, decoders; proofs of the safety and action
properties of all of these but the catalogues, of the two refinements, and of the
descent of a scan to its end.  What is left, in this order:

1. The ECU packs' rules for which protocol owns a module, as operators.
2. The plans of `discover_plan.c` and the known-route table as data, checked
   against `PlanAssumption`.

## Not modelled

* **Evidence tables, ECU packs, VIN decoder**: look-ups without state.  What the
  machines need of them are constants and attributes of routes.
* **EGS53 variant coding and its CRC**, and telling a gearbox family from the text
  of an identity: text and byte handling without a second account to compare with.
* **Server and console**: one request at a time in a polling loop; its services
  are Link's.
* **Plan enumeration** (`discover_plan.c`): fixed lists; the scan models take a
  plan as a constant.
* **User interfaces, traces, replay, evidence export, tools.**
* **Everything inside Link** (transport, watchdogs, ISO-TP reassembly, UDS
  bootloader core, job scheduler): the repository does not contain it, and the
  models say what they rely on.
