---------------------------- MODULE Coordinator ----------------------------
(***************************************************************************)
(* The iPhone face of MBLINK (platform/apple/MBLinkDiagnosticsController)  *)
(* with the sessions that belong to a connection                           *)
(* (src/mercedes/connection_lifecycle.c): the module scan, the entering of *)
(* the documented sessions, the startup reads, the user's and the          *)
(* scheduled reads and the ordered disconnect share one wire.  Everything  *)
(* runs on the main thread; what interleaves are answers, timers, the      *)
(* user, and Link (external), which owns the connection, lends the wire to *)
(* one holder at a time, and may take it away.                             *)
(*                                                                         *)
(* c is the state of the controller and of Link.  A handler of the code is *)
(* an action that ends in a call of another; here it is an operator over   *)
(* the state s it has reached so far that says what c' may be.  What a     *)
(* scan or a read says is left to ModuleScan and DataScan.                 *)
(***************************************************************************)
EXTENDS Naturals, FiniteSets

CONSTANTS
    Modules,        \* the modules of the vehicle are 1 .. Modules, in table order
    Sessioned,      \* their ECU pack documents an enter and a quit command
    ScanSession,    \* the scan itself enters the session of their route
    StartupData,    \* their pack lists data to read once at startup
    Documented,     \* their pack documents data to read at all
    ShortIds,       \* on 11-bit CAN, so that a live read restores quickly
    Selections,     \* the sets of modules a user may select values of
    Attempts,       \* retries of a disconnect (160)
    ReadAttempts,   \* retries of a user's read (80)
    MaxReads        \* bound: reads a user asks for while a disconnect is due

All == 1 .. Modules

ASSUME CoordinatorAssumption ==
    /\ Modules \in Nat
    /\ Sessioned \subseteq All /\ ScanSession \subseteq All
    /\ StartupData \subseteq Documented /\ Documented \subseteq All
    /\ ShortIds \subseteq All
    /\ Selections \subseteq SUBSET Documented
    /\ Attempts \in Nat \ {0} /\ ReadAttempts \in Nat /\ MaxReads \in Nat

VARIABLE c

\* Slip: the adapter is not addressed.
NextStageUnaddressed ==
    [PROTOCOL |-> "RECEIVE", RECEIVE |-> "CONTROL", HEADER |-> "RECEIVE"]
NextStage == [PROTOCOL |-> "HEADER", HEADER |-> "RECEIVE", RECEIVE |-> "CONTROL"]
SessionStages == DOMAIN NextStage \cup {"CONTROL"}
Operations == {"scan", "session", "read", "restore"}
Command(op, m, what) == [op |-> op, module |-> m, what |-> what]
Quiet == Command("none", 0, "none")
Commands == [op : Operations \cup {"none"}, module : 0 .. Modules,
             what : SessionStages \cup {"none", "enter"}]
NoWait == [module |-> 0, attempt |-> 0]
Waits == [module : 0 .. Modules, attempt : 0 .. ReadAttempts]

\* The fields up to polling are Link's (external), the history is ours, the
\* rest are the controller's.
State ==
    [link : {"down", "starting", "live"},   \* _shared.isActive, isReady
     held : BOOLEAN,            \* the wire is lent to the controller
     wire : Commands,
     aim : 0 .. Modules,        \* the module the adapter's header names, or 0
     polling : {"none", "on", "off"},       \* the live job in Link's scheduler
     mode : {"NONE", "ESTABLISH", "TEARDOWN"},
     stage : SessionStages \cup {"NONE"},
     index : 0 .. Modules + 1,
     requested : BOOLEAN,       \* disconnect_requested
     count : 0 .. Modules,      \* modules of the table so far
     attempted : SUBSET All,    \* diagnostic_session_attempted
     scan : BOOLEAN,            \* _moduleScanActive
     cached : BOOLEAN,          \* _cachedModuleRefreshActive
     read : BOOLEAN,            \* manufacturerDataScanActive
     module : 0 .. Modules,     \* manufacturerDataScanModuleIdentifier
     live : BOOLEAN,            \* _manufacturerDataScanLiveOnly
     pass : BOOLEAN,            \* _startupModuleDataPassActive
     position : 1 .. Modules + 1,   \* _startupModuleDataIndex + 1
     job : BOOLEAN,             \* _scheduledManufacturerJobActive
     restore : {"none", "header", "filter"},
     started : BOOLEAN,         \* _startupModuleDiscoveryStarted
     selected : SUBSET All,     \* modules with selected live commands
     retries : SUBSET (1 .. Attempts),      \* disconnect timers, by attempt
     wait : Waits,
     late : 0 .. MaxReads,      \* history: reads asked for since requested
     open : SUBSET All,         \* history: asked to enter, not yet to quit
     entries : [All -> 0 .. 2], \* history: how often we asked (2: too often)
     unmarked : SUBSET All,     \* history: entered by the scan, not recorded
     skipped : SUBSET All,      \* history: passed over by the teardown
     ended : {"not", "teardown", "otherwise"},  \* history: the connection
     stranded : BOOLEAN]        \* history: a failure left a session or restore
                                \* behind, or a read of the user's took a
                                \* scheduled job's wire for its own

TypeOK == c \in State

-----------------------------------------------------------------------------
(* Link: the wire and the connection (external). *)

CanWrite(s) == s.held /\ s.wire = Quiet
CanLend(s) == s.link = "live" /\ ~s.held /\ s.wire = Quiet

\* beginManufacturerCommand.  A session's HEADER addresses its module; a
\* scan, a read and a restore address others.
Sent(s, command) ==
    [s EXCEPT !.wire = command,
              !.aim = IF command.op # "session" THEN 0
                      ELSE IF command.what = "HEADER" THEN command.module
                      ELSE @]

\* completeManufacturerExtensionRestoringAdapter, refused while a command is
\* on the wire: Link readdresses the adapter when it is asked to.
Released(s) == [s EXCEPT !.held = @ /\ s.wire # Quiet]
Restored(s) == [s EXCEPT !.held = FALSE, !.aim = 0]

Ended(s, how) ==
    [s EXCEPT !.link = "down", !.held = FALSE, !.wire = Quiet, !.ended = how]

\* failWithStatus, when there is nothing to complete, or a command on the wire.
RestoredOrFailed(s) ==
    IF CanWrite(s) THEN Restored(s) ELSE Ended(s, "otherwise")

-----------------------------------------------------------------------------
(* The lifecycle of the sessions (connection_lifecycle.c). *)

Begun(s, mode) == [s EXCEPT !.mode = mode, !.stage = "NONE", !.index = 1]
Finished(s) == [s EXCEPT !.mode = "NONE", !.stage = "NONE", !.index = 0]

\* A session is entered once, and left when it was tried to enter it.
Eligible(s) ==
    {m \in Sessioned :
        m <= s.count /\ (m \in s.attempted <=> s.mode = "TEARDOWN")}

PassedOver(s, ms) ==
    IF s.mode = "TEARDOWN" THEN [s EXCEPT !.skipped = @ \cup ms] ELSE s
Upto(s, m) == {j \in Eligible(s) : s.index <= j /\ j < m}

\* beginNextConnectionSessionModule: the first module from index on whose
\* command Link accepts, or none.
BeginSession(s) ==
    \E m \in Eligible(s) :
        /\ s.index <= m /\ CanWrite(s)
        /\ c' = Sent([PassedOver(s, Upto(s, m)) EXCEPT
                        !.index = m, !.stage = "PROTOCOL"],
                     Command("session", m, "PROTOCOL"))
NoneLeft(s) == PassedOver(s, Upto(s, Modules + 1))

-----------------------------------------------------------------------------
(* The ordered disconnect. *)

Closed(s) == c' = Ended([Finished(s) EXCEPT !.requested = FALSE], "teardown")
Teardown(s) ==
    LET begun == Begun(s, "TEARDOWN")
    IN  BeginSession(begun) \/ Closed(NoneLeft(begun))

Busy(s) == s.scan \/ s.read \/ s.restore # "none" \/ s.mode = "ESTABLISH"

RetryAfter(s, attempt) == [s EXCEPT !.retries = @ \cup {attempt + 1}]

\* tryBeginDisconnectSessionTeardown
TryTeardown(s, attempt) ==
    \/ /\ ~s.requested
       /\ c' = s
    \/ /\ s.requested /\ s.link = "down"
       /\ c' = [s EXCEPT !.requested = FALSE]
    \/ /\ s.requested /\ s.link # "down" /\ Busy(s)
       /\ c' = IF attempt < Attempts THEN RetryAfter(s, attempt) ELSE s
    \/ /\ s.requested /\ s.link # "down" /\ ~Busy(s)
       /\ \/ /\ s.mode = "TEARDOWN"
             /\ c' = s
          \/ /\ s.mode # "TEARDOWN" /\ CanLend(s)
             /\ Teardown([s EXCEPT !.held = TRUE])
          \/ /\ s.mode # "TEARDOWN"
             /\ c' = IF attempt < Attempts
                       THEN RetryAfter(s, attempt)
                       ELSE Ended(s, "otherwise")

\* finishCurrentWorkForDisconnect.  Slip: the scan is not ended.
WorkOverButScan(s) ==
    [s EXCEPT !.cached = FALSE, !.read = FALSE, !.module = 0, !.live = FALSE]
WorkOver(s) ==
    [s EXCEPT !.scan = FALSE, !.cached = FALSE, !.read = FALSE, !.module = 0,
              !.live = FALSE]
PassOver(s) ==
    [s EXCEPT !.pass = FALSE, !.position = 1, !.job = FALSE,
              !.restore = "none", !.wait = NoWait]
FinishCurrentWork(s) == TryTeardown(PassOver(WorkOver(Released(s))), 0)

-----------------------------------------------------------------------------
(* Reads of manufacturer data. *)

\* finishMercedesExtensionRestoringAdapter
FinishExtension(s) ==
    LET idle == [s EXCEPT !.scan = FALSE, !.cached = FALSE, !.pass = FALSE,
                          !.position = 1, !.read = FALSE, !.module = 0]
    IN  IF ~CanWrite(s) THEN c' = Ended(idle, "otherwise")
        ELSE IF s.requested THEN TryTeardown(Released(idle), 0)
        ELSE c' = Restored(idle)

\* updateScheduledManufacturerLiveJob
UpdateJob(s) ==
    IF s.link # "live" \/ s.requested THEN s
    ELSE IF s.selected \cap (1 .. s.count) # {} THEN [s EXCEPT !.polling = "on"]
    ELSE IF s.polling = "none" THEN s
    ELSE [s EXCEPT !.polling = "off"]

\* beginNextStartupModuleDataRead: the first module from position on whose
\* read can be begun; a read Link refuses ends there and then.
NextStartupRead(s) ==
    \/ \E m \in StartupData :
        /\ s.position <= m /\ m <= s.count /\ CanWrite(s)
        /\ c' = Sent([s EXCEPT !.read = TRUE, !.module = m, !.live = FALSE,
                               !.position = m + 1,
                               !.wait = IF \E j \in StartupData :
                                             s.position <= j /\ j < m
                                          THEN NoWait ELSE @],
                     Command("read", m, "none"))
    \/ FinishExtension([s EXCEPT !.job = FALSE])

\* beginScheduledManufacturerChannelRestore
BeginRestore(s) ==
    \/ /\ CanWrite(s)
       /\ c' = Sent([s EXCEPT !.restore = "header"],
                    Command("restore", 0, "none"))
    \/ c' = RestoredOrFailed([s EXCEPT !.restore = "none", !.job = FALSE])

\* completeManufacturerDataScanWithStatus
FinishRead(s) ==
    LET done == [s EXCEPT !.read = FALSE, !.module = 0, !.live = FALSE,
                          !.wait = NoWait]
        quick == s.job /\ s.live /\ s.module \in ShortIds
    IN  \/ /\ s.requested
           /\ FinishCurrentWork(done)
        \/ /\ ~s.requested /\ s.pass
           /\ NextStartupRead(done)
        \/ /\ ~s.requested /\ ~s.pass /\ quick
           /\ BeginRestore(done)
        \/ /\ ~s.requested /\ ~s.pass /\ ~quick
           /\ c' = UpdateJob(RestoredOrFailed([done EXCEPT !.job = FALSE]))

\* beginCurrentMercedesDataScanCommand
ReadCommand(s) ==
    \/ /\ CanWrite(s)
       /\ c' = Sent(s, Command("read", s.module, "none"))
    \/ FinishRead(s)

\* tryBeginManufacturerDataScan: a scheduled job has the wire already; the
\* code does not ask whose job it is.
TryRead(s, attempt) ==
    \/ /\ s.job \/ CanLend(s)
       /\ LET on == [s EXCEPT !.held = @ \/ ~s.job,
                              !.stranded = @ \/ (s.job /\ ~s.live)]
          IN  IF s.module \in Documented
                THEN ReadCommand([on EXCEPT !.read = TRUE, !.wait = NoWait])
                ELSE c' = [Restored(on) EXCEPT !.module = 0, !.live = FALSE,
                                               !.wait = NoWait]
    \/ /\ ~s.job
       /\ c' = IF attempt < ReadAttempts
                 THEN [s EXCEPT !.wait = [module |-> s.module,
                                          attempt |-> attempt + 1]]
                 ELSE [s EXCEPT !.module = 0, !.live = FALSE, !.wait = NoWait]

-----------------------------------------------------------------------------
(* Entering and leaving the sessions. *)

\* finishConnectionSessionOperation
SessionDone(s) ==
    \/ /\ s.mode = "TEARDOWN"
       /\ Closed(s)
    \/ /\ s.mode = "ESTABLISH" /\ s.requested
       /\ Teardown(Finished(s))
    \/ /\ s.mode = "ESTABLISH" /\ ~s.requested
       /\ NextStartupRead([Finished(s) EXCEPT !.pass = TRUE, !.position = 1])

NextModule(s) == BeginSession(s) \/ SessionDone(NoneLeft(s))
Establish(s) == NextModule(Begun(s, "ESTABLISH"))

\* The module at index is given up: it could not be addressed.
SkipModule(s) ==
    NextModule([PassedOver(s, {s.index}) EXCEPT !.index = @ + 1])

\* An enter command is marked when it is on the wire, not when it is
\* answered.  Slip: it is marked by the answer.
MarkedLater(s) == s
Marked(s) ==
    IF s.stage = "CONTROL" /\ s.mode = "ESTABLISH"
      THEN [s EXCEPT !.attempted = @ \cup {s.index}]
      ELSE s

AskedToEnter(s, ecus, m) ==
    [s EXCEPT !.open = @ \cup ecus, !.entries[m] = IF @ = 0 THEN 1 ELSE 2]

\* The ECU the adapter names takes the request, even if no answer comes.
Heard(s) ==
    IF s.stage # "CONTROL" THEN s
    ELSE IF s.mode = "TEARDOWN" THEN [s EXCEPT !.open = @ \ {s.aim}]
    ELSE AskedToEnter(s, {s.aim} \ {0}, s.index)

\* beginCurrentConnectionSessionCommand, past the first command of a module.
SessionCommand(s) ==
    \/ /\ CanWrite(s)
       /\ c' = Heard(Marked(Sent(s, Command("session", s.index, s.stage))))
    \/ SkipModule(s)

\* processConnectionSessionResponse.  A quit is done with, whatever the answer.
AnswerSession(s) ==
    \/ /\ s.index > s.count
       /\ c' = s
    \/ /\ s.index <= s.count /\ s.stage # "CONTROL"
       /\ \/ SessionCommand([s EXCEPT !.stage = NextStage[s.stage]])
          \/ SkipModule(s)
    \/ /\ s.index <= s.count /\ s.stage = "CONTROL"
       /\ NextModule([s EXCEPT
              !.index = @ + 1,
              !.attempted = IF s.mode = "TEARDOWN" THEN @ \ {s.index} ELSE @])

-----------------------------------------------------------------------------
(* The module scan, as far as it holds the wire and enters sessions. *)

\* The census enters the session of the route it tries, the validation of a
\* saved profile that of a recorded module.
ScanMayEnter(s) ==
    {m \in ScanSession \ (s.attempted \cup s.unmarked) :
        IF s.cached THEN m <= s.count ELSE m = s.count + 1}

\* beginCurrentMercedesModuleScanCommand
ScanCommand(s) ==
    \/ /\ CanWrite(s)
       /\ c' = Sent(s, Command("scan", 0, "none"))
    \/ \E m \in ScanMayEnter(s) :
       /\ CanWrite(s)
       /\ c' = Sent([AskedToEnter(s, {m}, m) EXCEPT !.unmarked = @ \cup {m}],
                    Command("scan", m, "enter"))
    \/ FinishExtension([s EXCEPT !.scan = FALSE])

\* A module that was asked is marked, in the table.
Recorded(s, m) ==
    [s EXCEPT !.attempted = @ \cup ({m} \cap s.unmarked),
              !.unmarked = @ \ {m}]

\* mblink_mercedes_module_scan_accept: the candidate's request is recorded
\* with the candidate, which a later answer brings into the table.
Accepted(s, answered) ==
    IF answered.what = "enter"
      THEN {IF answered.module <= s.count THEN Recorded(s, answered.module) ELSE s}
      ELSE {s} \cup
           {Recorded([s EXCEPT !.count = m], m) :
               m \in {s.count + 1} \cap (1 .. Modules)}

\* processMercedesModuleScanResponse
AnswerScan(s, answered) ==
    \E a \in Accepted(s, answered) :
        \/ /\ a.requested
           /\ FinishCurrentWork(a)
        \/ /\ ~a.requested
           /\ \/ ScanCommand(a)
              \/ FinishExtension([a EXCEPT !.scan = FALSE])
              \/ Establish([a EXCEPT !.scan = FALSE, !.cached = FALSE])

-----------------------------------------------------------------------------
(* What Link calls (external), as far as it does so. *)

\* The standard diagnostics hand the wire over before the live scheduler
\* starts; discovery runs once, over a saved profile or as a census.
BeginExtension ==
    /\ c.link = "starting" /\ ~c.held
    /\ \/ /\ c.started
          /\ UNCHANGED c
       \/ /\ ~c.started
          /\ \E saved \in BOOLEAN :
                ScanCommand([c EXCEPT !.held = TRUE, !.started = TRUE,
                                      !.scan = TRUE, !.cached = saved,
                                      !.count = IF saved THEN Modules ELSE 0])

BecomeReady ==
    /\ c.link = "starting" /\ ~c.held
    /\ c' = UpdateJob([c EXCEPT !.link = "live"])

\* beginScheduledTransmissionLiveJob.  The job may have been due when it was
\* disabled.
BeginJob ==
    /\ CanLend(c) /\ c.polling # "none"
    /\ LET s == [c EXCEPT !.held = TRUE]
           known == s.selected \cap (1 .. s.count)
       IN  \/ /\ s.requested
              /\ TryTeardown([Released(s) EXCEPT !.job = FALSE], 0)
           \/ /\ ~s.requested /\ (s.read \/ s.module # 0 \/ s.scan \/ s.cached)
              /\ c' = [Released(s) EXCEPT !.job = FALSE]
           \/ /\ ~s.requested /\ ~(s.read \/ s.module # 0 \/ s.scan \/ s.cached)
              /\ IF known = {}
                   THEN c' = [Released(s) EXCEPT !.job = FALSE, !.polling = "off"]
                   ELSE \E m \in known :
                          TryRead([s EXCEPT !.job = TRUE, !.module = m,
                                            !.live = TRUE, !.wait = NoWait], 0)

\* processScheduledManufacturerRestoreResponse
AnswerRestore(s) ==
    LET over == [s EXCEPT !.restore = "none", !.job = FALSE]
    IN  \/ c' = RestoredOrFailed(over)
        \/ /\ s.restore = "header" /\ CanWrite(s)
           /\ c' = Sent([s EXCEPT !.restore = "filter"],
                        Command("restore", 0, "none"))
        \/ /\ s.restore = "filter"
           /\ IF ~CanWrite(s) THEN c' = Ended(over, "otherwise")
              ELSE IF s.requested THEN TryTeardown(Released(over), 0)
              ELSE c' = UpdateJob(Released(over))

\* Whose answer didReceiveManufacturerResponse takes it for.
Handler(s) ==
    IF s.mode # "NONE" THEN "session"
    ELSE IF s.restore # "none" THEN "restore"
    ELSE IF s.read THEN "read"
    ELSE IF s.scan THEN "scan"
    ELSE "none"

Answer ==
    /\ c.wire # Quiet
    /\ LET s == [c EXCEPT !.wire = Quiet]
       IN  \/ Handler(s) = "session" /\ AnswerSession(s)
           \/ Handler(s) = "restore" /\ AnswerRestore(s)
           \/ Handler(s) = "read" /\ (ReadCommand(s) \/ FinishRead(s))
           \/ Handler(s) = "scan" /\ AnswerScan(s, c.wire)
           \/ Handler(s) = "none" /\ c' = Ended(s, "otherwise")

\* manufacturerExtensionDidFailWithStatus: the watchdog of the command on the
\* wire.  Slip: the scan is not ended.
ClearedReadOnly(s) ==
    IF s.read
      THEN [s EXCEPT !.read = FALSE, !.module = 0, !.live = FALSE,
                     !.job = FALSE, !.restore = "none", !.wait = NoWait]
      ELSE s
Cleared(s) ==
    IF s.read
      THEN [s EXCEPT !.read = FALSE, !.module = 0, !.live = FALSE,
                     !.job = FALSE, !.restore = "none", !.wait = NoWait]
      ELSE [s EXCEPT !.scan = FALSE, !.cached = FALSE]

Fail ==
    /\ c.wire # Quiet
    /\ LET s == Cleared([Restored(c) EXCEPT !.wire = Quiet])
           left == s.mode # "NONE" \/ s.restore # "none"
       IN  TryTeardown([s EXCEPT !.stranded = @ \/ left], 0)

Lost ==
    /\ c.link # "down"
    /\ c' = Ended(c, "otherwise")

-----------------------------------------------------------------------------
(* The user and the timers. *)

\* start: resetMercedesState.  The timers of an earlier connection live on.
Fresh(retries) ==
    [link |-> "starting", held |-> FALSE, wire |-> Quiet, aim |-> 0,
     polling |-> "none", mode |-> "NONE", stage |-> "NONE", index |-> 0,
     requested |-> FALSE, count |-> 0, attempted |-> {}, scan |-> FALSE,
     cached |-> FALSE, read |-> FALSE, module |-> 0, live |-> FALSE, pass |-> FALSE,
     position |-> 1, job |-> FALSE, restore |-> "none", started |-> FALSE,
     selected |-> {}, retries |-> retries, wait |-> NoWait, late |-> 0, open |-> {},
     entries |-> [m \in All |-> 0], unmarked |-> {}, skipped |-> {},
     ended |-> "not", stranded |-> FALSE]

Start ==
    /\ c.link = "down"
    /\ c' = Fresh(c.retries)

Disconnect ==
    \/ /\ c.link = "down"
       /\ c' = [c EXCEPT !.requested = FALSE]
    \/ /\ c.link # "down"
       /\ TryTeardown([c EXCEPT !.requested = TRUE,
                                !.polling = IF @ = "none" THEN @ ELSE "off"],
                      0)

\* setManufacturerLivePollingCommands
Select ==
    \E ms \in Selections :
        c' = UpdateJob([c EXCEPT !.selected = ms])

\* discoverManufacturerDataForModuleIdentifier
RequestRead ==
    /\ c.link # "down" /\ ~c.read /\ c.module = 0
    /\ c.requested => c.late < MaxReads
    /\ \E m \in 1 .. c.count :
        TryRead([c EXCEPT !.late = IF c.requested THEN @ + 1 ELSE @,
                          !.module = m, !.live = FALSE, !.wait = NoWait], 0)

ReadTimer ==
    /\ c.wait # NoWait
    /\ IF c.link = "down" \/ c.module # c.wait.module
         THEN c' = [c EXCEPT !.wait = NoWait]
         ELSE TryRead([c EXCEPT !.wait = NoWait], c.wait.attempt)

\* The timers of a disconnect outlast the two commands of a restore (20 s to
\* 2 s).
DisconnectTimer(attempt) ==
    /\ attempt \in c.retries
    /\ attempt < Attempts \/ c.restore = "none" \/ c.stranded
    /\ TryTeardown([c EXCEPT !.retries = @ \ {attempt}], attempt)

Init == c = Fresh({})

Next ==
    \/ BeginExtension \/ BecomeReady \/ BeginJob \/ Answer \/ Fail \/ Lost
    \/ Start \/ Disconnect \/ Select \/ RequestRead \/ ReadTimer
    \/ \E attempt \in 1 .. Attempts : DisconnectTimer(attempt)

\* A command on the wire is answered or given up, and timers fire.
Fairness ==
    /\ WF_c(Answer \/ Fail)
    /\ \A attempt \in 1 .. Attempts : WF_c(DisconnectTimer(attempt))

Spec == Init /\ [][Next]_c /\ Fairness

-----------------------------------------------------------------------------
(* Properties. *)

\* An answer reaches the operation that sent the command, on a wire that is
\* lent, and an enter or quit command goes to the ECU whose turn it is
\* (MBLinkDiagnosticsController.m, didReceiveManufacturerResponse), unless
\* an extension failed in the middle of a session or a restore: what it
\* leaves behind takes the next operation's answers for its own.
AnswersGoHome ==
    c.wire # Quiet /\ ~c.stranded =>
        /\ c.held
        /\ Handler(c) = c.wire.op
        /\ c.wire.op = "session" =>
              /\ c.wire.module = c.index /\ c.wire.what = c.stage
              /\ c.stage \in {"RECEIVE", "CONTROL"} => c.aim = c.index

\* Each session is entered at most once per connection, and none that the
\* scan has entered; and when the teardown ends the connection, whatever was
\* entered has been told to quit (connection_lifecycle.c, CHANGELOG.md:21),
\* unless its adapter set-up failed, its pack documents no quit command, or
\* the scan was broken off before it recorded the module.
SessionsAccounted ==
    /\ \A m \in All : c.entries[m] <= 1
    /\ ~c.stranded => c.open \subseteq c.attempted \cup c.unmarked
    /\ ~c.stranded /\ c.ended = "teardown" =>
          c.open \subseteq c.skipped \cup c.unmarked \cup (All \ Sessioned)

-----------------------------------------------------------------------------
(* What AnswersGoHome and SessionsAccounted rest on. *)

Working(s) == s.mode # "NONE" \/ s.restore # "none" \/ s.read \/ s.scan

\* One operation at a time has the wire.
Alone(s) ==
    /\ s.mode # "NONE" => s.restore = "none" /\ ~s.read /\ ~s.scan
    /\ s.restore # "none" => ~s.read /\ ~s.scan
    /\ s.read => ~s.scan

\* The connection and the wire; discovery comes before anything else.
LinkInvariant(s) ==
    /\ s.link = "down" => ~s.held /\ s.wire = Quiet
    /\ s.wire # Quiet => s.held \/ s.stranded
    /\ s.selected \subseteq Documented
    /\ s.ended = "teardown" => s.link = "down"
    /\ s.job => s.link # "starting"
    /\ s.scan /\ s.link # "down" =>
        s.started /\ ~s.stranded /\ s.link = "starting"
    /\ ~s.started =>
        /\ ~s.stranded /\ s.wire = Quiet /\ s.count = 0
        /\ ~s.read /\ s.restore = "none" /\ s.wait = NoWait /\ s.unmarked = {}

CustodyInvariant(s) ==
    s.link # "down" /\ ~s.stranded =>
        /\ Alone(s)
        /\ Working(s) => s.held
        /\ s.wait # NoWait => ~s.job
        /\ s.wire # Quiet =>
            /\ Handler(s) = s.wire.op
            /\ s.wire.op = "session" =>
                /\ s.wire.module = s.index /\ s.wire.what = s.stage
                /\ s.stage # "PROTOCOL" => s.aim = s.index

\* No session is asked for twice.
EntryInvariant(s) ==
    /\ s.attempted \subseteq 1 .. s.count
    /\ s.mode # "NONE" => s.index # 0
    /\ \A m \in All :
        /\ s.entries[m] <= 1
        /\ s.entries[m] = 1 =>
            m \in s.attempted \cup s.unmarked \/ s.mode = "TEARDOWN" \/ s.link = "down"
    /\ s.link # "down" =>
        /\ s.scan =>
            /\ s.mode = "NONE"
            /\ s.unmarked \subseteq 1 .. s.count + 1
            /\ s.unmarked \cap (1 .. s.count) \subseteq
                 IF s.wire.what = "enter" THEN {s.wire.module} ELSE {}
        /\ s.mode = "ESTABLISH" => s.unmarked \cap (1 .. s.count) = {}

\* No session that was entered is forgotten.
ExitInvariant(s) ==
    /\ ~s.stranded => s.open \subseteq s.attempted \cup s.unmarked
    /\ ~s.stranded /\ s.mode = "TEARDOWN" /\ s.link # "down" =>
        /\ s.open \cap Sessioned \subseteq
             s.skipped \cup s.unmarked \cup {m \in All : s.index <= m}
        /\ s.stage = "CONTROL" /\ s.wire # Quiet => s.index \notin s.open
    /\ ~s.stranded /\ s.ended = "teardown" =>
        s.open \subseteq s.skipped \cup s.unmarked \cup (All \ Sessioned)

\* What holds even while one module is put behind and the next one sought.
Lawful(s) ==
    LinkInvariant(s) /\ CustodyInvariant(s) /\ EntryInvariant(s) /\ ExitInvariant(s)

\* A session that is being set up has a stage, and has not been asked for.
UnderWay(s) ==
    /\ s.mode # "NONE" => s.stage # "NONE"
    /\ s.link # "down" /\ s.mode = "ESTABLISH" /\ s.stage # "CONTROL" =>
        s.index \notin s.attempted

Safe(s) == Lawful(s) /\ UnderWay(s)

InductiveInvariant == TypeOK /\ Safe(c)

-----------------------------------------------------------------------------
\* A disconnect that was asked for comes about, whatever holds the wire,
\* unless a failure left work behind.
DisconnectCompletes ==
    c.requested /\ c.link # "down" ~> c.link = "down" \/ c.stranded
=============================================================================
