------------------------------ MODULE DataScan ------------------------------
(***************************************************************************)
(* Manufacturer data reads (src/mercedes/data_scan.c): after seven adapter *)
(* commands and a TesterPresent the machine asks one ECU for one           *)
(* identifier after another, either a whole range or an explicit list, and *)
(* keeps the positive answers as records.  The owner (the diagnostics      *)
(* coordinator) begins a scan, hands over each response, and drops the     *)
(* scan when the transport gives up.                                       *)
(*                                                                         *)
(* A step is one call of accept(): command() is a function of the scan's   *)
(* state, so the command of the current stage is taken to have been sent.  *)
(* The ELM may report NO DATA for a request whose answer then arrives in a *)
(* later exchange: late is the queue of such answers.                      *)
(***************************************************************************)
EXTENDS Naturals, Sequences

CONSTANTS
    Calls,          \* the begin calls the owner may make
    SafeReads,      \* commands mercedes_documented_read_is_safe accepts
    IdLast,         \* the largest 16-bit identifier, 0xFFFF
    KwpLast,        \* the largest KWP local identifier, 0xFF
    MaxRecords,     \* MBLINK_MERCEDES_DATA_SCAN_MAX_RECORDS
    MaxScans,       \* bound: scans the owner begins
    MaxDelays       \* bound: answers that miss their exchange

Ids == 0 .. IdLast
MaxRetries == 2
Protocols == {"UDS", "KWP"}
Services == {"22", "21", "1A"}
Commands == [service : Services, id : Ids]
CallKinds == {"range", "refresh", "probe", "documented"}

\* refresh: begin_identifiers, probe: begin_probe_identifiers, documented:
\* begin_probe_commands under its two names; a range call has no commands.
CallType ==
    [kind : CallKinds, protocol : Protocols, session : BOOLEAN,
     first : Ids, last : Ids, commands : Seq(Commands)]

ASSUME DataAssumption ==
    /\ IdLast \in Nat /\ KwpLast \in Nat /\ KwpLast <= IdLast
    /\ MaxRecords \in Nat \ {0}
    /\ MaxScans \in Nat /\ MaxDelays \in Nat
    /\ Calls \subseteq CallType
    /\ SafeReads \subseteq Commands

AdapterStages ==
    {"INIT_PROTOCOL", "HEADERS_OFF", "AUTO_FORMAT", "FLOW_CONTROL",
     "TIMEOUT", "SET_HEADER", "SET_RECEIVE"}
PresenceStages == {"EXTENDED_SESSION", "TESTER_PRESENT"}
Stages ==
    AdapterStages \cup PresenceStages
        \cup {"READ_IDENTIFIER", "COMPLETE", "FAILED"}

\* What comes back: an answer names the request it answers, as far as the
\* bytes do.  A negative answer carries the service only.
Positive(c) == [kind |-> "positive", service |-> c.service, id |-> c.id]
Negative(c) == [kind |-> "negative", service |-> c.service, id |-> 0]
Presence == [kind |-> "presence", service |-> "22", id |-> 0]
Garbage == [kind |-> "garbage", service |-> "22", id |-> 0]
NoData == [kind |-> "no data", service |-> "22", id |-> 0]
Answers ==
    [kind : {"positive", "negative", "presence", "garbage", "no data"},
     service : Services, id : Ids]

VARIABLES
    active,     \* the owner runs the scan
    call,       \* the accepted begin call: config, identifiers, services
    stage,
    current,    \* current_identifier
    index,      \* identifier_index, of a list call
    retries,    \* current_transient_retries
    attempted,
    tally,      \* positive_, negative_, no_response_ and invalid_count
    records,    \* records[], each with the answer it was made of
    protocol,   \* of the ECU on the route; the module entry remembers it
    late,       \* answers the ELM has not delivered yet
    delays,     \* how many answers missed their exchange
    steady,     \* the ECU answers every request positively, and intact
    scans       \* scans begun

scanVars == <<call, stage, current, index, retries, attempted, tally, records>>
wireVars == <<protocol, late, delays, steady>>
vars == <<active, scanVars, wireVars, scans>>

NoCall ==
    [kind |-> "range", protocol |-> "UDS", session |-> FALSE, first |-> 0,
     last |-> 0, commands |-> <<>>]
EmptyTally ==
    [positive |-> 0, negative |-> 0, noResponse |-> 0, invalid |-> 0]

-----------------------------------------------------------------------------
(* The begin calls.                                                        *)

ListActive(c) == c.kind # "range"

ConfigValid(c) ==
    /\ c.first <= c.last
    /\ c.protocol = "KWP" => c.first # 0 /\ c.last <= KwpLast

\* What the list calls refuse before they touch the scan.
SizeValid(c) ==
    ListActive(c) => Len(c.commands) \in 1 .. MaxRecords

LocalIdentifier(c, x) == c.protocol = "KWP" => x.id \in 1 .. KwpLast

\* begin_identifier_list derives the service from the protocol,
\* begin_probe_commands checks the one it is given.
CommandValid(c, x) ==
    /\ LocalIdentifier(c, x)
    /\ IF c.kind = "documented"
       THEN /\ x.service \in IF c.protocol = "UDS" THEN {"22"} ELSE {"21", "1A"}
            /\ x \in SafeReads
       ELSE x.service = IF c.protocol = "UDS" THEN "22" ELSE "21"

Distinct(c) ==
    \A i, j \in DOMAIN c.commands :
        c.commands[i] = c.commands[j] => i = j

ListValid(c) ==
    ListActive(c) =>
        /\ \A i \in DOMAIN c.commands : CommandValid(c, c.commands[i])
        /\ Distinct(c)

Accepted(c) == SizeValid(c) /\ ConfigValid(c) /\ ListValid(c)

\* initialise_scan, and the first command of a list.
InitialiseScan(c) ==
    /\ call' = c
    /\ stage' = "INIT_PROTOCOL"
    /\ current' = IF ListActive(c) THEN c.commands[1].id ELSE c.first
    /\ index' = 0
    /\ retries' = 0
    /\ attempted' = 0
    /\ tally' = EmptyTally
    /\ records' = <<>>

Begin ==
    /\ ~active /\ scans < MaxScans
    /\ \E c \in Calls :
        c.protocol = protocol /\ Accepted(c) /\ InitialiseScan(c)
    /\ active' = TRUE
    /\ scans' = scans + 1
    /\ UNCHANGED wireVars

\* A list that fails a check after initialise_scan leaves a zeroed scan; a
\* call refused before it leaves the previous one.
Refuse ==
    /\ ~active /\ scans < MaxScans
    /\ \E c \in Calls :
        /\ c.protocol = protocol /\ ~Accepted(c)
        /\ IF SizeValid(c) /\ ConfigValid(c)
           THEN InitialiseScan(NoCall)
           ELSE UNCHANGED scanVars
    /\ scans' = scans + 1
    /\ UNCHANGED <<active, wireVars>>

-----------------------------------------------------------------------------
(* The adapter and the ECU (external).                                     *)

\* One request and one response.  answers are what the ECU may say.  Either
\* its answer comes in time, or an earlier one is delivered in its place, or
\* the ELM times out; an ECU that is not steady may stay silent.
Exchange(answers, reply) ==
    /\ UNCHANGED <<protocol, steady>>
    /\ \/ /\ late = <<>>
          /\ reply \in answers
          /\ UNCHANGED <<late, delays>>
       \/ /\ late # <<>>
          /\ reply = Head(late)
          /\ \/ \E a \in answers : late' = Append(Tail(late), a)
             \/ ~steady /\ late' = Tail(late)
          /\ UNCHANGED delays
       \/ /\ reply = NoData
          /\ \/ /\ delays < MaxDelays
                /\ \E a \in answers : late' = Append(late, a)
                /\ delays' = delays + 1
             \/ ~steady /\ UNCHANGED <<late, delays>>
       \/ ~steady /\ reply = Garbage /\ UNCHANGED <<late, delays>>

\* Link drops what arrives between exchanges.
DropLate ==
    /\ late # <<>> /\ ~steady
    /\ late' = Tail(late)
    /\ UNCHANGED <<active, scanVars, protocol, delays, steady, scans>>

-----------------------------------------------------------------------------
(* Setting up: every adapter command must be answered OK.                  *)

FollowingStage ==
    [s \in AdapterStages |->
        CASE s = "INIT_PROTOCOL" -> "HEADERS_OFF"
          [] s = "HEADERS_OFF" -> "AUTO_FORMAT"
          [] s = "AUTO_FORMAT" -> "FLOW_CONTROL"
          [] s = "FLOW_CONTROL" -> "TIMEOUT"
          [] s = "TIMEOUT" -> "SET_HEADER"
          [] s = "SET_HEADER" -> "SET_RECEIVE"
          [] OTHER -> IF call.session /\ call.protocol = "UDS"
                      THEN "EXTENDED_SESSION" ELSE "TESTER_PRESENT"]

Progress == <<call, current, index, retries, attempted, tally, records>>

AdapterStep ==
    /\ active /\ stage \in AdapterStages
    /\ stage' = FollowingStage[stage]
    /\ UNCHANGED <<active, Progress, wireVars, scans>>

AdapterError ==
    /\ active /\ stage \in AdapterStages
    /\ stage' = "FAILED"
    /\ active' = FALSE
    /\ UNCHANGED <<Progress, wireVars, scans>>

\* A rejected or quiet session change or TesterPresent does not stop the scan.
PresenceStep ==
    /\ active /\ stage \in PresenceStages
    /\ stage' = IF stage = "EXTENDED_SESSION"
                THEN "TESTER_PRESENT" ELSE "READ_IDENTIFIER"
    /\ IF steady THEN UNCHANGED wireVars
       ELSE \E r \in Answers : Exchange({Presence}, r)
    /\ UNCHANGED <<active, Progress, scans>>

-----------------------------------------------------------------------------
(* Reading.                                                                *)

\* The reads of the accepted call in their order.  A range uses the service
\* of its protocol.
PlanLength ==
    IF ListActive(call) THEN Len(call.commands) ELSE call.last - call.first + 1
Planned(n) ==
    IF ListActive(call) THEN call.commands[n + 1]
    ELSE [service |-> IF call.protocol = "KWP" THEN "21" ELSE "22",
          id |-> call.first + n]

\* What command() asks for.
Request == [service |-> Planned(index).service, id |-> current]

\* The three decoders compare the service and the identifier of an answer.
Stale(r) ==
    r.kind = "positive" /\ r.service = Request.service /\ r.id # Request.id
\* Slip: any positive answer to the service is taken.
MatchesService(r) == r.kind = "positive" /\ r.service = Request.service
Matches(r) == r = Positive(Request)
Refused(r) == r.kind = "negative" /\ r.service = Request.service

\* Slips: only known-positive lists are retried; the bound is off by one.
MayRetryKnownOnly(requireKnownPositive) ==
    retries < MaxRetries /\ requireKnownPositive /\ call.kind = "refresh"
MayRetryOnceMore(requireKnownPositive) ==
    /\ retries <= MaxRetries
    /\ requireKnownPositive => call.kind = "refresh"
\* retry_current_identifier_after_transient
MayRetry(requireKnownPositive) ==
    /\ retries < MaxRetries
    /\ requireKnownPositive => call.kind = "refresh"

\* Slips: the counter of retries wraps at its limit, or a retry is counted as
\* an attempt.
RetryWrapping ==
    /\ retries' = (retries + 1) % MaxRetries
    /\ UNCHANGED <<active, call, stage, current, index, attempted, tally, records>>
RetryAttempting ==
    /\ retries' = retries + 1
    /\ attempted' = attempted + 1
    /\ UNCHANGED <<active, call, stage, current, index, tally, records>>
Retry ==
    /\ retries' = retries + 1
    /\ UNCHANGED <<active, call, stage, current, index, attempted, tally, records>>

\* Slip: the last identifier of a range is passed.
LastOnePassed ==
    IF ListActive(call)
    THEN index + 1 >= Len(call.commands) ELSE current > call.last
LastOne ==
    IF ListActive(call)
    THEN index + 1 >= Len(call.commands) ELSE current >= call.last

\* advance_identifier; the owner finishes a scan that reports completion.
AdvanceIdentifier ==
    /\ retries' = 0
    /\ attempted' = attempted + 1
    /\ UNCHANGED call
    /\ index' = IF ListActive(call) THEN index + 1 ELSE index
    /\ IF LastOne
       THEN stage' = "COMPLETE" /\ active' = FALSE /\ UNCHANGED current
       ELSE /\ current' = IF ListActive(call)
                          THEN call.commands[index + 2].id
                          ELSE (current + 1) % (IdLast + 1)
            /\ UNCHANGED <<stage, active>>

\* record_positive: an answer beyond the table is counted and not stored.
RecordPositive(r) ==
    /\ tally' = [tally EXCEPT !.positive = @ + 1]
    /\ records' =
        IF tally.positive + 1 > MaxRecords THEN records
        ELSE Append(records, [service |-> Request.service, id |-> Request.id,
                              answers |-> [service |-> r.service, id |-> r.id]])

\* A miss of this kind is counted, and the scan moves on.
CountMiss(what) ==
    /\ tally' = [tally EXCEPT ![what] = @ + 1]
    /\ UNCHANGED records
    /\ AdvanceIdentifier

\* accept_uds_identifier, accept_kwp_identifier, accept_kwp_ecu_identification
Accept(r) ==
    \/ /\ r.kind = "no data"
       /\ IF MayRetry(TRUE) THEN Retry ELSE CountMiss("noResponse")
    \/ /\ Stale(r)
       /\ IF MayRetry(FALSE) THEN Retry ELSE CountMiss("invalid")
    \/ Matches(r) /\ RecordPositive(r) /\ AdvanceIdentifier
    \/ Refused(r) /\ CountMiss("negative")
    \/ /\ r.kind # "no data" /\ ~Stale(r) /\ ~Matches(r) /\ ~Refused(r)
       /\ CountMiss("invalid")

ReadIdentifier ==
    /\ active /\ stage = "READ_IDENTIFIER"
    /\ \E r \in Answers :
        /\ Exchange({Positive(Request)}
                        \cup (IF steady THEN {} ELSE {Negative(Request)}), r)
        /\ Accept(r)
    /\ UNCHANGED scans

\* The transport gives up, or the link is lost: the owner drops the scan and
\* publishes what has been read.
Interrupt ==
    /\ active
    /\ active' = FALSE
    /\ UNCHANGED <<scanVars, wireVars, scans>>

-----------------------------------------------------------------------------
Init ==
    /\ active = FALSE
    /\ call = NoCall
    /\ stage = "INIT_PROTOCOL"
    /\ current = 0 /\ index = 0 /\ retries = 0 /\ attempted = 0
    /\ tally = EmptyTally
    /\ records = <<>>
    /\ protocol \in Protocols
    /\ late = <<>> /\ delays = 0
    /\ steady \in BOOLEAN
    /\ scans = 0

Step == AdapterStep \/ AdapterError \/ PresenceStep \/ ReadIdentifier

\* The owner begins no further scan.
Rest ==
    ~active /\ scans = MaxScans /\ UNCHANGED vars

Next == Begin \/ Refuse \/ Step \/ Interrupt \/ DropLate \/ Rest

Spec == Init /\ [][Next]_vars
FairSpec == Spec /\ WF_vars(Step)

-----------------------------------------------------------------------------
(* Properties.                                                             *)

RecordType == [service : Services, id : Ids, answers : Commands]

TypeOK ==
    /\ active \in BOOLEAN
    /\ call \in Calls \cup {NoCall}
    /\ stage \in Stages
    /\ current \in Ids
    /\ index \in Nat
    /\ retries \in 0 .. MaxRetries
    /\ attempted \in Nat
    /\ tally \in [positive : Nat, negative : Nat, noResponse : Nat, invalid : Nat]
    /\ records \in Seq(RecordType)
    /\ protocol \in Protocols
    /\ late \in Seq(Answers)
    /\ delays \in 0 .. MaxDelays
    /\ steady \in BOOLEAN
    /\ scans \in 0 .. MaxScans

\* A late positive answer never becomes the value of another identifier
\* (the comment in accept_uds_identifier): every record was made of an answer
\* to the very read it is filed under.
RecordAttribution ==
    \A i \in DOMAIN records :
        records[i].answers =
            [service |-> records[i].service, id |-> records[i].id]

\* Retries do not inflate the counters (the comment at
\* current_transient_retries): what has been attempted is what the position in
\* the plan says, every attempt has one outcome, and the table holds the
\* positive ones as far as there is room.
Attempted == tally.positive + tally.negative + tally.noResponse + tally.invalid
Tally ==
    /\ attempted = Attempted
    /\ Len(records) = IF tally.positive > MaxRecords THEN MaxRecords
                      ELSE tally.positive
    /\ stage = "COMPLETE" => attempted = PlanLength

\* Only planned identifiers are read, a 16-bit range does not wrap at its end,
\* and no identifier is recorded twice in one scan.
ReadsStayInPlan ==
    /\ active /\ stage = "READ_IDENTIFIER" =>
        attempted < PlanLength /\ Request = Planned(attempted)
    /\ \A i, j \in DOMAIN records :
        records[i].service = records[j].service /\ records[i].id = records[j].id
            => i = j

\* Two answers of a UDS ECU that miss their exchange cost no known-positive
\* identifier (the comment at current_transient_retries: transport anomalies do
\* not prove that a value is absent).
NothingLost ==
    steady /\ call.kind = "refresh" /\ call.protocol = "UDS" /\ stage = "COMPLETE"
        => tally.positive = PlanLength

\* What the safety properties rest on: the scan runs an accepted call, its
\* position is the number of attempts, and records come from earlier ones.
Position ==
    /\ Accepted(call)
    /\ active => stage \notin {"COMPLETE", "FAILED"}
    /\ active /\ stage # "READ_IDENTIFIER" => attempted = 0
    /\ ListActive(call) => index = attempted
    /\ stage # "COMPLETE" =>
        attempted < PlanLength /\ current = Planned(attempted).id
    /\ attempted <= PlanLength
    /\ \A i \in DOMAIN records :
        \E n \in 0 .. attempted - 1 :
            Planned(n) = [service |-> records[i].service, id |-> records[i].id]
InductiveInvariant ==
    TypeOK /\ Position /\ Tally /\ RecordAttribution /\ ReadsStayInPlan

\* What NothingLost rests on: of an ECU that answers everything, as many answers
\* are outstanding as have missed their exchange, and those sent since the
\* present read began, one for each retry, are the last in the queue.
Refreshing == call.kind = "refresh" /\ call.protocol = "UDS"
Outstanding ==
    steady =>
        /\ Len(late) = delays
        /\ protocol = "UDS" =>
            \A i \in DOMAIN late : late[i].kind = "positive" /\ late[i].service = "22"
        /\ active => call.protocol = protocol
        /\ active /\ stage # "READ_IDENTIFIER" => retries = 0
        /\ active /\ Refreshing /\ stage = "READ_IDENTIFIER" =>
            /\ retries <= Len(late)
            /\ \A i \in DOMAIN late :
                i + retries > Len(late) => late[i] = Positive(Request)
        /\ Refreshing => tally.positive = attempted

\* Every scan ends, whatever the ECU answers and however often it is retried.
ScanEnds == active ~> ~active
=============================================================================
