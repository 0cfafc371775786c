----------------------------- MODULE ModuleScan -----------------------------
(***************************************************************************)
(* Mercedes module discovery (src/mercedes/module_scan.c): a stage machine *)
(* that hands its owner one ELM327 command at a time and is stepped with   *)
(* the response.  It walks a plan of diagnostic routes, asks each route's  *)
(* ECU who it is before anything else, records what answers, and finally   *)
(* reads the fault memory of every recorded module.  The owner may report  *)
(* an interruption (watchdog, lost wire) instead of a response, and may    *)
(* ask for a late probe of the transmission after the scan has completed.  *)
(*                                                                         *)
(* A step is one call of accept(): the command of the current stage is     *)
(* taken to have been issued, and the step consumes its response.  Texts,  *)
(* fault lists and identifiers are abstracted to whether they were read;   *)
(* a route stands for its (TX, RX, 11/29-bit) triple.                      *)
(***************************************************************************)
EXTENDS Naturals, Sequences, FiniteSets

CONSTANTS
    Routes,         \* the diagnostic routes of the model
    Route,          \* attributes of each route, see RouteAttributes
    Plan,           \* Plan[scope]: the routes a scope walks, in order
    Saved,          \* the routes of a saved vehicle profile, in order
    Scopes,         \* the scopes the owner may begin
    Transmission,   \* the source-backed GS route 0x7E1 -> 0x7E9
    FamilyRoutes,   \* routes whose ECU texts can name a controller family
    GatewayAnswers, \* routes on which the gateway answers for an absent ECU
    RepliesElsewhere, \* routes whose ECU does not reply on the planned id
    MaxModules,     \* MBLINK_MERCEDES_MODULE_SCAN_MAX_MODULES
    MaxRecoveries,  \* resumes allowed for one scan
    LateProbe,      \* whether the owner comes back for the transmission
    NoRoute         \* not a route

Protocols == {"UDS", "KWP"}
AllScopes == {"QUICK", "GATEWAY", "CENSUS", "FULL", "CACHED"}

\* known: in the source-backed route table; session: that table allows the
\* automatic extended session; hint: the protocol the table names; profiles:
\* protocols the documented ECU profiles of the route use; probes: length of
\* its VIN probe list; authoritative: its reply identifier is evidenced.
RouteAttributes ==
    [extended : BOOLEAN, known : BOOLEAN, session : BOOLEAN,
     productionVin : BOOLEAN, authoritative : BOOLEAN, probes : Nat,
     hint : Protocols, profiles : SUBSET Protocols,
     pack : Protocols \cup {"none"}]

ASSUME ConstantsAssumption ==
    /\ Route \in [Routes -> RouteAttributes]
    /\ Scopes \subseteq AllScopes
    /\ Plan \in [AllScopes \ {"CACHED"} -> Seq(Routes) \ {<<>>}]
    /\ Saved \in Seq(Routes) \ {<<>>}
    /\ Len(Saved) <= MaxModules
    /\ \A i, j \in DOMAIN Saved : Saved[i] = Saved[j] => i = j
    /\ Transmission \in Routes \cup {NoRoute}
    /\ LateProbe => Transmission \in Routes
    /\ Transmission \in Routes => ~Route[Transmission].extended
    /\ FamilyRoutes \subseteq Routes
    /\ GatewayAnswers \subseteq Routes
    /\ RepliesElsewhere \subseteq Routes
    /\ MaxModules \in Nat \ {0}
    /\ MaxRecoveries \in Nat
    /\ LateProbe \in BOOLEAN
    /\ NoRoute \notin Routes

\* Plans start on 11-bit CAN and move to 29-bit CAN at most once
\* (src/mercedes/discover_plan.c), and every automatic-session route is one
\* of the 11-bit source-backed routes.
ASSUME PlanAssumption ==
    /\ \A s \in DOMAIN Plan :
        /\ ~Route[Plan[s][1]].extended
        /\ \A i \in DOMAIN Plan[s] : i + 1 \in DOMAIN Plan[s] =>
              (Route[Plan[s][i]].extended => Route[Plan[s][i + 1]].extended)
    /\ \A r \in Routes :
        /\ Route[r].session => Route[r].known
        /\ Route[r].known => ~Route[r].extended

VARIABLES
    stage,          \* scan->stage
    scope,          \* scan->scope
    target,         \* position of the candidate route in Plan[scope]
    cand,           \* the scan->candidate_* and probe fields
    kwpCaptured,    \* scan->kwp_identity_captured
    longTimeout,    \* scan->vin_timeout_long
    vin,            \* the route scan->vin was read on, or NoRoute
    found,          \* scan->modules[0 .. module_count-1], by route
    entry,          \* the content of those entries
    truncated,      \* scan->truncated
    dtcIndex,       \* scan->dtc_index + 1
    resumePending,  \* scan->resume_pending
    resumeStage,    \* scan->resume_stage
    recoveries,     \* scan->recovery_count
    recovered,      \* the route of the last recovery, or NoRoute
    single,         \* scan->single_module_refresh
    adapter,        \* what the ELM327 is configured to (external)
    fitted,         \* the routes behind which the vehicle has an ECU (fixed)
    heard,          \* history: routes an ECU was heard on
    asked,          \* history: <<route, protocol>> identity requests answered
                    \* or timed out
    unanswered      \* history: routes without an ECU on which an identity
                    \* request got no usable reply, not even the gateway's

routeVars   == <<target, cand, kwpCaptured, longTimeout>>
moduleVars  == <<found, entry, truncated>>
resumeVars  == <<resumePending, resumeStage, recoveries, recovered, single>>
vars == <<stage, scope, routeVars, vin, moduleVars, dtcIndex, resumeVars,
          adapter, fitted, heard, asked, unanswered>>
-----------------------------------------------------------------------------
(* Stages *)

InitStages == {"INIT_PROTOCOL_11", "INIT_HEADERS", "INIT_AUTO_FORMAT",
               "INIT_FLOW_CONTROL", "INIT_TIMEOUT"}
RouteSetupStages ==
    {"SWITCH_PROTOCOL_29", "SWITCH_HEADERS_OFF_29", "DISCOVERY_SET_HEADER",
     "DISCOVERY_RESET_RECEIVE", "DISCOVERY_SET_FILTER", "DISCOVERY_SET_MASK",
     "DISCOVERY_SET_RECEIVE"}
ProbeStages ==
    {"DISCOVERY_EXTENDED_SESSION", "DISCOVERY_IDENTITY",
     "DISCOVERY_SPARE_PART", "DISCOVERY_SOFTWARE", "DISCOVERY_HARDWARE",
     "DISCOVERY_TESTER_PRESENT", "DISCOVERY_DTC_FALLBACK",
     "DISCOVERY_VIN_FALLBACK", "DISCOVERY_VARIANT_FALLBACK"}
TimeoutStages == {"DISCOVERY_VIN_SET_TIMEOUT", "DISCOVERY_RESTORE_TIMEOUT"}
DiscoveryStages == RouteSetupStages \cup ProbeStages \cup TimeoutStages
DtcSetupStages == {"DTC_SET_PROTOCOL", "DTC_SET_HEADER", "DTC_SET_RECEIVE",
                   "CACHED_IDENTITY_SET_TIMEOUT",
                   "CACHED_IDENTITY_RESTORE_TIMEOUT"}
DtcRequestStages == {"DTC_EXTENDED_SESSION", "DTC_VALIDATE", "DTC_READ",
                     "CACHED_IDENTITY"}
DtcStages == DtcSetupStages \cup DtcRequestStages
Ended == {"COMPLETE", "FAILED"}
Stages == InitStages \cup DiscoveryStages \cup DtcStages \cup Ended

\* Stages whose command configures the adapter and must be answered OK.
AdapterStages == InitStages \cup RouteSetupStages \cup TimeoutStages
                            \cup DtcSetupStages
-----------------------------------------------------------------------------
(* Routes, the candidate and the recorded modules *)

Candidate == Plan[scope][target]
Module == found[dtcIndex]
Found == {found[i] : i \in DOMAIN found}
PlannedRoutes == {Plan[scope][i] : i \in DOMAIN Plan[scope]}

UsesTargetPlan == scope \in {"CENSUS", "FULL"}

\* candidate_route_locked as the three set_*_target functions leave it.
Locked(r) == \/ scope = "CENSUS"
             \/ Route[r].extended
             \/ scope = "FULL" /\ Route[r].authoritative

\* An unlocked 11-bit sweep route is probed through an open receive filter.
Sweeping(r) == UsesTargetPlan /\ ~Route[r].extended /\ ~Locked(r)
Unlocked == Sweeping(Candidate)

Hint(r) == IF Route[r].known THEN Route[r].hint ELSE "UDS"

RouteProtocols(r) ==
    IF Route[r].profiles = {} THEN {Hint(r)} ELSE Route[r].profiles

\* UDS is preferred whenever the profiles rule the hint out.
StartProtocol(r) ==
    IF Hint(r) \in RouteProtocols(r) THEN Hint(r)
    ELSE IF "UDS" \in RouteProtocols(r) THEN "UDS" ELSE "KWP"

\* A candidate as set_full_target, set_11_candidate and set_gateway_target
\* leave it.
FreshCandidate(r) ==
    [protocol |-> StartProtocol(r), attempted |-> {StartProtocol(r)},
     session |-> "none", probe |-> 0, fallback |-> FALSE, index |-> 0]

Candidates == [protocol : Protocols, attempted : SUBSET Protocols,
               session : {"none", "tried", "active"}, probe : Nat,
               fallback : BOOLEAN, index : 0 .. 3]

DtcResults == {"not attempted", "available", "negative", "unusable"}
Entries == [protocol : Protocols, tester : BOOLEAN,
            session : {"none", "tried", "active"},
            identity : {"none", "saved", "read"}, family : BOOLEAN,
            dtc : DtcResults]

BlankEntry(protocol) ==
    [protocol |-> protocol, tester |-> FALSE, session |-> "none",
     identity |-> "none", family |-> FALSE, dtc |-> "not attempted"]

\* Once an ECU family is named, its ECU pack owns the protocol.
EntryProtocol(r, e) ==
    IF e.family /\ Route[r].pack # "none" THEN Route[r].pack ELSE e.protocol

IsKwpTransmission(r, e) == r = Transmission /\ EntryProtocol(r, e) = "KWP"

\* Whether the candidate has, or can be given, an entry.
\* Slip: the capacity check is off by one.
HasRoomOffByOne == Candidate \in Found \/ Len(found) <= MaxModules
HasRoom == Candidate \in Found \/ Len(found) < MaxModules

StrongerSession(a, b) ==
    IF "active" \in {a, b} THEN "active"
    ELSE IF "tried" \in {a, b} THEN "tried" ELSE "none"

\* The candidate's entry after record_module(tester): a new entry, or the
\* existing one with the evidence merged in.
RecordedEntry(tester, session) ==
    IF Candidate \in Found
    THEN [entry[Candidate] EXCEPT
             !.tester = @ \/ tester,
             !.session = StrongerSession(@, session)]
    ELSE [BlankEntry(cand.protocol) EXCEPT
             !.tester = tester, !.session = session]

\* Slip: a module that answers again is recorded again.
RecordAgain(e) ==
    IF Len(found) < MaxModules
    THEN /\ found' = Append(found, Candidate)
         /\ entry' = [entry EXCEPT ![Candidate] = e]
         /\ UNCHANGED truncated
    ELSE truncated' = TRUE /\ UNCHANGED <<found, entry>>

\* record_module, with e the candidate's entry afterwards; a full table
\* only marks the scan truncated.
Record(e) ==
    IF HasRoom
    THEN /\ found' = IF Candidate \in Found THEN found
                     ELSE Append(found, Candidate)
         /\ entry' = [entry EXCEPT ![Candidate] = e]
         /\ UNCHANGED truncated
    ELSE truncated' = TRUE /\ UNCHANGED <<found, entry>>

\* Slip: only TesterPresent counts as presence.
RecordTester(present, tester) ==
    IF present /\ tester THEN Record(RecordedEntry(tester, cand.session))
    ELSE UNCHANGED moduleVars

RecordIf(present, tester) ==
    IF present THEN Record(RecordedEntry(tester, cand.session))
    ELSE UNCHANGED moduleVars

\* find_candidate after this step's record_module.
CandidateFound == Candidate \in Found'
-----------------------------------------------------------------------------
(* The adapter and the vehicle (external).  The adapter answers OK to a    *)
(* configuration command or rejects it.  Selecting a protocol is taken to  *)
(* void the header and the receive filter, so nothing may rely on them     *)
(* surviving it; after an interruption nothing at all is known.            *)

Unconfigured == [protocol |-> "unknown", header |-> NoRoute,
                 filter |-> "unknown", receive |-> NoRoute,
                 timeout |-> "unknown", formats |-> {}]

Adapters == [protocol : {"unknown", "ATSP6", "ATSP7"},
             header : Routes \cup {NoRoute},
             filter : {"unknown", "default", "code", "open", "exact"},
             receive : Routes \cup {NoRoute},
             timeout : {"unknown", "ATST20", "ATST32", "ATST64", "ATSTFF"},
             formats : SUBSET {"ATH0", "ATCAF1", "ATCFC1"}]

Bus(r) == IF Route[r].extended THEN "ATSP7" ELSE "ATSP6"
ScanTimeout == IF scope = "FULL" THEN "ATST32" ELSE "ATST20"

Selected(p) == [adapter EXCEPT !.protocol = p, !.header = NoRoute,
                               !.filter = "unknown"]
Receiving(r) == [adapter EXCEPT !.filter = "exact", !.receive = r]
Formatted(f) == [adapter EXCEPT !.formats = @ \cup {f}]

\* The adapter is ready for raw hexadecimal exchanges with route r.
Tuned(r) == /\ adapter.protocol = Bus(r)
            /\ adapter.header = r
            /\ adapter.formats = {"ATH0", "ATCAF1", "ATCFC1"}

\* Replies from the ECU that the adapter now addresses: a positive one, a
\* negative one, or nothing usable (silence, NO DATA, a malformed reply).
\* For an absent ECU the gateway may answer itself with NRC A0 or A1, a reply
\* that may be missed like any other.
Answers ==
    LET r == adapter.header
        passes == \/ adapter.filter = "open"
                  \/ /\ adapter.filter = "exact"
                     /\ adapter.receive = r
                     /\ r \notin RepliesElsewhere
    IN  IF r = NoRoute THEN {"none"}
        ELSE IF ~Tuned(r) \/ ~passes THEN {"none"}
        ELSE IF r \in fitted THEN {"positive", "negative", "none"}
        ELSE IF r \in GatewayAnswers THEN {"gateway", "none"} ELSE {"none"}

\* identity_response_state: the identity layer knows NRC A0 and A1 for what
\* they are.
\* Slip: any negative response is a refusal.
IdentityStateByPolarity(reply) ==
    IF reply = "gateway" THEN "negative" ELSE reply
IdentityState(reply) == IF reply = "gateway" THEN "miss" ELSE reply

\* Any decodable reply counts as presence outside the identity layer.
Present(reply) == reply # "none"

Hear(reply) ==
    heard' = IF reply \in {"positive", "negative"}
             THEN heard \cup {adapter.header} ELSE heard

Miss(reply) ==
    unanswered' = IF reply = "none" /\ Candidate \notin fitted
                  THEN unanswered \cup {Candidate} ELSE unanswered
-----------------------------------------------------------------------------
(* Moving between routes *)

\* finish_discovery, on the entries as this step leaves them.
FinishDiscovery ==
    /\ dtcIndex' = 1
    /\ stage' = IF \E r \in Found' : entry'[r].dtc = "not attempted"
                THEN "DTC_SET_PROTOCOL" ELSE "COMPLETE"
    /\ UNCHANGED <<target, cand>>

\* Slip: the last planned route is not reached.
HasNextRouteShort == target + 1 < Len(Plan[scope])
HasNextRoute == target < Len(Plan[scope])

\* The part of advance_candidate that follows its timeout check.
NextRoute ==
    IF HasNextRoute
    THEN LET next == Plan[scope][target + 1] IN
         /\ target' = target + 1
         /\ cand' = FreshCandidate(next)
         /\ stage' = IF Route[next].extended = Route[Candidate].extended
                     THEN "DISCOVERY_SET_HEADER"
                     ELSE IF Route[next].extended THEN "SWITCH_PROTOCOL_29"
                     ELSE "INIT_PROTOCOL_11"
         /\ UNCHANGED dtcIndex
    ELSE FinishDiscovery

AdvanceCandidate ==
    IF longTimeout
    THEN stage' = "DISCOVERY_RESTORE_TIMEOUT"
         /\ UNCHANGED <<target, cand, dtcIndex>>
    ELSE NextRoute

\* Staying on the route.
Goto(s, c) == stage' = s /\ cand' = c /\ UNCHANGED <<target, dtcIndex>>

EnterVinFallback ==
    Goto(IF Route[Candidate].productionVin /\ ~longTimeout
         THEN "DISCOVERY_VIN_SET_TIMEOUT" ELSE "DISCOVERY_VIN_FALLBACK",
         [cand EXCEPT !.probe = 0])

HasVinCommand == cand.probe < Route[Candidate].probes
\* Slip: only the protocol in use counts as tried.
UntriedButCurrent == RouteProtocols(Candidate) \ {cand.protocol}
UntriedProtocols == RouteProtocols(Candidate) \ cand.attempted

\* try_alternate_protocol: the other documented protocol of the route gets
\* one attempt of its own, with its own session attempt.
TryAlternateProtocol ==
    LET p == IF "UDS" \in UntriedProtocols THEN "UDS" ELSE "KWP" IN
    Goto("DISCOVERY_TESTER_PRESENT",
         [cand EXCEPT !.protocol = p, !.attempted = @ \cup {p},
                      !.session = "none", !.probe = 0,
                      !.fallback = FALSE, !.index = 0])
-----------------------------------------------------------------------------
(* Adapter setup: one configuration command, answered OK *)

Setup(s, next, configured) ==
    /\ stage = s
    /\ stage' = next
    /\ adapter' = configured
    /\ UNCHANGED <<scope, routeVars, vin, moduleVars, dtcIndex, resumeVars,
                   fitted, heard, asked, unanswered>>

InitProtocol11 == Setup("INIT_PROTOCOL_11", "INIT_HEADERS", Selected("ATSP6"))
InitHeaders == Setup("INIT_HEADERS", "INIT_AUTO_FORMAT", Formatted("ATH0"))
InitAutoFormat ==
    Setup("INIT_AUTO_FORMAT", "INIT_FLOW_CONTROL", Formatted("ATCAF1"))
InitFlowControl ==
    Setup("INIT_FLOW_CONTROL", "INIT_TIMEOUT", Formatted("ATCFC1"))

AfterInit ==
    IF resumePending THEN resumeStage
    ELSE IF scope = "CACHED" THEN "DTC_SET_PROTOCOL"
    ELSE "DISCOVERY_SET_HEADER"

InitTimeout ==
    /\ stage = "INIT_TIMEOUT"
    /\ adapter' = [adapter EXCEPT !.timeout = ScanTimeout]
    /\ stage' = AfterInit
    /\ resumePending' = FALSE
    /\ UNCHANGED <<scope, routeVars, vin, moduleVars, dtcIndex, resumeStage,
                   recoveries, recovered, single, fitted, heard, asked,
                   unanswered>>

SwitchProtocol29 ==
    Setup("SWITCH_PROTOCOL_29", "SWITCH_HEADERS_OFF_29", Selected("ATSP7"))
SwitchHeadersOff29 ==
    Setup("SWITCH_HEADERS_OFF_29", "DISCOVERY_SET_HEADER", Formatted("ATH0"))
SetHeader ==
    Setup("DISCOVERY_SET_HEADER",
          IF Unlocked THEN "DISCOVERY_RESET_RECEIVE"
                      ELSE "DISCOVERY_SET_RECEIVE",
          [adapter EXCEPT !.header = Candidate])
ResetReceive ==
    Setup("DISCOVERY_RESET_RECEIVE", "DISCOVERY_SET_FILTER",
          [adapter EXCEPT !.filter = "default"])
SetFilter ==
    Setup("DISCOVERY_SET_FILTER", "DISCOVERY_SET_MASK",
          [adapter EXCEPT !.filter = IF @ = "default" THEN "code" ELSE @])

\* Slip: the core's own order of stages, presence first.
StartPresence(configured) ==
    /\ adapter' = configured
    /\ stage' = "DISCOVERY_TESTER_PRESENT"
    /\ UNCHANGED <<scope, target, cand, kwpCaptured, longTimeout, vin,
                   moduleVars, dtcIndex, resumeVars, fitted, heard, asked,
                   unanswered>>

\* Route setup is over: identity comes first, whatever the core stage says.
StartIdentity(configured) ==
    /\ adapter' = configured
    /\ stage' = "DISCOVERY_IDENTITY"
    /\ cand' = [cand EXCEPT !.probe = 0]
    /\ UNCHANGED <<scope, target, kwpCaptured, longTimeout, vin, moduleVars,
                   dtcIndex, resumeVars, fitted, heard, asked, unanswered>>

SetMask ==
    /\ stage = "DISCOVERY_SET_MASK"
    /\ StartIdentity(
          [adapter EXCEPT !.filter = IF @ = "code" THEN "open" ELSE @])
SetReceive ==
    /\ stage = "DISCOVERY_SET_RECEIVE"
    /\ ~Route[Candidate].session
    /\ StartIdentity(Receiving(Candidate))
SetReceiveForSession ==
    /\ Setup("DISCOVERY_SET_RECEIVE", "DISCOVERY_EXTENDED_SESSION",
             Receiving(Candidate))
    /\ Route[Candidate].session

VinSetTimeout ==
    /\ stage = "DISCOVERY_VIN_SET_TIMEOUT"
    /\ adapter' = [adapter EXCEPT !.timeout = "ATSTFF"]
    /\ longTimeout' = TRUE
    /\ stage' = "DISCOVERY_VIN_FALLBACK"
    /\ UNCHANGED <<scope, target, cand, kwpCaptured, vin, moduleVars,
                   dtcIndex, resumeVars, fitted, heard, asked, unanswered>>

RestoreTimeout ==
    /\ stage = "DISCOVERY_RESTORE_TIMEOUT"
    /\ adapter' = [adapter EXCEPT !.timeout = ScanTimeout]
    /\ longTimeout' = FALSE
    /\ UNCHANGED moduleVars
    /\ NextRoute
    /\ UNCHANGED <<scope, kwpCaptured, vin, resumeVars, fitted, heard, asked,
                   unanswered>>

\* Any adapter command that is not answered OK ends the scan.
AdapterRejects ==
    /\ stage \in AdapterStages
    /\ stage' = "FAILED"
    /\ UNCHANGED <<scope, routeVars, vin, moduleVars, dtcIndex, resumeVars,
                   adapter, fitted, heard, asked, unanswered>>
-----------------------------------------------------------------------------
(* Discovery: requests to the candidate's ECU *)

\* Variables that no discovery request changes.
UnchangedByProbe == UNCHANGED <<scope, longTimeout, resumeVars, adapter, fitted>>

ExtendedSession ==
    /\ stage = "DISCOVERY_EXTENDED_SESSION"
    /\ \E reply \in Answers :
        LET session == IF reply = "positive" THEN "active" ELSE "tried" IN
        /\ Hear(reply)
        /\ IF Present(reply) THEN Record(RecordedEntry(FALSE, session))
           ELSE UNCHANGED moduleVars
        /\ Goto("DISCOVERY_IDENTITY",
                [cand EXCEPT !.session = session, !.probe = 0])
    /\ UNCHANGED <<kwpCaptured, vin, asked, unanswered>>
    /\ UnchangedByProbe

KwpIdentityMode == cand.protocol = "KWP" \/ cand.fallback

\* A texts argument says whether the reply's identity could be read; a family
\* can only be named from texts.
Texts(reply) == IF reply = "positive" THEN BOOLEAN ELSE {FALSE}
Named(texts) == IF texts /\ Candidate \in FamilyRoutes THEN BOOLEAN
                                                        ELSE {FALSE}

UdsIdentity ==
    /\ stage = "DISCOVERY_IDENTITY"
    /\ ~KwpIdentityMode
    /\ asked' = asked \cup {<<Candidate, "UDS">>}
    /\ \E reply \in Answers : \E texts \in Texts(reply) :
       \E named \in Named(texts) :
        LET e == RecordedEntry(FALSE, cand.session) IN
        /\ Hear(reply) /\ Miss(reply)
        /\ \/ /\ IdentityState(reply) = "miss"
              /\ UNCHANGED moduleVars
              /\ AdvanceCandidate
           \/ /\ IdentityState(reply) = "positive"
              /\ Record([e EXCEPT !.protocol = "UDS",
                             !.identity = IF texts THEN "read" ELSE "none",
                             !.family = @ \/ named])
              /\ Goto("DISCOVERY_SPARE_PART", cand)
           \/ /\ IdentityState(reply) = "negative"
              /\ IF Route[Candidate].known
                 THEN /\ Record([e EXCEPT !.protocol = "UDS"])
                      /\ Goto("DISCOVERY_SPARE_PART", cand)
                 ELSE /\ Record(e)
                      /\ Goto("DISCOVERY_IDENTITY",
                              [cand EXCEPT !.fallback = TRUE, !.index = 0])
           \/ /\ IdentityState(reply) = "none"
              /\ UNCHANGED moduleVars
              /\ IF Route[Candidate].known
                 THEN Goto("DISCOVERY_TESTER_PRESENT", cand)
                 ELSE Goto("DISCOVERY_IDENTITY",
                           [cand EXCEPT !.fallback = TRUE, !.index = 0])
    /\ UNCHANGED <<kwpCaptured, vin>>
    /\ UnchangedByProbe

\* Slip: the option is asked again.
SameKwpOption == Goto("DISCOVERY_IDENTITY", cand)

\* 1A 87, 1A 86 and 1A 89 in turn; index 0 is 1A 87.
NextKwpOption ==
    Goto("DISCOVERY_IDENTITY", [cand EXCEPT !.index = @ + 1])

KwpIdentity ==
    /\ stage = "DISCOVERY_IDENTITY"
    /\ KwpIdentityMode
    /\ asked' = asked \cup {<<Candidate, "KWP">>}
    /\ \E reply \in Answers : \E texts \in Texts(reply) :
       \E named \in Named(texts) :
        LET captured == kwpCaptured /\ cand.index > 0
            kwp == [RecordedEntry(FALSE, cand.session)
                      EXCEPT !.protocol = "KWP"]
            e == IF texts /\ ~captured
                 THEN [kwp EXCEPT !.identity = "read", !.family = @ \/ named]
                 ELSE kwp IN
        /\ Hear(reply) /\ Miss(reply)
        /\ kwpCaptured' = (captured \/ (HasRoom /\ texts))
        /\ \/ /\ IdentityState(reply) = "miss"
              /\ UNCHANGED moduleVars
              /\ AdvanceCandidate
           \/ /\ IdentityState(reply) = "positive"
              /\ Record(e)
              /\ IF /\ cand.index < 2
                    /\ \/ ~(captured \/ (HasRoom /\ texts))
                       \/ HasRoom /\ IsKwpTransmission(Candidate, e)
                 THEN NextKwpOption ELSE AdvanceCandidate
           \/ /\ IdentityState(reply) \in {"negative", "none"}
              /\ IF IdentityState(reply) = "negative" THEN Record(e)
                 ELSE UNCHANGED moduleVars
              /\ IF cand.index < 2 THEN NextKwpOption
                 ELSE IF CandidateFound THEN AdvanceCandidate
                 ELSE Goto("DISCOVERY_TESTER_PRESENT",
                           [cand EXCEPT !.fallback = FALSE, !.index = 0])
    /\ UNCHANGED vin
    /\ UnchangedByProbe

\* F187, F188 and F191 only add texts; F188 and F191 reclassify the family.
SparePart ==
    /\ stage = "DISCOVERY_SPARE_PART"
    /\ \E reply \in Answers : Hear(reply)
    /\ Goto("DISCOVERY_SOFTWARE", cand)
    /\ UNCHANGED <<kwpCaptured, vin, moduleVars, asked, unanswered>>
    /\ UnchangedByProbe

Classify(named) ==
    /\ entry' = IF Candidate \in Found
                THEN [entry EXCEPT ![Candidate].family = @ \/ named]
                ELSE entry
    /\ UNCHANGED <<found, truncated>>

Software ==
    /\ stage = "DISCOVERY_SOFTWARE"
    /\ \E reply \in Answers : \E named \in Named(reply = "positive") :
        Hear(reply) /\ Classify(named)
    /\ Goto("DISCOVERY_HARDWARE", cand)
    /\ UNCHANGED <<kwpCaptured, vin, asked, unanswered>>
    /\ UnchangedByProbe

Hardware ==
    /\ stage = "DISCOVERY_HARDWARE"
    /\ \E reply \in Answers : \E named \in Named(reply = "positive") :
        Hear(reply) /\ Classify(named)
    /\ AdvanceCandidate
    /\ UNCHANGED <<kwpCaptured, vin, asked, unanswered>>
    /\ UnchangedByProbe

\* A module that is already recorded leaves its fault memory to the later
\* pass.  On an unlocked route the reply is ignored: only a reply that shows
\* its CAN identifier could be used, and headers are off.
TesterPresent ==
    /\ stage = "DISCOVERY_TESTER_PRESENT"
    /\ \E reply \in Answers :
        /\ Hear(reply)
        /\ RecordIf(~Unlocked /\ Present(reply), TRUE)
        /\ IF \/ CandidateFound
              \/ /\ ~Unlocked
                 /\ ~Present(reply)
                 /\ scope = "CENSUS"
                 /\ ~Route[Candidate].known
                 /\ ~Route[Candidate].productionVin
           THEN AdvanceCandidate
           ELSE Goto("DISCOVERY_DTC_FALLBACK", cand)
    /\ UNCHANGED <<kwpCaptured, vin, asked, unanswered>>
    /\ UnchangedByProbe

\* Slip: no answer is taken for an empty fault list.
DtcResultEmptyList(reply) ==
    IF reply \in {"positive", "none"} THEN {"available"} ELSE {"negative"}

\* capture_dtc: whatever was held is cleared before the reply is looked at.
\* NO_RESPONSE and INVALID_RESPONSE, which a positive reply that does not
\* decode gives too, are both "unusable".
DtcResult(reply) ==
    CASE reply = "positive" -> {"available", "unusable"}
      [] reply = "none" -> {"unusable"}
      [] OTHER -> {"negative"}

DtcFallback ==
    /\ stage = "DISCOVERY_DTC_FALLBACK"
    /\ \E reply \in Answers : \E result \in DtcResult(reply) :
        /\ Hear(reply)
        /\ IF ~Unlocked /\ Present(reply)
           THEN Record([RecordedEntry(FALSE, cand.session)
                          EXCEPT !.dtc = result])
           ELSE IF ~Unlocked /\ Candidate \in Found
           THEN /\ entry' = [entry EXCEPT ![Candidate].dtc = result]
                /\ UNCHANGED <<found, truncated>>
           ELSE UNCHANGED moduleVars
        /\ IF Unlocked THEN EnterVinFallback
           ELSE IF CandidateFound
           THEN IF cand.protocol = "KWP" THEN AdvanceCandidate
                ELSE Goto("DISCOVERY_IDENTITY", cand)
           ELSE IF HasVinCommand THEN EnterVinFallback
           ELSE IF UntriedProtocols # {} THEN TryAlternateProtocol
           ELSE AdvanceCandidate
    /\ UNCHANGED <<kwpCaptured, vin, asked, unanswered>>
    /\ UnchangedByProbe

\* The next step once a probe has, or has not, raised an answer.
AfterPresence ==
    IF cand.protocol = "KWP" THEN AdvanceCandidate
    ELSE Goto("DISCOVERY_IDENTITY", cand)

\* Only the first VIN is kept, and only from a locked route.
VinFallback ==
    /\ stage = "DISCOVERY_VIN_FALLBACK"
    /\ HasVinCommand
    /\ \E reply \in Answers : \E wellFormed \in Texts(reply) :
        /\ Hear(reply)
        /\ vin' = IF wellFormed /\ Locked(Candidate) /\ vin = NoRoute
                  THEN Candidate ELSE vin
        /\ RecordIf(~Unlocked /\ Present(reply), FALSE)
        /\ IF Unlocked THEN AdvanceCandidate
           ELSE IF Present(reply) THEN AfterPresence
           ELSE IF cand.probe + 1 < Route[Candidate].probes
           THEN Goto("DISCOVERY_VIN_FALLBACK", [cand EXCEPT !.probe = @ + 1])
           ELSE IF Route[Candidate].known /\ cand.protocol = "UDS"
           THEN Goto("DISCOVERY_VARIANT_FALLBACK", cand)
           ELSE AdvanceCandidate
    /\ UNCHANGED <<kwpCaptured, asked, unanswered>>
    /\ UnchangedByProbe

VariantFallback ==
    /\ stage = "DISCOVERY_VARIANT_FALLBACK"
    /\ \E reply \in Answers :
        /\ Hear(reply)
        /\ RecordIf(Present(reply), FALSE)
        /\ IF Present(reply) THEN AfterPresence ELSE AdvanceCandidate
    /\ UNCHANGED <<kwpCaptured, vin, asked, unanswered>>
    /\ UnchangedByProbe
-----------------------------------------------------------------------------
(* The fault pass over the recorded modules, which is also how a saved     *)
(* profile is checked and how the transmission is probed late.             *)

DtcSetProtocol ==
    Setup("DTC_SET_PROTOCOL", "DTC_SET_HEADER", Selected(Bus(Module)))
DtcSetHeader ==
    Setup("DTC_SET_HEADER", "DTC_SET_RECEIVE",
          [adapter EXCEPT !.header = Module])

SessionOrValidate(wanted) ==
    IF wanted /\ Route[Module].session THEN "DTC_EXTENDED_SESSION"
                                       ELSE "DTC_VALIDATE"

\* A saved transmission whose family is still unknown is asked for its KWP
\* identity first.
UnresolvedTransmission ==
    /\ scope = "CACHED"
    /\ IsKwpTransmission(Module, entry[Module])
    /\ ~entry[Module].family

DtcSetReceive ==
    /\ Setup("DTC_SET_RECEIVE", SessionOrValidate(scope = "CACHED"),
             Receiving(Module))
    /\ ~UnresolvedTransmission

\* Slip: the saved identity does not count as captured.
DtcSetReceiveForgettingIdentity ==
    /\ stage = "DTC_SET_RECEIVE"
    /\ UnresolvedTransmission
    /\ stage' = "CACHED_IDENTITY_SET_TIMEOUT"
    /\ adapter' = Receiving(Module)
    /\ cand' = [cand EXCEPT !.index = 0, !.fallback = FALSE]
    /\ kwpCaptured' = FALSE
    /\ UNCHANGED <<scope, target, longTimeout, vin, moduleVars, dtcIndex,
                   resumeVars, fitted, heard, asked, unanswered>>

DtcSetReceiveForIdentity ==
    /\ stage = "DTC_SET_RECEIVE"
    /\ UnresolvedTransmission
    /\ stage' = "CACHED_IDENTITY_SET_TIMEOUT"
    /\ adapter' = Receiving(Module)
    /\ cand' = [cand EXCEPT !.index = 0, !.fallback = FALSE]
    /\ kwpCaptured' = (entry[Module].identity # "none")
    /\ UNCHANGED <<scope, target, longTimeout, vin, moduleVars, dtcIndex,
                   resumeVars, fitted, heard, asked, unanswered>>

CachedIdentitySetTimeout ==
    Setup("CACHED_IDENTITY_SET_TIMEOUT", "CACHED_IDENTITY",
          [adapter EXCEPT !.timeout = "ATST64"])
CachedIdentityRestoreTimeout ==
    Setup("CACHED_IDENTITY_RESTORE_TIMEOUT", SessionOrValidate(TRUE),
          [adapter EXCEPT !.timeout = "ATST20"])

CachedIdentity ==
    /\ stage = "CACHED_IDENTITY"
    /\ \E reply \in Answers : \E texts \in Texts(reply) :
       \E named \in IF texts /\ Module \in FamilyRoutes THEN BOOLEAN
                                                       ELSE {FALSE} :
        /\ Hear(reply)
        /\ kwpCaptured' = (kwpCaptured \/ texts)
        /\ entry' = IF texts /\ ~kwpCaptured
                    THEN [entry EXCEPT ![Module].identity = "read",
                                       ![Module].family = @ \/ named]
                    ELSE entry
    /\ cand' = [cand EXCEPT !.index = @ + 1]
    /\ stage' = IF cand.index < 2 THEN stage
                ELSE "CACHED_IDENTITY_RESTORE_TIMEOUT"
    /\ UNCHANGED <<target, found, truncated, vin, dtcIndex, asked, unanswered>>
    /\ UnchangedByProbe

\* A fault-pass request that only touches the module's own entry.
ModuleRequest(s) ==
    /\ stage = s
    /\ UNCHANGED <<target, cand, kwpCaptured, vin, found, truncated, asked,
                   unanswered>>
    /\ UnchangedByProbe

DtcExtendedSession ==
    /\ ModuleRequest("DTC_EXTENDED_SESSION")
    /\ \E reply \in Answers :
        /\ Hear(reply)
        /\ entry' = [entry EXCEPT ![Module].session =
                       IF reply = "positive" THEN "active"
                       ELSE StrongerSession(@, "tried")]
    /\ stage' = "DTC_VALIDATE"
    /\ UNCHANGED dtcIndex

DtcValidate ==
    /\ ModuleRequest("DTC_VALIDATE")
    /\ \E reply \in Answers :
        /\ Hear(reply)
        /\ entry' = [entry EXCEPT ![Module].tester = Present(reply)]
    /\ stage' = "DTC_READ"
    /\ UNCHANGED dtcIndex

\* Where the fault pass goes after the module at dtcIndex.
\* Slip: a refresh of one module goes on to the next.
AfterModuleOnward ==
    IF dtcIndex >= Len(found) THEN "COMPLETE" ELSE "DTC_SET_PROTOCOL"
AfterModule ==
    IF single \/ dtcIndex >= Len(found) THEN "COMPLETE"
    ELSE "DTC_SET_PROTOCOL"

DtcRead ==
    /\ ModuleRequest("DTC_READ")
    /\ \E reply \in Answers : \E result \in DtcResult(reply) :
        /\ Hear(reply)
        /\ entry' = [entry EXCEPT ![Module].dtc = result]
    /\ dtcIndex' = dtcIndex + 1
    /\ stage' = AfterModule
-----------------------------------------------------------------------------
(* Interruptions: the owner lost the response of the outstanding command   *)
(* and reports it instead, once the wire is its own again.                 *)

InFaultPass ==
    \/ scope = "CACHED"
    \/ resumePending /\ resumeStage = "DTC_SET_PROTOCOL"
    \/ stage \in DtcStages \cup Ended

InterruptedRoute == IF InFaultPass THEN Module ELSE Candidate

CanResume ==
    /\ stage \notin Ended
    /\ recoveries < MaxRecoveries
    /\ InFaultPass => dtcIndex <= Len(found)

\* The route is restarted: its probe bookkeeping is reset, its protocol and
\* session flags are not.
Restarted(c) == [c EXCEPT !.probe = 0, !.fallback = FALSE, !.index = 0]

\* Slip: the long VIN timeout is still thought to be set after the replay.
InterruptedKeepingTimeout ==
    /\ recoveries' = recoveries + 1
    /\ recovered' = InterruptedRoute
    /\ adapter' = Unconfigured
    /\ UNCHANGED <<scope, kwpCaptured, longTimeout, vin, moduleVars, single,
                   fitted, heard, asked, unanswered>>

Interrupted ==
    /\ recoveries' = recoveries + 1
    /\ recovered' = InterruptedRoute
    /\ longTimeout' = FALSE
    /\ adapter' = Unconfigured
    /\ UNCHANGED <<scope, kwpCaptured, vin, moduleVars, single, fitted,
                   heard, asked, unanswered>>

\* Slip: the adapter setup is not replayed.
ResumeWithoutReplay(s) ==
    /\ stage' = s
    /\ resumePending' = FALSE
    /\ resumeStage' = s

\* Replay the adapter setup, then continue at s.
ResumeAt(s) ==
    /\ stage' = "INIT_PROTOCOL_11"
    /\ resumePending' = TRUE
    /\ resumeStage' = s

RouteStart(r) == IF Route[r].extended THEN "SWITCH_PROTOCOL_29"
                                      ELSE "DISCOVERY_SET_HEADER"
GiveUp == stage' = "COMPLETE" /\ UNCHANGED <<resumePending, resumeStage>>

\* Slip: a retry in the fault pass goes back to discovery.
RetryFromPlan ==
    /\ CanResume
    /\ recovered # InterruptedRoute
    /\ Interrupted
    /\ ResumeAt(RouteStart(Candidate))
    /\ cand' = Restarted(cand)
    /\ UNCHANGED <<target, dtcIndex>>

RetryRoute ==
    /\ CanResume
    /\ recovered # InterruptedRoute
    /\ Interrupted
    /\ ResumeAt(IF InFaultPass THEN "DTC_SET_PROTOCOL"
                ELSE RouteStart(Candidate))
    /\ cand' = Restarted(cand)
    /\ UNCHANGED <<target, dtcIndex>>

\* A second interruption on the same route skips it.
SkipModule ==
    /\ CanResume
    /\ InFaultPass
    /\ recovered = Module
    /\ Interrupted
    /\ dtcIndex' = dtcIndex + 1
    /\ IF single \/ dtcIndex >= Len(found) THEN GiveUp
       ELSE ResumeAt("DTC_SET_PROTOCOL")
    /\ cand' = Restarted(cand)
    /\ UNCHANGED target

SkipRoute ==
    /\ CanResume
    /\ ~InFaultPass
    /\ recovered = Candidate
    /\ Interrupted
    /\ IF HasNextRoute
       THEN /\ target' = target + 1
            /\ cand' = FreshCandidate(Plan[scope][target + 1])
            /\ ResumeAt(RouteStart(Plan[scope][target + 1]))
            /\ UNCHANGED dtcIndex
       ELSE /\ dtcIndex' = 1
            /\ IF \E r \in Found : entry[r].dtc = "not attempted"
               THEN ResumeAt("DTC_SET_PROTOCOL") ELSE GiveUp
            /\ cand' = Restarted(cand)
            /\ UNCHANGED target

\* begin_late_transmission, which its owner calls at most once.
BeginLateTransmission ==
    /\ stage = "COMPLETE"
    /\ LateProbe /\ ~single
    /\ Transmission \in Found \/ Len(found) < MaxModules
    /\ scope' = "CACHED"
    /\ single' = TRUE
    /\ found' = IF Transmission \in Found THEN found
                ELSE Append(found, Transmission)
    /\ entry' = IF Transmission \in Found THEN entry
                ELSE [entry EXCEPT ![Transmission] = BlankEntry("KWP")]
    /\ dtcIndex' = CHOOSE i \in DOMAIN found' : found'[i] = Transmission
    /\ resumePending' = FALSE
    /\ longTimeout' = FALSE
    /\ cand' = Restarted(cand)
    /\ stage' = "INIT_PROTOCOL_11"
    /\ UNCHANGED <<target, kwpCaptured, vin, truncated, resumeStage,
                   recoveries, recovered, adapter, fitted, heard, asked,
                   unanswered>>
-----------------------------------------------------------------------------
(* begin_core, begin_gateway_core, begin_mobile_census_core,               *)
(* begin_full_core and begin_cached, all of which zero the scan first.     *)

\* A saved entry: its protocol is the profile's, whatever that says, unless the
\* pack of its family decides it (begin_cached).
SavedEntry(protocol, identified, resolved) ==
    [r \in Routes |->
        LET e == [BlankEntry(protocol[r]) EXCEPT
                    !.identity = IF r \in identified THEN "saved" ELSE "none",
                    !.family = r \in resolved]
        IN  [e EXCEPT !.protocol = EntryProtocol(r, e)]]

NoCandidate == [protocol |-> "UDS", attempted |-> {}, session |-> "none",
                probe |-> 0, fallback |-> FALSE, index |-> 0]

BeginDiscovery ==
    /\ scope \in Scopes \ {"CACHED"}
    /\ cand = FreshCandidate(Plan[scope][1])
    /\ found = <<>>
    /\ entry = [r \in Routes |-> BlankEntry("UDS")]

BeginCached ==
    /\ scope \in Scopes \cap {"CACHED"}
    /\ cand = NoCandidate
    /\ found = Saved
    /\ \E protocol \in [Routes -> Protocols] :
       \E identified \in SUBSET Found : \E resolved \in SUBSET FamilyRoutes :
        /\ \A r \in Routes \ Found : protocol[r] = "UDS" /\ r \notin resolved
        /\ entry = SavedEntry(protocol, identified, resolved)

\* The routes this scan can address at all.
Reachable ==
    (IF scope = "CACHED" THEN Found ELSE PlannedRoutes)
        \cup (IF LateProbe THEN {Transmission} ELSE {})

Init ==
    /\ BeginDiscovery \/ BeginCached
    /\ stage = "INIT_PROTOCOL_11"
    /\ target = 1
    /\ dtcIndex = 1
    /\ kwpCaptured = FALSE /\ longTimeout = FALSE /\ vin = NoRoute
    /\ truncated = FALSE
    /\ resumePending = FALSE /\ resumeStage = "INIT_PROTOCOL_11"
    /\ recoveries = 0 /\ recovered = NoRoute /\ single = FALSE
    /\ adapter = Unconfigured
    /\ fitted \in SUBSET Reachable
    /\ heard = {} /\ asked = {} /\ unanswered = {}

\* The owner issues the next command as soon as the last one is answered.
Step ==
    \/ InitProtocol11 \/ InitHeaders \/ InitAutoFormat \/ InitFlowControl
    \/ InitTimeout \/ SwitchProtocol29 \/ SwitchHeadersOff29
    \/ SetHeader \/ ResetReceive \/ SetFilter \/ SetMask
    \/ SetReceive \/ SetReceiveForSession \/ ExtendedSession
    \/ UdsIdentity \/ KwpIdentity \/ SparePart \/ Software \/ Hardware
    \/ TesterPresent \/ DtcFallback \/ VinSetTimeout \/ VinFallback
    \/ VariantFallback \/ RestoreTimeout
    \/ DtcSetProtocol \/ DtcSetHeader
    \/ DtcSetReceive \/ DtcSetReceiveForIdentity
    \/ CachedIdentitySetTimeout \/ CachedIdentity
    \/ CachedIdentityRestoreTimeout
    \/ DtcExtendedSession \/ DtcValidate \/ DtcRead

Interruption == RetryRoute \/ SkipModule \/ SkipRoute

\* A scan that has ended stays as it is until the owner asks for more.
Rest == stage \in Ended /\ UNCHANGED vars

Next == Step \/ AdapterRejects \/ Interruption \/ BeginLateTransmission \/ Rest

Spec == Init /\ [][Next]_vars

\* Every command is eventually answered or interrupted, and interruptions
\* are bounded by MaxRecoveries, so the scan's own steps are fair.
FairSpec == Spec /\ WF_vars(Step)
-----------------------------------------------------------------------------
(* Safety *)

TypeOK ==
    /\ stage \in Stages
    /\ scope \in Scopes \cup {"CACHED"}
    /\ target \in Nat \ {0}
    /\ scope # "CACHED" => target \in DOMAIN Plan[scope]
    /\ cand \in Candidates
    /\ kwpCaptured \in BOOLEAN /\ longTimeout \in BOOLEAN
    /\ vin \in Routes \cup {NoRoute}
    /\ found \in Seq(Routes) /\ Len(found) <= MaxModules
    /\ entry \in [Routes -> Entries]
    /\ truncated \in BOOLEAN
    /\ dtcIndex \in 1 .. MaxModules + 1
    /\ resumePending \in BOOLEAN /\ single \in BOOLEAN
    /\ resumeStage \in Stages
    /\ recoveries \in 0 .. MaxRecoveries
    /\ recovered \in Routes \cup {NoRoute}
    /\ adapter \in Adapters
    /\ fitted \subseteq Routes /\ heard \subseteq Routes
    /\ asked \subseteq Routes \X Protocols /\ unanswered \subseteq Routes

\* The response of a request is only read as its route's when the adapter
\* really is on that route's bus, addresses its ECU and lets through exactly
\* the replies meant to be let through.
Serves(r, open) ==
    /\ Tuned(r)
    /\ IF open THEN adapter.filter = "open"
       ELSE adapter.filter = "exact" /\ adapter.receive = r

\* Whenever a request to an ECU is outstanding the adapter is configured for
\* that ECU: bus, header, receive filter, formatting and response time, in
\* every order of route changes, resumes and late probes.  ("continuing after
\* a rejected setup command would make every following ECU result ambiguous")
AdapterAgreement ==
    /\ stage \in ProbeStages =>
        /\ Serves(Candidate, Unlocked)
        /\ adapter.timeout = IF longTimeout THEN "ATSTFF" ELSE ScanTimeout
    /\ stage \in DtcRequestStages =>
        /\ dtcIndex <= Len(found)
        /\ Serves(Module, FALSE)
        /\ adapter.timeout = IF stage = "CACHED_IDENTITY" THEN "ATST64"
                                                          ELSE ScanTimeout

\* The module table holds no route twice and never exceeds its capacity, and
\* it is reported truncated only when it is full.
ModuleTable ==
    /\ \A i, j \in DOMAIN found : found[i] = found[j] => i = j
    /\ Len(found) <= MaxModules
    /\ truncated => Len(found) = MaxModules

\* What an entry says its ECU returned (identity, session, faults), and the
\* VIN, were heard from that very ECU and not from one addressed earlier.
ReplyAttribution ==
    /\ vin # NoRoute => vin \in heard
    /\ \A r \in Routes :
          (\/ entry[r].identity = "read"
           \/ entry[r].session = "active"
           \/ entry[r].dtc = "available") => r \in heard

\* "Gateway NRCs A0/A1 are never treated as proof that a destination ECU
\* exists" (mercedes_module_scan_identity_first.h:22): a scan records only
\* routes that have an ECU.
NoPhantomModule == scope # "CACHED" => Found \subseteq fitted

\* What is true of it: an absent ECU is recorded only where the gateway answers
\* for it, and only if a session was requested before its identity, or if one
\* of its identity requests, at which the gateway's answer ends the route, was
\* missed (module_scan.c:1735, 1763, 1802, 1873).
AbsenceReported ==
    scope # "CACHED" => \A r \in Found \ fitted :
        r \in GatewayAnswers /\ (Route[r].session \/ r \in unanswered)

\* No ECU that was heard on a route with a known reply identifier is left
\* out of the module table, unless the scan says it is truncated.
NoResponderLost ==
    scope # "CACHED" /\ ~truncated =>
        \A r \in heard : Sweeping(r) \/ r \in Found

Asked(r) == \E p \in Protocols : <<r, p>> \in asked

\* Identity first: TesterPresent and fault requests only go to a candidate
\* that was asked for its identity before.
IdentityBeforeFaults ==
    stage \in {"DISCOVERY_TESTER_PRESENT", "DISCOVERY_DTC_FALLBACK",
               "DISCOVERY_VIN_FALLBACK"} => Asked(Candidate)

\* When discovery is over every planned route was asked for its identity,
\* except those that two interruptions each have cost: with the three resumes
\* of the source at most one.
RouteCoverage ==
    scope # "CACHED" /\ stage \in DtcStages \cup {"COMPLETE"} =>
        2 * Cardinality({r \in PlannedRoutes : ~Asked(r)}) <= recoveries

\* When the scan completes, the faults of every recorded module were asked
\* for, except of those that two interruptions each have cost.
FaultCoverage ==
    stage = "COMPLETE" =>
        2 * Cardinality({r \in Found : entry[r].dtc = "not attempted"})
            <= recoveries

\* Session control is requested only where it has not been requested before
\* ("negative/quiet responses are never retried automatically during the same
\* connection").
SessionRequestedOnce ==
    /\ stage = "DISCOVERY_EXTENDED_SESSION" => cand.session = "none"
    /\ stage = "DTC_EXTENDED_SESSION" => entry[Module].session = "none"

\* FULL "can learn unknown response identifiers": the fault pass filters on
\* an identifier the module's ECU really replies on.
ReplyIdentifierLearned ==
    stage = "DTC_VALIDATE" /\ scope = "FULL" => Module \notin RepliesElsewhere
-----------------------------------------------------------------------------
(* The inductive strengthening of TypeOK, ModuleTable and AdapterAgreement *)

\* Which route and which module each stage is about, and where the adapter
\* setup leads to.
Position ==
    /\ stage \in DiscoveryStages => scope # "CACHED"
    /\ stage \in DtcStages => dtcIndex <= Len(found)
    /\ stage \in {"SWITCH_PROTOCOL_29", "SWITCH_HEADERS_OFF_29"}
          => Route[Candidate].extended
    /\ longTimeout =>
          stage \in ProbeStages \cup {"DISCOVERY_RESTORE_TIMEOUT", "FAILED"}
    /\ stage \in {"CACHED_IDENTITY_SET_TIMEOUT", "CACHED_IDENTITY"}
          => cand.index <= 2
    /\ stage \in {"CACHED_IDENTITY_SET_TIMEOUT", "CACHED_IDENTITY",
                  "CACHED_IDENTITY_RESTORE_TIMEOUT"} => scope = "CACHED"
    /\ resumePending => stage \in InitStages \cup Ended
    /\ stage \in InitStages =>
        \/ AfterInit = "DTC_SET_PROTOCOL" /\ dtcIndex <= Len(found)
        \/ /\ scope # "CACHED"
           /\ AfterInit = "SWITCH_PROTOCOL_29"
           /\ Route[Candidate].extended
        \/ /\ scope # "CACHED"
           /\ AfterInit = "DISCOVERY_SET_HEADER"
           /\ ~Route[Candidate].extended

\* How far the adapter is configured in each stage: what the commands since
\* the last INIT_PROTOCOL_11, route or module have established.
Configured ==
    /\ stage \in InitStages \ {"INIT_PROTOCOL_11"}
          => adapter.protocol = "ATSP6"
    /\ stage \in {"INIT_AUTO_FORMAT", "INIT_FLOW_CONTROL"}
          => "ATH0" \in adapter.formats
    /\ stage = "INIT_FLOW_CONTROL" => "ATCAF1" \in adapter.formats
    /\ stage \in {"INIT_TIMEOUT"} \cup DiscoveryStages \cup DtcStages
          => adapter.formats = {"ATH0", "ATCAF1", "ATCFC1"}
    /\ stage \in DiscoveryStages \ {"SWITCH_PROTOCOL_29"}
          => adapter.protocol = Bus(Candidate)
    /\ stage \in DiscoveryStages \ {"DISCOVERY_RESTORE_TIMEOUT"}
          => adapter.timeout = IF longTimeout THEN "ATSTFF" ELSE ScanTimeout
    /\ stage \in ProbeStages \cup
                 {"DISCOVERY_RESET_RECEIVE", "DISCOVERY_SET_FILTER",
                  "DISCOVERY_SET_MASK", "DISCOVERY_SET_RECEIVE",
                  "DISCOVERY_VIN_SET_TIMEOUT"}
          => adapter.header = Candidate
    /\ stage \in {"DISCOVERY_RESET_RECEIVE", "DISCOVERY_SET_FILTER",
                  "DISCOVERY_SET_MASK"} => Unlocked
    /\ stage = "DISCOVERY_SET_RECEIVE" => ~Unlocked
    /\ stage = "DISCOVERY_SET_FILTER" => adapter.filter = "default"
    /\ stage = "DISCOVERY_SET_MASK" => adapter.filter = "code"
    /\ stage \in ProbeStages \cup {"DISCOVERY_VIN_SET_TIMEOUT"}
          => IF Unlocked THEN adapter.filter = "open"
             ELSE adapter.filter = "exact" /\ adapter.receive = Candidate
    /\ stage \in DtcStages \ {"DTC_SET_PROTOCOL"}
          => adapter.protocol = Bus(Module)
    /\ stage \in DtcStages \ {"DTC_SET_PROTOCOL", "DTC_SET_HEADER"}
          => adapter.header = Module
    /\ stage \in DtcStages \ {"DTC_SET_PROTOCOL", "DTC_SET_HEADER",
                              "DTC_SET_RECEIVE"}
          => adapter.filter = "exact" /\ adapter.receive = Module
    /\ stage \in DtcStages \ {"CACHED_IDENTITY",
                              "CACHED_IDENTITY_RESTORE_TIMEOUT"}
          => adapter.timeout = ScanTimeout
    /\ stage = "CACHED_IDENTITY" => adapter.timeout = "ATST64"

\* The invariant TLAPS proves inductive (ModuleScanProofs).
InductiveInvariant == TypeOK /\ ModuleTable /\ Position /\ Configured
-----------------------------------------------------------------------------
(* What the properties of evidence and of coverage rest on *)

\* Past the identity of the candidate.
LaterStages ==
    (ProbeStages \ {"DISCOVERY_EXTENDED_SESSION", "DISCOVERY_IDENTITY"})
        \cup TimeoutStages

\* A later stage follows an identity request; metadata is read of a recorded
\* module only; a candidate's session is its own ECU's.
EvidenceInvariant ==
    /\ stage \in LaterStages => Asked(Candidate)
    /\ stage \in {"DISCOVERY_SPARE_PART", "DISCOVERY_SOFTWARE",
                  "DISCOVERY_HARDWARE"} => Candidate \in Found \/ truncated
    /\ scope # "CACHED" /\ cand.session = "active" => Candidate \in heard
    /\ ReplyAttribution /\ NoResponderLost

\* A later stage is reached for an absent ECU only by a missed identity.
AbsenceInvariant ==
    /\ stage = "DISCOVERY_EXTENDED_SESSION" => Route[Candidate].session
    /\ stage \in LaterStages \ {"DISCOVERY_RESTORE_TIMEOUT"} =>
        Candidate \in fitted \cup unanswered
    /\ AbsenceReported

\* What a late probe and a saved profile leave alone.
ProfileInvariant ==
    /\ single => scope = "CACHED" /\ (stage \notin Ended => Module = Transmission)
    /\ \A r \in Routes :
        entry[r].identity = "saved" => scope = "CACHED" /\ r \in Found
    /\ stage \in {"CACHED_IDENTITY_SET_TIMEOUT", "CACHED_IDENTITY"} =>
        (entry[Module].identity # "none" => kwpCaptured)

\* The routes that discovery, and the modules that the fault pass, has behind
\* it and has left out.
BehindDiscovery ==
    \/ stage \in DtcStages \cup {"COMPLETE"}
    \/ resumePending /\ resumeStage = "DTC_SET_PROTOCOL"
PassedRoutes ==
    IF BehindDiscovery THEN PlannedRoutes
    ELSE {Plan[scope][i] : i \in 1 .. target - 1}
PassedModules ==
    IF stage = "COMPLETE" THEN Found
    ELSE IF single THEN Found \ {Transmission}
    ELSE {found[i] : i \in 1 .. dtcIndex - 1}
MissedRoutes == {r \in PassedRoutes : ~Asked(r)}
MissedModules == {r \in PassedModules : entry[r].dtc = "not attempted"}

\* Interruptions enough to leave out every one of missed, and one more while
\* the last one may still cost a route.
PaidFor(missed) ==
    2 * Cardinality(missed)
        + (IF recovered \in missed \cup {NoRoute} THEN 0 ELSE 1) <= recoveries

CoverageInvariant ==
    /\ scope # "CACHED" /\ stage # "FAILED" => PaidFor(MissedRoutes)
    /\ stage # "FAILED" => PaidFor(MissedModules)
    /\ ~InFaultPass => dtcIndex = 1

\* The probes that look for presence are sent only while the candidate is
\* not recorded, and no more of them than its list holds.
ProgressInvariant ==
    /\ stage \in {"DISCOVERY_DTC_FALLBACK", "DISCOVERY_VIN_SET_TIMEOUT",
                  "DISCOVERY_VIN_FALLBACK", "DISCOVERY_VARIANT_FALLBACK"}
          => Candidate \notin Found
    /\ stage \in {"DISCOVERY_VIN_SET_TIMEOUT", "DISCOVERY_VIN_FALLBACK"}
          => cand.probe <= Route[Candidate].probes

ScanInvariant ==
    /\ InductiveInvariant
    /\ EvidenceInvariant /\ AbsenceInvariant /\ ProfileInvariant
    /\ CoverageInvariant /\ ProgressInvariant
-----------------------------------------------------------------------------
(* The survey a scan carries out (Survey), read off its state *)

SurveyPhase ==
    IF stage = "FAILED" THEN "failed"
    ELSE IF stage = "COMPLETE" THEN "over"
    ELSE IF InFaultPass THEN "modules" ELSE "routes"

\* From the current one on; a late probe is of the transmission alone.
SurveyQueue ==
    IF stage \in Ended THEN <<>>
    ELSE IF ~InFaultPass THEN SubSeq(Plan[scope], target, Len(Plan[scope]))
    ELSE IF single THEN <<Transmission>>
    ELSE SubSeq(found, dtcIndex, Len(found))

SurveyMissed ==
    IF stage = "FAILED" THEN {}
    ELSE IF stage = "COMPLETE" \/ InFaultPass THEN MissedModules
    ELSE MissedRoutes

AskedRoutes == {r \in Routes : Asked(r)}
ReadModules == {r \in Found : entry[r].dtc # "not attempted"}

S == INSTANCE Survey WITH
        Late <- Transmission, phase <- SurveyPhase, queue <- SurveyQueue,
        missed <- SurveyMissed, asked <- AskedRoutes, modules <- found,
        read <- ReadModules, interruptions <- recoveries

\* Under all its stages, resumes and skips a scan is a survey: it leaves no
\* route and no module before it was asked, but one for every two
\* interruptions, and never goes back.
SurveyKept == S!Spec
-----------------------------------------------------------------------------
(* Steps and liveness *)

\* The scan only moves forward: over its plan, into the fault pass, over the
\* modules; an interruption restarts at most the current route.
NoBacktrack ==
    [][/\ target' \in {target, target + 1}
       /\ InFaultPass => InFaultPass'
       /\ InFaultPass /\ single' = single => dtcIndex' \in {dtcIndex, dtcIndex + 1}
       /\ ~InFaultPass' => dtcIndex' = dtcIndex]_vars

\* A saved identity survives the reconnect that re-reads the transmission
\* ("Existing saved identities are retained").
SavedIdentityRetained ==
    [][\A r \in Routes : entry[r].identity = "saved"
                            => entry'[r].identity = "saved"]_vars

\* The late probe touches the transmission's entry only ("without replacing
\* the other modules or their captured faults").
LateProbeIsLocal ==
    [][single' =>
        /\ \A r \in Routes \ {Transmission} : entry'[r] = entry[r]
        /\ \A i \in DOMAIN found : found'[i] = found[i]]_vars

\* How many stages a route, or a module, may have before it from here on.
StagesLeft(s) ==
    CASE s = "INIT_PROTOCOL_11" -> 19
      [] s = "INIT_HEADERS" -> 18
      [] s = "INIT_AUTO_FORMAT" -> 17
      [] s = "INIT_FLOW_CONTROL" -> 16
      [] s = "INIT_TIMEOUT" -> 15
      [] s \in {"SWITCH_PROTOCOL_29", "DTC_SET_PROTOCOL"} -> 14
      [] s \in {"SWITCH_HEADERS_OFF_29", "DTC_SET_HEADER"} -> 13
      [] s \in {"DISCOVERY_SET_HEADER", "DTC_SET_RECEIVE"} -> 12
      [] s \in {"DISCOVERY_RESET_RECEIVE", "DISCOVERY_SET_RECEIVE",
                "CACHED_IDENTITY_SET_TIMEOUT"} -> 11
      [] s \in {"DISCOVERY_SET_FILTER", "DISCOVERY_EXTENDED_SESSION",
                "CACHED_IDENTITY"} -> 10
      [] s \in {"DISCOVERY_SET_MASK", "CACHED_IDENTITY_RESTORE_TIMEOUT"} -> 9
      [] s \in {"DISCOVERY_IDENTITY", "DTC_EXTENDED_SESSION"} -> 8
      [] s \in {"DISCOVERY_SPARE_PART", "DTC_VALIDATE"} -> 7
      [] s \in {"DISCOVERY_SOFTWARE", "DTC_READ"} -> 6
      [] s \in {"DISCOVERY_HARDWARE", "DISCOVERY_TESTER_PRESENT"} -> 5
      [] s = "DISCOVERY_DTC_FALLBACK" -> 4
      [] s = "DISCOVERY_VIN_SET_TIMEOUT" -> 3
      [] s = "DISCOVERY_VIN_FALLBACK" -> 2
      [] s = "DISCOVERY_VARIANT_FALLBACK" -> 1
      [] OTHER -> 0

\* How often the stage may repeat itself.
RepeatsLeft ==
    CASE stage = "DISCOVERY_IDENTITY" ->
            IF KwpIdentityMode THEN 3 - cand.index ELSE 4
      [] stage = "DISCOVERY_VIN_FALLBACK" ->
            Route[Candidate].probes - cand.probe
      [] stage = "CACHED_IDENTITY" -> 3 - cand.index
      [] OTHER -> 0

PhasesLeft == IF stage \in Ended THEN 0 ELSE IF InFaultPass THEN 1 ELSE 2

\* The routes, or modules, from the current one on.
WorkLeft ==
    IF stage \in Ended THEN 0
    ELSE IF ~InFaultPass THEN Len(Plan[scope]) + 1 - target
    ELSE IF single THEN 1 ELSE Len(found) + 1 - dtcIndex

LateProbesLeft == IF single THEN 0 ELSE 1
ResumesLeft == MaxRecoveries - recoveries
UnrecordedLeft == IF ~InFaultPass /\ Candidate \notin Found THEN 1 ELSE 0
ProtocolsLeft == Cardinality(Protocols \ cand.attempted)

\* What may still happen to the scan, what weighs most first.
Rank == <<LateProbesLeft, ResumesLeft, PhasesLeft, WorkLeft, UnrecordedLeft,
          ProtocolsLeft, StagesLeft(stage), RepeatsLeft>>

Below(a, b) ==
    \E i \in DOMAIN a : a[i] < b[i] /\ \A j \in 1 .. i - 1 : a[j] = b[j]

\* No answer and no interruption takes a scan round in a circle: an answer
\* costs a repetition, a stage, a protocol, an unrecorded candidate, a route,
\* a module or a phase, an interruption one of the bounded recoveries, the
\* late probe the only one there is.  The exception is a probe that finds the
\* module table full.
TowardsRest ==
    [][(stage \in ProbeStages => HasRoom) => Below(Rank', Rank)]_vars

\* Whatever the vehicle answers and however often it is interrupted, the scan
\* comes to rest.
ComesToRest == <>[](stage \in Ended)
=============================================================================
