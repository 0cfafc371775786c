-------------------------- MODULE ModuleScanProofs --------------------------
(***************************************************************************)
(* Proofs that the module scan keeps its type invariant, its module table  *)
(* and the agreement between the request it issues and the adapter, for    *)
(* every set of routes, plan, saved profile and bound.                     *)
(***************************************************************************)
EXTENDS ModuleScan, TLAPS
-----------------------------------------------------------------------------
(* Constants and operators *)

\* A discovery scope has a plan that starts on 11-bit CAN.
LEMMA PlanType ==
    ASSUME NEW s \in AllScopes \ {"CACHED"}
    PROVE  /\ Plan[s] \in Seq(Routes)
           /\ 1 \in DOMAIN Plan[s]
           /\ ~Route[Plan[s][1]].extended
<1>1. Plan[s] \in Seq(Routes) /\ Plan[s] # <<>>
  BY ConstantsAssumption
<1>2. Len(Plan[s]) \in Nat /\ Len(Plan[s]) # 0
  BY <1>1
<1>3. 1 \in DOMAIN Plan[s]
  BY <1>1, <1>2
<1>4. s \in DOMAIN Plan
  BY ConstantsAssumption
<1> QED
  BY <1>1, <1>3, <1>4, PlanAssumption

\* Outside the saved-profile scope there is a candidate route.
LEMMA CandidateType ==
    ASSUME TypeOK, scope # "CACHED"
    PROVE  /\ scope \in AllScopes \ {"CACHED"}
           /\ Plan[scope] \in Seq(Routes)
           /\ target \in 1 .. Len(Plan[scope])
           /\ Candidate \in Routes
<1>1. scope \in AllScopes \ {"CACHED"}
  BY ConstantsAssumption DEF TypeOK
<1>2. Plan[scope] \in Seq(Routes)
  BY <1>1, PlanType
<1>3. target \in 1 .. Len(Plan[scope])
  BY <1>2 DEF TypeOK
<1> QED
  BY <1>1, <1>2, <1>3 DEF Candidate

\* The next route of a plan is a route, and no plan leads back to 11-bit CAN.
LEMMA NextInPlan ==
    ASSUME TypeOK, scope # "CACHED", target < Len(Plan[scope])
    PROVE  /\ target + 1 \in DOMAIN Plan[scope]
           /\ Plan[scope][target + 1] \in Routes
           /\ Route[Candidate].extended
                 => Route[Plan[scope][target + 1]].extended
<1>1. /\ scope \in AllScopes \ {"CACHED"}
      /\ Plan[scope] \in Seq(Routes)
      /\ target \in 1 .. Len(Plan[scope])
  BY CandidateType
<1>2. target \in DOMAIN Plan[scope] /\ target + 1 \in DOMAIN Plan[scope]
  BY <1>1
<1>3. scope \in DOMAIN Plan
  BY <1>1, ConstantsAssumption
<1>4. Plan[scope][target + 1] \in Routes
  BY <1>1, <1>2
<1>5. Route[Candidate].extended => Route[Plan[scope][target + 1]].extended
  BY <1>2, <1>3, PlanAssumption DEF Candidate
<1> QED
  BY <1>2, <1>4, <1>5

\* The attributes of a route.
LEMMA RouteType ==
    ASSUME NEW r \in Routes
    PROVE  /\ Route[r].hint \in Protocols
           /\ Route[r].probes \in Nat
           /\ Route[r].profiles \in SUBSET Protocols
           /\ Route[r].pack \in Protocols \cup {"none"}
           /\ Route[r].extended \in BOOLEAN
           /\ Route[r].known \in BOOLEAN
           /\ Route[r].session \in BOOLEAN
<1>1. Route[r] \in RouteAttributes
  BY ConstantsAssumption
<1> QED
  BY <1>1 DEF RouteAttributes

LEMMA FreshCandidateType ==
    ASSUME NEW r \in Routes
    PROVE  FreshCandidate(r) \in Candidates
<1>1. StartProtocol(r) \in Protocols
  BY RouteType DEF StartProtocol, Hint, RouteProtocols, Protocols
<1>2. {StartProtocol(r)} \in SUBSET Protocols
  BY <1>1
<1> QED
  BY <1>1, <1>2 DEF FreshCandidate, Candidates

LEMMA BlankEntryType ==
    ASSUME NEW p \in Protocols
    PROVE  BlankEntry(p) \in Entries
BY DEF BlankEntry, Entries, DtcResults

LEMMA EntryProtocolType ==
    ASSUME NEW r \in Routes, NEW e \in Entries
    PROVE  EntryProtocol(r, e) \in Protocols
BY RouteType DEF EntryProtocol, Entries

\* The fields of an entry, updated one by one.
LEMMA EntryUpdate ==
    ASSUME NEW e \in Entries
    PROVE  /\ \A p \in Protocols : [e EXCEPT !.protocol = p] \in Entries
           /\ \A b \in BOOLEAN : [e EXCEPT !.tester = b] \in Entries
           /\ \A s \in {"none", "tried", "active"} :
                 [e EXCEPT !.session = s] \in Entries
           /\ \A i \in {"none", "saved", "read"} :
                 [e EXCEPT !.identity = i] \in Entries
           /\ \A b \in BOOLEAN : [e EXCEPT !.family = b] \in Entries
           /\ \A d \in DtcResults : [e EXCEPT !.dtc = d] \in Entries
BY DEF Entries

\* Only an addressed ECU answers, so a history step stays within the routes.
LEMMA HearType ==
    ASSUME TypeOK, NEW reply \in Answers, Hear(reply)
    PROVE  /\ heard' \subseteq Routes
           /\ reply \in {"positive", "negative", "none", "gateway"}
<1>1. reply \in {"positive", "negative", "none", "gateway"}
  BY DEF Answers
<1>2. ASSUME reply \in {"positive", "negative"}
      PROVE  adapter.header \in Routes
  <2>1. adapter.header # NoRoute
    BY <1>2 DEF Answers
  <2>2. adapter.header \in Routes \cup {NoRoute}
    BY DEF TypeOK, Adapters
  <2> QED
    BY <2>1, <2>2
<1>3. heard \subseteq Routes
  BY DEF TypeOK
<1> QED
  BY <1>1, <1>2, <1>3 DEF Hear
-----------------------------------------------------------------------------
(* The module table *)

\* The recorded modules are routes.
LEMMA FoundType ==
    ASSUME TypeOK
    PROVE  /\ Found \subseteq Routes
           /\ Len(found) \in 0 .. MaxModules
           /\ DOMAIN found = 1 .. Len(found)
           /\ MaxModules \in Nat \ {0}
BY ConstantsAssumption DEF TypeOK, Found

LEMMA ModuleType ==
    ASSUME TypeOK, dtcIndex <= Len(found)
    PROVE  Module \in Routes
BY FoundType DEF TypeOK, Module

LEMMA RecordedEntryType ==
    ASSUME TypeOK, scope # "CACHED", NEW tester \in BOOLEAN,
           NEW session \in {"none", "tried", "active"}
    PROVE  RecordedEntry(tester, session) \in Entries
<1>1. Candidate \in Routes /\ entry[Candidate] \in Entries
  BY CandidateType DEF TypeOK
<1>2. BlankEntry(cand.protocol) \in Entries
  BY BlankEntryType DEF TypeOK, Candidates
<1>3. /\ entry[Candidate].tester \in BOOLEAN
      /\ entry[Candidate].session \in {"none", "tried", "active"}
  BY <1>1 DEF Entries
<1>4. CASE Candidate \in Found
  <2> DEFINE e == entry[Candidate]
  <2>1. (e.tester \/ tester) \in BOOLEAN
    OBVIOUS
  <2>2. StrongerSession(e.session, session) \in {"none", "tried", "active"}
    BY DEF StrongerSession
  <2>3. RecordedEntry(tester, session)
          = [e EXCEPT !.tester = e.tester \/ tester,
                      !.session = StrongerSession(e.session, session)]
    BY <1>4 DEF RecordedEntry
  <2> HIDE DEF e
  <2> QED
    BY <1>1, <2>1, <2>2, <2>3 DEF Entries, e
<1>5. CASE Candidate \notin Found
  BY <1>2, <1>5 DEF RecordedEntry, Entries
<1> QED
  BY <1>4, <1>5

\* What any step may do to the module table: keep it, or append one route.
TableStep ==
    /\ found' \in Seq(Routes)
    /\ Len(found) <= Len(found') /\ Len(found') <= MaxModules
    /\ entry' \in [Routes -> Entries]
    /\ truncated' \in BOOLEAN
    /\ ModuleTable'

LEMMA TableUnchanged ==
    ASSUME TypeOK, ModuleTable, found' = found, truncated' = truncated,
           entry' \in [Routes -> Entries]
    PROVE  TableStep
BY FoundType DEF TableStep, TypeOK, ModuleTable

LEMMA AppendKeepsTable ==
    ASSUME TypeOK, ModuleTable, NEW r \in Routes, r \notin Found,
           Len(found) < MaxModules, found' = Append(found, r),
           truncated' = truncated, entry' \in [Routes -> Entries]
    PROVE  TableStep
<1>1. /\ found \in Seq(Routes) /\ Len(found) \in Nat
      /\ MaxModules \in Nat /\ truncated \in BOOLEAN
  BY ConstantsAssumption DEF TypeOK
<1>2. /\ found' \in Seq(Routes)
      /\ Len(found') = Len(found) + 1
      /\ \A i \in 1 .. Len(found) : found'[i] = found[i]
      /\ found'[Len(found) + 1] = r
  BY <1>1
<1>3. \A i \in 1 .. Len(found) : found[i] # r
  BY <1>1 DEF Found
<1>4. ~truncated
  BY <1>1 DEF ModuleTable
<1>5. \A i, j \in DOMAIN found' : found'[i] = found'[j] => i = j
  <2>1. DOMAIN found' = 1 .. Len(found) + 1 /\ DOMAIN found = 1 .. Len(found)
    BY <1>1, <1>2
  <2>2. \A i, j \in 1 .. Len(found) : found[i] = found[j] => i = j
    BY <2>1 DEF ModuleTable
  <2> QED
    BY <1>1, <1>2, <1>3, <2>1, <2>2
<1> QED
  BY <1>1, <1>2, <1>4, <1>5 DEF TableStep, ModuleTable

LEMMA RecordStep ==
    ASSUME TypeOK, ModuleTable, scope # "CACHED",
           NEW e \in Entries, Record(e)
    PROVE  TableStep
<1>1. Candidate \in Routes
  BY CandidateType
<1>2. entry \in [Routes -> Entries] /\ truncated \in BOOLEAN
  BY DEF TypeOK
<1>3. CASE HasRoom
  <2>1. entry' \in [Routes -> Entries] /\ truncated' = truncated
    BY <1>1, <1>2, <1>3 DEF Record
  <2>2. CASE Candidate \in Found
    BY <1>3, <2>1, <2>2, TableUnchanged DEF Record
  <2>3. CASE Candidate \notin Found
    BY <1>1, <1>3, <2>1, <2>3, AppendKeepsTable DEF Record, HasRoom
  <2> QED
    BY <2>2, <2>3
<1>4. CASE ~HasRoom
  <2>1. found' = found /\ entry' = entry /\ truncated'
    BY <1>4 DEF Record
  <2>2. Len(found) = MaxModules
    BY <1>4, FoundType DEF HasRoom
  <2> QED
    BY <1>2, <2>1, <2>2, FoundType DEF TableStep, TypeOK, ModuleTable
<1> QED
  BY <1>3, <1>4

LEMMA RecordIfStep ==
    ASSUME TypeOK, ModuleTable, scope # "CACHED",
           NEW present \in BOOLEAN, NEW tester \in BOOLEAN,
           RecordIf(present, tester)
    PROVE  TableStep
<1>1. RecordedEntry(tester, cand.session) \in Entries
  BY RecordedEntryType DEF TypeOK, Candidates
<1>2. entry \in [Routes -> Entries]
  BY DEF TypeOK
<1> QED
  BY <1>1, <1>2, RecordStep, TableUnchanged DEF RecordIf, moduleVars

\* Overwriting the candidate's or a module's entry keeps the table.
LEMMA EntryStep ==
    ASSUME TypeOK, ModuleTable, NEW r \in Routes, NEW e \in Entries,
           entry' = [entry EXCEPT ![r] = e] \/ entry' = entry,
           UNCHANGED <<found, truncated>>
    PROVE  TableStep
<1>1. entry' \in [Routes -> Entries]
  BY DEF TypeOK
<1> QED
  BY <1>1, TableUnchanged
-----------------------------------------------------------------------------
(* The requests to a candidate's ECU all have the same shape: they leave   *)
(* the adapter alone, change the module table by at most one entry, and    *)
(* stay on the route or leave it through AdvanceCandidate.                 *)

StaysOnRoute ==
    /\ target' = target /\ dtcIndex' = dtcIndex
    /\ cand' \in Candidates
    /\ \/ stage' \in ProbeStages
       \/ stage' = "DISCOVERY_VIN_SET_TIMEOUT" /\ ~longTimeout

ProbeShape ==
    /\ stage \in ProbeStages
    /\ UnchangedByProbe
    /\ TableStep
    /\ kwpCaptured' \in BOOLEAN
    /\ vin' \in Routes \cup {NoRoute}
    /\ heard' \subseteq Routes
    /\ asked' \subseteq Routes \X Protocols /\ unanswered' \subseteq Routes
    /\ StaysOnRoute \/ AdvanceCandidate

Probe ==
    \/ ExtendedSession \/ UdsIdentity \/ KwpIdentity \/ SparePart
    \/ Software \/ Hardware \/ TesterPresent \/ DtcFallback
    \/ VinFallback \/ VariantFallback

\* Staying on the route with a typed candidate.
LEMMA GotoStays ==
    ASSUME NEW s \in ProbeStages, NEW c \in Candidates, Goto(s, c)
    PROVE  StaysOnRoute
BY DEF Goto, StaysOnRoute

\* The fields of a candidate, updated one by one.
LEMMA CandidateField ==
    ASSUME NEW c \in Candidates
    PROVE  /\ \A p \in Protocols : [c EXCEPT !.protocol = p] \in Candidates
           /\ \A a \in SUBSET Protocols :
                 [c EXCEPT !.attempted = a] \in Candidates
           /\ \A x \in {"none", "tried", "active"} :
                 [c EXCEPT !.session = x] \in Candidates
           /\ \A n \in Nat : [c EXCEPT !.probe = n] \in Candidates
           /\ \A b \in BOOLEAN : [c EXCEPT !.fallback = b] \in Candidates
           /\ \A n \in 0 .. 3 : [c EXCEPT !.index = n] \in Candidates
<1>1. \A p \in Protocols : [c EXCEPT !.protocol = p] \in Candidates
  BY DEF Candidates
<1>2. \A a \in SUBSET Protocols : [c EXCEPT !.attempted = a] \in Candidates
  BY DEF Candidates
<1>3. \A x \in {"none", "tried", "active"} :
        [c EXCEPT !.session = x] \in Candidates
  BY DEF Candidates
<1>4. \A n \in Nat : [c EXCEPT !.probe = n] \in Candidates
  BY DEF Candidates
<1>5. \A b \in BOOLEAN : [c EXCEPT !.fallback = b] \in Candidates
  BY DEF Candidates
<1>6. \A n \in 0 .. 3 : [c EXCEPT !.index = n] \in Candidates
  BY DEF Candidates
<1> QED
  BY <1>1, <1>2, <1>3, <1>4, <1>5, <1>6

\* The updates the actions make.
LEMMA CandidateUpdate ==
    ASSUME TypeOK
    PROVE  /\ cand \in Candidates
           /\ [cand EXCEPT !.probe = 0] \in Candidates
           /\ [cand EXCEPT !.probe = @ + 1] \in Candidates
           /\ [cand EXCEPT !.fallback = TRUE, !.index = 0] \in Candidates
           /\ [cand EXCEPT !.fallback = FALSE, !.index = 0] \in Candidates
           /\ [cand EXCEPT !.index = 0, !.fallback = FALSE] \in Candidates
           /\ cand.index < 3 => [cand EXCEPT !.index = @ + 1] \in Candidates
           /\ Restarted(cand) \in Candidates
           /\ \A x \in {"none", "tried", "active"} :
                 [cand EXCEPT !.session = x, !.probe = 0] \in Candidates
<1>1. cand \in Candidates
  BY DEF TypeOK
<1>2. [cand EXCEPT !.probe = 0] \in Candidates
  BY <1>1, CandidateField
<1>3. [cand EXCEPT !.probe = @ + 1] \in Candidates
  <2>1. cand.probe + 1 \in Nat
    BY <1>1 DEF Candidates
  <2> QED
    BY <1>1, <2>1, CandidateField
<1>4. ASSUME NEW b \in BOOLEAN
      PROVE  /\ [cand EXCEPT !.fallback = b, !.index = 0] \in Candidates
             /\ [cand EXCEPT !.index = 0, !.fallback = b] \in Candidates
  <2>1. 0 \in 0 .. 3
    OBVIOUS
  <2>2. /\ [cand EXCEPT !.fallback = b] \in Candidates
        /\ [cand EXCEPT !.index = 0] \in Candidates
    BY <1>1, <2>1, CandidateField
  <2>3. /\ [[cand EXCEPT !.fallback = b] EXCEPT !.index = 0] \in Candidates
        /\ [[cand EXCEPT !.index = 0] EXCEPT !.fallback = b] \in Candidates
    BY <2>1, <2>2, CandidateField
  <2> QED
    BY <2>3
<1>5. ASSUME cand.index < 3
      PROVE  [cand EXCEPT !.index = @ + 1] \in Candidates
  <2>1. cand.index \in 0 .. 3
    BY <1>1 DEF Candidates
  <2>2. cand.index + 1 \in 0 .. 3
    BY <1>5, <2>1
  <2> QED
    BY <1>1, <2>2, CandidateField
<1>6. Restarted(cand) \in Candidates
  <2>1. 0 \in 0 .. 3
    OBVIOUS
  <2>2. [[cand EXCEPT !.probe = 0] EXCEPT !.fallback = FALSE] \in Candidates
    BY <1>2, CandidateField
  <2>3. [[[cand EXCEPT !.probe = 0] EXCEPT !.fallback = FALSE]
           EXCEPT !.index = 0] \in Candidates
    BY <2>1, <2>2, CandidateField
  <2> QED
    BY <2>3 DEF Restarted
<1>7. ASSUME NEW x \in {"none", "tried", "active"}
      PROVE  [cand EXCEPT !.session = x, !.probe = 0] \in Candidates
  <2>1. [cand EXCEPT !.session = x] \in Candidates
    BY <1>1, CandidateField
  <2>2. [[cand EXCEPT !.session = x] EXCEPT !.probe = 0] \in Candidates
    BY <2>1, CandidateField
  <2> QED
    BY <2>2
<1> QED
  BY <1>1, <1>2, <1>3, <1>4, <1>5, <1>6, <1>7

LEMMA VinFallbackStays ==
    ASSUME TypeOK, EnterVinFallback
    PROVE  StaysOnRoute
BY CandidateUpdate
   DEF EnterVinFallback, Goto, StaysOnRoute, ProbeStages

LEMMA AlternateStays ==
    ASSUME TypeOK, TryAlternateProtocol
    PROVE  StaysOnRoute
<1> DEFINE p == IF "UDS" \in UntriedProtocols THEN "UDS" ELSE "KWP"
           c == [cand EXCEPT !.protocol = p, !.attempted = @ \cup {p},
                             !.session = "none", !.probe = 0,
                             !.fallback = FALSE, !.index = 0]
<1>1. p \in Protocols
  BY DEF Protocols
<1>2. c \in Candidates
  <2>1. cand \in Candidates /\ cand.attempted \cup {p} \in SUBSET Protocols
    BY <1>1 DEF TypeOK, Candidates
  <2>2. 0 \in 0 .. 3
    OBVIOUS
  <2>3. [[[cand EXCEPT !.protocol = p]
            EXCEPT !.attempted = cand.attempted \cup {p}]
              EXCEPT !.session = "none"] \in Candidates
    <3>1. [cand EXCEPT !.protocol = p] \in Candidates
      BY <1>1, <2>1, CandidateField
    <3>2. [[cand EXCEPT !.protocol = p]
             EXCEPT !.attempted = cand.attempted \cup {p}] \in Candidates
      BY <2>1, <3>1, CandidateField
    <3> QED
      BY <3>2, CandidateField
  <2>4. [[[[cand EXCEPT !.protocol = p]
             EXCEPT !.attempted = cand.attempted \cup {p}]
               EXCEPT !.session = "none"] EXCEPT !.probe = 0] \in Candidates
    BY <2>3, CandidateField
  <2>5. [[[[[cand EXCEPT !.protocol = p]
              EXCEPT !.attempted = cand.attempted \cup {p}]
                EXCEPT !.session = "none"] EXCEPT !.probe = 0]
                  EXCEPT !.fallback = FALSE] \in Candidates
    BY <2>4, CandidateField
  <2>6. [[[[[[cand EXCEPT !.protocol = p]
               EXCEPT !.attempted = cand.attempted \cup {p}]
                 EXCEPT !.session = "none"] EXCEPT !.probe = 0]
                   EXCEPT !.fallback = FALSE] EXCEPT !.index = 0]
          \in Candidates
    BY <2>2, <2>5, CandidateField
  <2> QED
    BY <2>6
<1>3. Goto("DISCOVERY_TESTER_PRESENT", c)
  BY DEF TryAlternateProtocol
<1> HIDE DEF c
<1> QED
  BY <1>2, <1>3, GotoStays DEF ProbeStages

LEMMA AfterPresenceShape ==
    ASSUME TypeOK, AfterPresence
    PROVE  StaysOnRoute \/ AdvanceCandidate
BY CandidateUpdate, GotoStays DEF AfterPresence, ProbeStages

LEMMA ExtendedSessionShape ==
    ASSUME TypeOK, ModuleTable, Position, ExtendedSession
    PROVE  ProbeShape
<1>1. /\ stage \in ProbeStages /\ scope # "CACHED"
      /\ UnchangedByProbe
      /\ kwpCaptured' = kwpCaptured /\ vin' = vin /\ UNCHANGED <<asked, unanswered>>
  BY DEF ExtendedSession, Position, ProbeStages, DiscoveryStages
<1>2. PICK reply \in Answers :
        LET session == IF reply = "positive" THEN "active" ELSE "tried" IN
        /\ Hear(reply)
        /\ IF Present(reply) THEN Record(RecordedEntry(FALSE, session))
           ELSE UNCHANGED moduleVars
        /\ Goto("DISCOVERY_IDENTITY",
                [cand EXCEPT !.session = session, !.probe = 0])
  BY DEF ExtendedSession
<1> DEFINE session == IF reply = "positive" THEN "active" ELSE "tried"
<1>3. session \in {"none", "tried", "active"}
  OBVIOUS
<1>4. RecordedEntry(FALSE, session) \in Entries
  BY <1>1, <1>3, RecordedEntryType
<1>5. TableStep
  BY <1>1, <1>2, <1>4, RecordStep, TableUnchanged DEF moduleVars, TypeOK
<1>6. StaysOnRoute
  BY <1>2, <1>3, CandidateUpdate, GotoStays DEF ProbeStages
<1> QED
  BY <1>1, <1>2, <1>5, <1>6, HearType DEF ProbeShape, TypeOK

LEMMA UdsIdentityShape ==
    ASSUME TypeOK, ModuleTable, Position, UdsIdentity
    PROVE  ProbeShape
<1>1. /\ stage \in ProbeStages /\ scope # "CACHED"
      /\ UnchangedByProbe
      /\ kwpCaptured' = kwpCaptured /\ vin' = vin
      /\ asked' = asked \cup {<<Candidate, "UDS">>}
  BY DEF UdsIdentity, Position, ProbeStages, DiscoveryStages
<1> DEFINE e == RecordedEntry(FALSE, cand.session)
<1>2. PICK reply \in Answers, texts \in BOOLEAN, named \in BOOLEAN :
        /\ Hear(reply) /\ Miss(reply)
        /\ \/ /\ IdentityState(reply) = "miss"
              /\ UNCHANGED moduleVars
              /\ AdvanceCandidate
           \/ /\ IdentityState(reply) = "positive"
              /\ Record([e EXCEPT !.protocol = "UDS",
                             !.identity = IF texts THEN "read" ELSE "none",
                             !.family = @ \/ named])
              /\ Goto("DISCOVERY_SPARE_PART", cand)
           \/ /\ IdentityState(reply) = "negative"
              /\ IF Route[Candidate].known
                 THEN /\ Record([e EXCEPT !.protocol = "UDS"])
                      /\ Goto("DISCOVERY_SPARE_PART", cand)
                 ELSE /\ Record(e)
                      /\ Goto("DISCOVERY_IDENTITY",
                              [cand EXCEPT !.fallback = TRUE, !.index = 0])
           \/ /\ IdentityState(reply) = "none"
              /\ UNCHANGED moduleVars
              /\ IF Route[Candidate].known
                 THEN Goto("DISCOVERY_TESTER_PRESENT", cand)
                 ELSE Goto("DISCOVERY_IDENTITY",
                           [cand EXCEPT !.fallback = TRUE, !.index = 0])
  BY DEF UdsIdentity, Texts, Named
<1>3. e \in Entries
  BY <1>1, RecordedEntryType DEF TypeOK, Candidates
<1>4. /\ [e EXCEPT !.protocol = "UDS"] \in Entries
      /\ [e EXCEPT !.protocol = "UDS",
                   !.identity = IF texts THEN "read" ELSE "none",
                   !.family = @ \/ named] \in Entries
  <2> HIDE DEF e
  <2>1. e.family \in BOOLEAN /\ (e.family \/ named) \in BOOLEAN
    BY <1>3 DEF Entries
  <2>2. (IF texts THEN "read" ELSE "none") \in {"none", "saved", "read"}
    OBVIOUS
  <2> QED
    BY <1>3, <2>1, <2>2 DEF Entries, Protocols
<1>5. TableStep
  <2> HIDE DEF e
  <2> QED
    BY <1>1, <1>2, <1>3, <1>4, RecordStep, TableUnchanged
       DEF moduleVars, TypeOK
<1>6. StaysOnRoute \/ AdvanceCandidate
  <2> HIDE DEF e
  <2> QED
    BY <1>2, CandidateUpdate, GotoStays DEF ProbeStages
<1>7. asked' \subseteq Routes \X Protocols /\ unanswered' \subseteq Routes
  BY <1>1, <1>2, CandidateType DEF TypeOK, Protocols, Miss
<1> QED
  BY <1>1, <1>2, <1>5, <1>6, <1>7, HearType DEF ProbeShape, TypeOK

LEMMA KwpIdentityShape ==
    ASSUME TypeOK, ModuleTable, Position, KwpIdentity
    PROVE  ProbeShape
<1> DEFINE kwp == [RecordedEntry(FALSE, cand.session)
                      EXCEPT !.protocol = "KWP"]
           identified(named) ==
              [kwp EXCEPT !.identity = "read", !.family = @ \/ named]
<1>1. /\ stage \in ProbeStages /\ scope # "CACHED"
      /\ UnchangedByProbe
      /\ vin' = vin
      /\ asked' = asked \cup {<<Candidate, "KWP">>}
  BY DEF KwpIdentity, Position, ProbeStages, DiscoveryStages
<1>2. PICK reply \in Answers, texts \in BOOLEAN, named \in BOOLEAN :
        LET captured == kwpCaptured /\ cand.index > 0
            e == IF texts /\ ~captured THEN identified(named) ELSE kwp IN
        /\ Hear(reply) /\ Miss(reply)
        /\ kwpCaptured' = (captured \/ (HasRoom /\ texts))
        /\ UNCHANGED moduleVars \/ Record(e)
        /\ \/ AdvanceCandidate
           \/ cand.index < 2 /\ NextKwpOption
           \/ Goto("DISCOVERY_TESTER_PRESENT",
                   [cand EXCEPT !.fallback = FALSE, !.index = 0])
  <2> HIDE DEF kwp, identified
  <2> QED
    BY Zenon DEF KwpIdentity, Texts, Named, kwp, identified
<1>3. kwp \in Entries /\ identified(named) \in Entries
  <2>1. RecordedEntry(FALSE, cand.session) \in Entries
    BY <1>1, RecordedEntryType DEF TypeOK, Candidates
  <2>2. kwp \in Entries
    BY <2>1, EntryUpdate DEF Protocols
  <2> HIDE DEF kwp
  <2>3. [kwp EXCEPT !.identity = "read"] \in Entries
    BY <2>2, EntryUpdate
  <2>4. (kwp.family \/ named) \in BOOLEAN
    OBVIOUS
  <2>5. [[kwp EXCEPT !.identity = "read"]
           EXCEPT !.family = kwp.family \/ named] \in Entries
    BY <2>3, <2>4, EntryUpdate
  <2> QED
    BY <2>2, <2>5
<1>4. kwpCaptured' \in BOOLEAN
  BY <1>2
<1> HIDE DEF kwp, identified
<1>5. UNCHANGED moduleVars \/ Record(identified(named)) \/ Record(kwp)
  BY <1>2
<1>6. TableStep
  BY <1>1, <1>3, <1>5, RecordStep, TableUnchanged DEF moduleVars, TypeOK
<1>7. ASSUME cand.index < 2, NextKwpOption
      PROVE  StaysOnRoute
  <2>1. cand.index < 3
    BY <1>7 DEF TypeOK, Candidates
  <2>2. [cand EXCEPT !.index = @ + 1] \in Candidates
    BY <2>1, CandidateUpdate
  <2> QED
    BY <1>7, <2>2, GotoStays DEF NextKwpOption, ProbeStages
<1>8. StaysOnRoute \/ AdvanceCandidate
  BY <1>2, <1>7, CandidateUpdate, GotoStays DEF ProbeStages
<1>9. asked' \subseteq Routes \X Protocols /\ unanswered' \subseteq Routes
  BY <1>1, <1>2, CandidateType DEF TypeOK, Protocols, Miss
<1> QED
  BY <1>1, <1>2, <1>4, <1>6, <1>8, <1>9, HearType DEF ProbeShape, TypeOK

\* F187, F188 and F191.
LEMMA MetadataShape ==
    ASSUME TypeOK, ModuleTable, Position, SparePart \/ Software \/ Hardware
    PROVE  ProbeShape
<1>1. /\ stage \in ProbeStages /\ scope # "CACHED"
      /\ UnchangedByProbe
      /\ kwpCaptured' = kwpCaptured /\ vin' = vin /\ UNCHANGED <<asked, unanswered>>
  BY DEF SparePart, Software, Hardware, Position, ProbeStages,
         DiscoveryStages
<1>2. heard' \subseteq Routes
  BY HearType DEF SparePart, Software, Hardware
<1>3. TableStep
  <2>1. \/ UNCHANGED moduleVars
        \/ \E named \in BOOLEAN : Classify(named)
    BY DEF SparePart, Software, Hardware, Named
  <2>2. ASSUME NEW named \in BOOLEAN, Classify(named)
        PROVE  TableStep
    <3>1. Candidate \in Routes /\ entry[Candidate] \in Entries
      BY <1>1, CandidateType DEF TypeOK
    <3>2. (entry[Candidate].family \/ named) \in BOOLEAN
      OBVIOUS
    <3> DEFINE e == [entry[Candidate] EXCEPT
                       !.family = entry[Candidate].family \/ named]
    <3>3. e \in Entries
      BY <3>1, <3>2, EntryUpdate
    <3>4. entry' = [entry EXCEPT ![Candidate] = e] \/ entry' = entry
      BY <2>2 DEF Classify
    <3> HIDE DEF e
    <3> QED
      BY <2>2, <3>1, <3>3, <3>4, EntryStep DEF Classify
  <2>3. entry \in [Routes -> Entries]
    BY DEF TypeOK
  <2> QED
    BY <2>1, <2>2, <2>3, TableUnchanged DEF moduleVars
<1>4. StaysOnRoute \/ AdvanceCandidate
  BY CandidateUpdate, GotoStays
     DEF SparePart, Software, Hardware, ProbeStages
<1> QED
  BY <1>1, <1>2, <1>3, <1>4 DEF ProbeShape, TypeOK

LEMMA TesterPresentShape ==
    ASSUME TypeOK, ModuleTable, Position, TesterPresent
    PROVE  ProbeShape
<1>1. /\ stage \in ProbeStages /\ scope # "CACHED"
      /\ UnchangedByProbe
      /\ kwpCaptured' = kwpCaptured /\ vin' = vin /\ UNCHANGED <<asked, unanswered>>
  BY DEF TesterPresent, Position, ProbeStages, DiscoveryStages
<1>2. PICK reply \in Answers :
        /\ Hear(reply)
        /\ RecordIf(~Unlocked /\ Present(reply), TRUE)
        /\ AdvanceCandidate \/ Goto("DISCOVERY_DTC_FALLBACK", cand)
  BY DEF TesterPresent
<1>3. TableStep
  BY <1>1, <1>2, RecordIfStep
<1>4. StaysOnRoute \/ AdvanceCandidate
  BY <1>2, CandidateUpdate, GotoStays DEF ProbeStages
<1> QED
  BY <1>1, <1>2, <1>3, <1>4, HearType DEF ProbeShape, TypeOK

LEMMA DtcFallbackShape ==
    ASSUME TypeOK, ModuleTable, Position, DtcFallback
    PROVE  ProbeShape
<1>1. /\ stage \in ProbeStages /\ scope # "CACHED"
      /\ UnchangedByProbe
      /\ kwpCaptured' = kwpCaptured /\ vin' = vin /\ UNCHANGED <<asked, unanswered>>
  BY DEF DtcFallback, Position, ProbeStages, DiscoveryStages
<1> DEFINE fresh(result) == [RecordedEntry(FALSE, cand.session)
                               EXCEPT !.dtc = result]
           held(result) == [entry[Candidate] EXCEPT !.dtc = result]
<1>2. PICK reply \in Answers, result \in DtcResults :
        /\ Hear(reply)
        /\ \/ Record(fresh(result))
           \/ /\ entry' = [entry EXCEPT ![Candidate].dtc = result]
              /\ UNCHANGED <<found, truncated>>
           \/ UNCHANGED moduleVars
        /\ \/ EnterVinFallback \/ AdvanceCandidate
           \/ Goto("DISCOVERY_IDENTITY", cand) \/ TryAlternateProtocol
  BY DEF DtcFallback, DtcResult, DtcResults
<1>3. Candidate \in Routes /\ entry[Candidate] \in Entries
  BY <1>1, CandidateType DEF TypeOK
<1>4. fresh(result) \in Entries /\ held(result) \in Entries
  <2>1. RecordedEntry(FALSE, cand.session) \in Entries
    BY <1>1, RecordedEntryType DEF TypeOK, Candidates
  <2> QED
    BY <1>2, <1>3, <2>1, EntryUpdate
<1>5. TableStep
  <2>1. CASE Record(fresh(result))
    <3> HIDE DEF fresh
    <3> QED
      BY <1>1, <1>4, <2>1, RecordStep
  <2>2. CASE /\ entry' = [entry EXCEPT ![Candidate].dtc = result]
             /\ UNCHANGED <<found, truncated>>
    <3>1. entry' = [entry EXCEPT ![Candidate] = held(result)]
      BY <2>2
    <3> HIDE DEF held
    <3> QED
      BY <1>3, <1>4, <2>2, <3>1, EntryStep
  <2>3. CASE UNCHANGED moduleVars
    BY <2>3, TableUnchanged DEF moduleVars, TypeOK
  <2> QED
    BY <1>2, <2>1, <2>2, <2>3
<1>6. StaysOnRoute \/ AdvanceCandidate
  BY <1>2, CandidateUpdate, GotoStays, VinFallbackStays, AlternateStays
     DEF ProbeStages
<1> QED
  BY <1>1, <1>2, <1>5, <1>6, HearType DEF ProbeShape, TypeOK

LEMMA VinFallbackShape ==
    ASSUME TypeOK, ModuleTable, Position, VinFallback
    PROVE  ProbeShape
<1>1. /\ stage \in ProbeStages /\ scope # "CACHED"
      /\ UnchangedByProbe
      /\ kwpCaptured' = kwpCaptured /\ UNCHANGED <<asked, unanswered>>
  BY DEF VinFallback, Position, ProbeStages, DiscoveryStages
<1>2. PICK reply \in Answers :
        /\ Hear(reply)
        /\ vin' \in {vin, Candidate}
        /\ RecordIf(~Unlocked /\ Present(reply), FALSE)
        /\ \/ AdvanceCandidate \/ AfterPresence
           \/ Goto("DISCOVERY_VIN_FALLBACK", [cand EXCEPT !.probe = @ + 1])
           \/ Goto("DISCOVERY_VARIANT_FALLBACK", cand)
  BY DEF VinFallback
<1>3. TableStep
  BY <1>1, <1>2, RecordIfStep
<1>4. StaysOnRoute \/ AdvanceCandidate
  BY <1>2, CandidateUpdate, GotoStays, AfterPresenceShape DEF ProbeStages
<1>5. vin' \in Routes \cup {NoRoute}
  BY <1>1, <1>2, CandidateType DEF TypeOK
<1> QED
  BY <1>1, <1>2, <1>3, <1>4, <1>5, HearType DEF ProbeShape, TypeOK

LEMMA VariantFallbackShape ==
    ASSUME TypeOK, ModuleTable, Position, VariantFallback
    PROVE  ProbeShape
<1>1. /\ stage \in ProbeStages /\ scope # "CACHED"
      /\ UnchangedByProbe
      /\ kwpCaptured' = kwpCaptured /\ vin' = vin /\ UNCHANGED <<asked, unanswered>>
  BY DEF VariantFallback, Position, ProbeStages, DiscoveryStages
<1>2. PICK reply \in Answers :
        /\ Hear(reply)
        /\ RecordIf(Present(reply), FALSE)
        /\ AdvanceCandidate \/ AfterPresence
  BY DEF VariantFallback
<1>3. Present(reply) \in BOOLEAN
  BY DEF Present
<1>4. TableStep
  BY <1>1, <1>2, <1>3, RecordIfStep
<1>5. StaysOnRoute \/ AdvanceCandidate
  BY <1>2, AfterPresenceShape
<1> QED
  BY <1>1, <1>2, <1>4, <1>5, HearType DEF ProbeShape, TypeOK

LEMMA EveryProbe ==
    ASSUME TypeOK, ModuleTable, Position, Probe
    PROVE  ProbeShape
BY ExtendedSessionShape, UdsIdentityShape, KwpIdentityShape, MetadataShape,
   TesterPresentShape, DtcFallbackShape, VinFallbackShape,
   VariantFallbackShape DEF Probe
-----------------------------------------------------------------------------
(* Leaving a route *)

\* Where NextRoute leads: to another route, into the fault pass or to the end.
NextRouteShape ==
    /\ target' \in DOMAIN Plan[scope]
    /\ target' \in Nat \ {0}
    /\ cand' \in Candidates
    /\ dtcIndex' \in 1 .. MaxModules + 1
    /\ \/ /\ stage' = "DISCOVERY_SET_HEADER"
          /\ Route[Plan[scope][target']].extended
                <=> Route[Candidate].extended
       \/ /\ stage' = "SWITCH_PROTOCOL_29"
          /\ Route[Plan[scope][target']].extended
       \/ stage' = "DTC_SET_PROTOCOL" /\ dtcIndex' <= Len(found')
       \/ stage' = "COMPLETE"

LEMMA FinishDiscoveryShape ==
    ASSUME TypeOK, scope # "CACHED", TableStep, FinishDiscovery
    PROVE  NextRouteShape
<1>1. /\ target' \in DOMAIN Plan[scope] /\ target' \in Nat \ {0}
      /\ cand' \in Candidates
  BY DEF TypeOK, FinishDiscovery
<1>2. dtcIndex' = 1 /\ dtcIndex' \in 1 .. MaxModules + 1
  <2>1. dtcIndex' = 1
    BY DEF FinishDiscovery
  <2>2. MaxModules \in Nat
    BY ConstantsAssumption
  <2> QED
    BY <2>1, <2>2
<1>3. CASE \E r \in Found' : entry'[r].dtc = "not attempted"
  <2>1. found' \in Seq(Routes) /\ DOMAIN found' # {}
    BY <1>3 DEF TableStep, Found
  <2>2. Len(found') >= 1
    BY <2>1
  <2> QED
    BY <1>1, <1>2, <1>3, <2>2 DEF FinishDiscovery, NextRouteShape
<1>4. CASE ~ \E r \in Found' : entry'[r].dtc = "not attempted"
  BY <1>1, <1>2, <1>4 DEF FinishDiscovery, NextRouteShape
<1> QED
  BY <1>3, <1>4

LEMMA NextRouteIsShaped ==
    ASSUME TypeOK, scope # "CACHED", TableStep, NextRoute
    PROVE  NextRouteShape
<1>1. CASE target < Len(Plan[scope])
  <2> DEFINE next == Plan[scope][target + 1]
  <2>1. /\ target + 1 \in DOMAIN Plan[scope] /\ next \in Routes
        /\ Route[Candidate].extended => Route[next].extended
    BY <1>1, NextInPlan
  <2>2. FreshCandidate(next) \in Candidates
    BY <2>1, FreshCandidateType
  <2>3. /\ target' = target + 1 /\ cand' = FreshCandidate(next)
        /\ dtcIndex' = dtcIndex
        /\ stage' = IF Route[next].extended = Route[Candidate].extended
                    THEN "DISCOVERY_SET_HEADER"
                    ELSE IF Route[next].extended THEN "SWITCH_PROTOCOL_29"
                    ELSE "INIT_PROTOCOL_11"
    BY <1>1 DEF NextRoute, HasNextRoute
  <2>4. /\ Route[next].extended \in BOOLEAN
        /\ Route[Candidate].extended \in BOOLEAN
    BY <2>1, CandidateType, RouteType
  <2>5. \/ /\ stage' = "DISCOVERY_SET_HEADER"
           /\ Route[next].extended <=> Route[Candidate].extended
        \/ stage' = "SWITCH_PROTOCOL_29" /\ Route[next].extended
    <3> HIDE DEF next
    <3> QED
      BY <2>1, <2>3, <2>4
  <2>6. target' \in Nat \ {0} /\ dtcIndex' \in 1 .. MaxModules + 1
    BY <2>3 DEF TypeOK
  <2> QED
    BY <2>1, <2>2, <2>3, <2>5, <2>6 DEF NextRouteShape
<1>2. CASE ~(target < Len(Plan[scope]))
  BY <1>2, FinishDiscoveryShape DEF NextRoute, HasNextRoute
<1> QED
  BY <1>1, <1>2

\* The state after NextRoute, from a candidate the adapter is on the bus of.
LEMMA NextRouteKeeps ==
    ASSUME TypeOK, scope # "CACHED", scope' = scope, ~longTimeout',
           TableStep, NextRouteShape, resumePending = FALSE,
           UNCHANGED resumeVars,
           adapter'.formats = {"ATH0", "ATCAF1", "ATCFC1"},
           adapter'.protocol = Bus(Candidate),
           adapter'.timeout = ScanTimeout
    PROVE  /\ stage' \in Stages
           /\ Position'
           /\ Configured'
<1>1. CASE /\ stage' = "DISCOVERY_SET_HEADER"
           /\ Route[Plan[scope][target']].extended
                 <=> Route[Candidate].extended
  <2>1. adapter'.protocol = Bus(Candidate)'
    BY <1>1 DEF Bus, Candidate
  <2>2. adapter'.timeout = ScanTimeout'
    BY DEF ScanTimeout
  <2>3. stage' \in Stages /\ Position'
    BY <1>1 DEF Position, InitStages, RouteSetupStages, ProbeStages,
         TimeoutStages, DiscoveryStages, DtcSetupStages, DtcRequestStages,
         DtcStages, Ended, Stages, resumeVars
  <2>4. Configured'
    BY <1>1, <2>1, <2>2 DEF Configured, InitStages, RouteSetupStages,
         ProbeStages, TimeoutStages, DiscoveryStages, DtcSetupStages,
         DtcRequestStages, DtcStages
  <2> QED
    BY <2>3, <2>4
<1>2. CASE /\ stage' = "SWITCH_PROTOCOL_29"
           /\ Route[Plan[scope][target']].extended
  <2>1. Route[Candidate'].extended
    BY <1>2 DEF Candidate
  <2>2. adapter'.timeout = ScanTimeout'
    BY DEF ScanTimeout
  <2>3. stage' \in Stages /\ Position'
    BY <1>2, <2>1 DEF Position, InitStages, RouteSetupStages, ProbeStages,
         TimeoutStages, DiscoveryStages, DtcSetupStages, DtcRequestStages,
         DtcStages, Ended, Stages, resumeVars
  <2>4. Configured'
    BY <1>2, <2>2 DEF Configured, InitStages, RouteSetupStages,
         ProbeStages, TimeoutStages, DiscoveryStages, DtcSetupStages,
         DtcRequestStages, DtcStages
  <2> QED
    BY <2>3, <2>4
<1>3. CASE stage' = "DTC_SET_PROTOCOL" /\ dtcIndex' <= Len(found')
  <2>1. adapter'.timeout = ScanTimeout'
    BY DEF ScanTimeout
  <2>2. stage' \in Stages /\ Position'
    BY <1>3 DEF Position, InitStages, RouteSetupStages, ProbeStages,
         TimeoutStages, DiscoveryStages, DtcSetupStages, DtcRequestStages,
         DtcStages, Ended, Stages, resumeVars
  <2>3. Configured'
    BY <1>3, <2>1 DEF Configured, InitStages, RouteSetupStages,
         ProbeStages, TimeoutStages, DiscoveryStages, DtcSetupStages,
         DtcRequestStages, DtcStages
  <2> QED
    BY <2>2, <2>3
<1>4. CASE stage' = "COMPLETE"
  <2>1. stage' \in Stages /\ Position'
    BY <1>4 DEF Position, InitStages, RouteSetupStages, ProbeStages,
         TimeoutStages, DiscoveryStages, DtcSetupStages, DtcRequestStages,
         DtcStages, Ended, Stages, resumeVars
  <2>2. Configured'
    BY <1>4 DEF Configured, InitStages, RouteSetupStages,
         ProbeStages, TimeoutStages, DiscoveryStages, DtcSetupStages,
         DtcRequestStages, DtcStages
  <2> QED
    BY <2>1, <2>2
<1> QED
  BY <1>1, <1>2, <1>3, <1>4 DEF NextRouteShape

\* A request to a candidate's ECU keeps the invariant.
LEMMA ProbeKeeps ==
    ASSUME InductiveInvariant, Probe
    PROVE  InductiveInvariant'
<1>1. TypeOK /\ ModuleTable /\ Position /\ Configured /\ ProbeShape
  BY EveryProbe DEF InductiveInvariant
<1>2. /\ stage \in ProbeStages /\ scope # "CACHED"
      /\ TableStep /\ UnchangedByProbe
      /\ scope' = scope /\ longTimeout' = longTimeout
      /\ adapter' = adapter /\ UNCHANGED resumeVars
  BY <1>1 DEF ProbeShape, UnchangedByProbe, Position, DiscoveryStages
<1>3. resumePending = FALSE
  BY <1>1, <1>2 DEF TypeOK, Position, InitStages, ProbeStages, Ended
<1>4. /\ adapter.formats = {"ATH0", "ATCAF1", "ATCFC1"}
      /\ adapter.protocol = Bus(Candidate)
      /\ adapter.timeout = IF longTimeout THEN "ATSTFF" ELSE ScanTimeout
      /\ adapter.header = Candidate
      /\ IF Unlocked THEN adapter.filter = "open"
         ELSE adapter.filter = "exact" /\ adapter.receive = Candidate
  BY <1>1, <1>2 DEF Configured, DiscoveryStages, ProbeStages
<1>5. ASSUME /\ stage' \in Stages /\ target' \in Nat \ {0}
             /\ target' \in DOMAIN Plan[scope]
             /\ cand' \in Candidates
             /\ dtcIndex' \in 1 .. MaxModules + 1
      PROVE  TypeOK' /\ ModuleTable'
  BY <1>1, <1>2, <1>5
     DEF TypeOK, ProbeShape, UnchangedByProbe, resumeVars, TableStep
<1>6. CASE StaysOnRoute
  <2>1. Candidate' = Candidate /\ Unlocked' = Unlocked
    BY <1>2, <1>6
       DEF StaysOnRoute, Candidate, Unlocked, Sweeping, Locked,
           UsesTargetPlan
  <2>2. stage' \in ProbeStages \cup {"DISCOVERY_VIN_SET_TIMEOUT"}
    BY <1>6 DEF StaysOnRoute
  <2>3. stage' \in Stages
    BY <2>2 DEF Stages, DiscoveryStages, TimeoutStages
  <2>4. TypeOK' /\ ModuleTable'
    BY <1>1, <1>2, <1>5, <1>6, <2>3, CandidateType
       DEF StaysOnRoute, TypeOK
  <2>5. Position'
    BY <1>2, <1>3, <1>6, <2>2 DEF StaysOnRoute, Position, InitStages,
       RouteSetupStages, ProbeStages, TimeoutStages, DiscoveryStages,
       DtcSetupStages, DtcRequestStages, DtcStages, Ended, resumeVars
  <2>6. adapter'.protocol = Bus(Candidate)' /\ ScanTimeout' = ScanTimeout
    BY <1>2, <1>4, <2>1 DEF Bus, ScanTimeout
  <2>7. Configured'
    BY <1>2, <1>4, <2>1, <2>2, <2>6 DEF Configured, InitStages,
       RouteSetupStages, ProbeStages, TimeoutStages, DiscoveryStages,
       DtcSetupStages, DtcRequestStages, DtcStages
  <2> QED
    BY <2>4, <2>5, <2>7 DEF InductiveInvariant
<1>7. CASE AdvanceCandidate /\ longTimeout
  <2>1. /\ stage' = "DISCOVERY_RESTORE_TIMEOUT"
        /\ UNCHANGED <<target, cand, dtcIndex>>
    BY <1>7 DEF AdvanceCandidate
  <2>2. TypeOK' /\ ModuleTable'
    BY <1>1, <1>2, <1>5, <2>1
       DEF TypeOK, Stages, DiscoveryStages, TimeoutStages
  <2>3. Position'
    BY <1>2, <1>3, <2>1 DEF Position, InitStages,
       RouteSetupStages, ProbeStages, TimeoutStages, DiscoveryStages,
       DtcSetupStages, DtcRequestStages, DtcStages, Ended, resumeVars
  <2>4. adapter'.protocol = Bus(Candidate)'
    BY <1>2, <1>4, <2>1 DEF Bus, Candidate
  <2>5. Configured'
    BY <1>2, <1>4, <2>1, <2>4 DEF Configured, InitStages,
       RouteSetupStages, ProbeStages, TimeoutStages, DiscoveryStages,
       DtcSetupStages, DtcRequestStages, DtcStages
  <2> QED
    BY <2>2, <2>3, <2>5 DEF InductiveInvariant
<1>8. CASE AdvanceCandidate /\ ~longTimeout
  <2>1. NextRouteShape
    BY <1>1, <1>2, <1>8, NextRouteIsShaped DEF AdvanceCandidate
  <2>2. /\ stage' \in Stages /\ Position' /\ Configured'
    BY <1>1, <1>2, <1>3, <1>4, <1>8, <2>1, NextRouteKeeps
  <2>3. TypeOK' /\ ModuleTable'
    BY <1>5, <2>1, <2>2 DEF NextRouteShape
  <2> QED
    BY <2>2, <2>3 DEF InductiveInvariant
<1> QED
  BY <1>1, <1>6, <1>7, <1>8 DEF ProbeShape
-----------------------------------------------------------------------------
(* Adapter setup *)

\* The fields of the adapter, configured one by one.
LEMMA AdapterField ==
    ASSUME TypeOK
    PROVE  /\ \A p \in {"ATSP6", "ATSP7"} : Selected(p) \in Adapters
           /\ \A f \in {"ATH0", "ATCAF1", "ATCFC1"} : Formatted(f) \in Adapters
           /\ \A r \in Routes : Receiving(r) \in Adapters
           /\ \A r \in Routes : [adapter EXCEPT !.header = r] \in Adapters
           /\ \A x \in {"unknown", "default", "code", "open", "exact"} :
                 [adapter EXCEPT !.filter = x] \in Adapters
           /\ \A t \in {"ATST20", "ATST32", "ATST64", "ATSTFF"} :
                 [adapter EXCEPT !.timeout = t] \in Adapters
           /\ ScanTimeout \in {"ATST20", "ATST32"}
<1>1. adapter \in Adapters
  BY DEF TypeOK
<1>2. \A p \in {"ATSP6", "ATSP7"} : Selected(p) \in Adapters
  BY <1>1 DEF Adapters, Selected
<1>3. \A f \in {"ATH0", "ATCAF1", "ATCFC1"} : Formatted(f) \in Adapters
  <2>1. ASSUME NEW f \in {"ATH0", "ATCAF1", "ATCFC1"}
        PROVE  adapter.formats \cup {f} \in SUBSET {"ATH0", "ATCAF1", "ATCFC1"}
    BY <1>1, <2>1 DEF Adapters
  <2> QED
    BY <1>1, <2>1 DEF Adapters, Formatted
<1>4. \A r \in Routes : Receiving(r) \in Adapters
  BY <1>1 DEF Adapters, Receiving
<1>5. \A r \in Routes : [adapter EXCEPT !.header = r] \in Adapters
  BY <1>1 DEF Adapters
<1>6. \A x \in {"unknown", "default", "code", "open", "exact"} :
        [adapter EXCEPT !.filter = x] \in Adapters
  BY <1>1 DEF Adapters
<1>7. \A t \in {"ATST20", "ATST32", "ATST64", "ATSTFF"} :
        [adapter EXCEPT !.timeout = t] \in Adapters
  BY <1>1 DEF Adapters
<1>8. ScanTimeout \in {"ATST20", "ATST32"}
  BY DEF ScanTimeout
<1> QED
  BY <1>2, <1>3, <1>4, <1>5, <1>6, <1>7, <1>8

\* What a configuration command leaves alone, but for the resume request.
SameScan ==
    /\ scope' = scope /\ target' = target /\ longTimeout' = longTimeout
    /\ found' = found /\ dtcIndex' = dtcIndex

LEMMA SameScanKeeps ==
    ASSUME SameScan
    PROVE  /\ Candidate' = Candidate /\ Module' = Module
           /\ Unlocked' = Unlocked /\ ScanTimeout' = ScanTimeout
           /\ Bus(Candidate)' = Bus(Candidate) /\ Bus(Module)' = Bus(Module)
BY DEF SameScan, Candidate, Module, Unlocked, Sweeping, Locked,
       UsesTargetPlan, ScanTimeout, Bus

LEMMA SetupTypes ==
    ASSUME TypeOK, ModuleTable, adapter' \in Adapters, stage' \in Stages,
           UNCHANGED <<scope, routeVars, vin, moduleVars, dtcIndex,
                       resumeVars, fitted, heard, asked, unanswered>>
    PROVE  TypeOK' /\ ModuleTable' /\ SameScan
BY DEF TypeOK, ModuleTable, SameScan, routeVars, moduleVars, resumeVars

LEMMA InitCommandKeeps ==
    ASSUME InductiveInvariant,
           InitProtocol11 \/ InitHeaders \/ InitAutoFormat \/ InitFlowControl
    PROVE  InductiveInvariant'
<1>1. TypeOK /\ ModuleTable /\ Position /\ Configured
  BY DEF InductiveInvariant
<1>2. /\ UNCHANGED <<scope, routeVars, vin, moduleVars, dtcIndex,
                     resumeVars, fitted, heard, asked, unanswered>>
      /\ \/ /\ stage = "INIT_PROTOCOL_11" /\ stage' = "INIT_HEADERS"
            /\ adapter' = Selected("ATSP6")
         \/ /\ stage = "INIT_HEADERS" /\ stage' = "INIT_AUTO_FORMAT"
            /\ adapter' = Formatted("ATH0")
         \/ /\ stage = "INIT_AUTO_FORMAT" /\ stage' = "INIT_FLOW_CONTROL"
            /\ adapter' = Formatted("ATCAF1")
         \/ /\ stage = "INIT_FLOW_CONTROL" /\ stage' = "INIT_TIMEOUT"
            /\ adapter' = Formatted("ATCFC1")
  BY DEF InitProtocol11, InitHeaders, InitAutoFormat, InitFlowControl, Setup
<1>3. adapter' \in Adapters
  BY <1>1, <1>2, AdapterField
<1>4. TypeOK' /\ ModuleTable' /\ SameScan
  BY <1>1, <1>2, <1>3, SetupTypes DEF Stages, InitStages
<1>5. Position'
  <2>1. AfterInit' = AfterInit /\ Candidate' = Candidate
    BY <1>2, <1>4, SameScanKeeps DEF AfterInit, resumeVars, SameScan
  <2> QED
    BY <1>1, <1>2, <1>4, <2>1 DEF Position, SameScan, resumeVars, InitStages,
       RouteSetupStages, ProbeStages, TimeoutStages, DiscoveryStages,
       DtcSetupStages, DtcRequestStages, DtcStages, Ended
<1>6. Configured'
  <2>1. adapter \in Adapters
    BY <1>1 DEF TypeOK
  <2>2. /\ stage' # "INIT_HEADERS" => adapter'.protocol = adapter.protocol
        /\ stage' = "INIT_HEADERS" => adapter'.protocol = "ATSP6"
    BY <1>2, <2>1 DEF Selected, Formatted, Adapters
  <2>3. /\ stage' = "INIT_AUTO_FORMAT" => "ATH0" \in adapter'.formats
        /\ stage' = "INIT_FLOW_CONTROL" =>
              {"ATH0", "ATCAF1"} \subseteq adapter'.formats
        /\ stage' = "INIT_TIMEOUT" =>
              adapter'.formats = {"ATH0", "ATCAF1", "ATCFC1"}
    BY <1>1, <1>2, <2>1 DEF Configured, Formatted, Adapters
  <2> QED
    BY <1>1, <1>2, <2>2, <2>3 DEF Configured, InitStages, RouteSetupStages,
       ProbeStages, TimeoutStages, DiscoveryStages, DtcSetupStages,
       DtcRequestStages, DtcStages
<1> QED
  BY <1>4, <1>5, <1>6 DEF InductiveInvariant

LEMMA InitTimeoutKeeps ==
    ASSUME InductiveInvariant, InitTimeout
    PROVE  InductiveInvariant'
<1>1. TypeOK /\ ModuleTable /\ Position /\ Configured
  BY DEF InductiveInvariant
<1>2. /\ stage = "INIT_TIMEOUT" /\ stage' = AfterInit
      /\ resumePending' = FALSE
      /\ adapter' = [adapter EXCEPT !.timeout = ScanTimeout]
      /\ SameScan
  BY DEF InitTimeout, SameScan, routeVars, moduleVars
<1>3. adapter' \in Adapters
  BY <1>1, <1>2, AdapterField
<1>4. \/ stage' = "DTC_SET_PROTOCOL" /\ dtcIndex <= Len(found)
      \/ /\ scope # "CACHED"
         /\ stage' = "SWITCH_PROTOCOL_29"
         /\ Route[Candidate].extended
      \/ /\ scope # "CACHED"
         /\ stage' = "DISCOVERY_SET_HEADER"
         /\ ~Route[Candidate].extended
  BY <1>1, <1>2 DEF Position, InitStages
<1>5. stage' \in Stages
  BY <1>4 DEF Stages, DiscoveryStages, RouteSetupStages, DtcStages,
              DtcSetupStages
<1>6. TypeOK' /\ ModuleTable'
  BY <1>1, <1>2, <1>3, <1>5
     DEF InitTimeout, TypeOK, ModuleTable, routeVars, moduleVars
<1>7. longTimeout = FALSE
  BY <1>1, <1>2 DEF TypeOK, Position, ProbeStages
<1>8. Position'
  BY <1>2, <1>4, <1>7, SameScanKeeps DEF Position, SameScan, InitStages,
     RouteSetupStages, ProbeStages, TimeoutStages, DiscoveryStages,
     DtcSetupStages, DtcRequestStages, DtcStages, Ended
<1>9. Configured'
  <2>1. /\ adapter'.timeout = ScanTimeout
        /\ adapter'.formats = adapter.formats
        /\ adapter'.protocol = adapter.protocol
    BY <1>1, <1>2 DEF TypeOK, Adapters
  <2>2. /\ adapter'.formats = {"ATH0", "ATCAF1", "ATCFC1"}
        /\ adapter'.protocol = "ATSP6"
    BY <1>1, <1>2, <2>1 DEF Configured, InitStages
  <2>3. stage' = "DISCOVERY_SET_HEADER" => adapter'.protocol = Bus(Candidate)
    BY <1>4, <2>2 DEF Bus
  <2> QED
    BY <1>2, <1>4, <1>7, <2>1, <2>2, <2>3, SameScanKeeps
       DEF Configured, SameScan, InitStages, RouteSetupStages, ProbeStages,
       TimeoutStages, DiscoveryStages, DtcSetupStages, DtcRequestStages,
       DtcStages
<1> QED
  BY <1>6, <1>8, <1>9 DEF InductiveInvariant

\* Route setup before the identity request.
LEMMA RouteCommandKeeps ==
    ASSUME InductiveInvariant,
           \/ SwitchProtocol29 \/ SwitchHeadersOff29 \/ SetHeader
           \/ ResetReceive \/ SetFilter
    PROVE  InductiveInvariant'
<1>1. TypeOK /\ ModuleTable /\ Position /\ Configured
  BY DEF InductiveInvariant
<1>2. /\ UNCHANGED <<scope, routeVars, vin, moduleVars, dtcIndex,
                     resumeVars, fitted, heard, asked, unanswered>>
      /\ \/ /\ stage = "SWITCH_PROTOCOL_29"
            /\ stage' = "SWITCH_HEADERS_OFF_29"
            /\ adapter' = Selected("ATSP7")
         \/ /\ stage = "SWITCH_HEADERS_OFF_29"
            /\ stage' = "DISCOVERY_SET_HEADER"
            /\ adapter' = Formatted("ATH0")
         \/ /\ stage = "DISCOVERY_SET_HEADER"
            /\ stage' = IF Unlocked THEN "DISCOVERY_RESET_RECEIVE"
                                    ELSE "DISCOVERY_SET_RECEIVE"
            /\ adapter' = [adapter EXCEPT !.header = Candidate]
         \/ /\ stage = "DISCOVERY_RESET_RECEIVE"
            /\ stage' = "DISCOVERY_SET_FILTER"
            /\ adapter' = [adapter EXCEPT !.filter = "default"]
         \/ /\ stage = "DISCOVERY_SET_FILTER"
            /\ stage' = "DISCOVERY_SET_MASK"
            /\ adapter' = [adapter EXCEPT
                             !.filter = IF @ = "default" THEN "code" ELSE @]
  BY DEF SwitchProtocol29, SwitchHeadersOff29, SetHeader, ResetReceive,
         SetFilter, Setup
<1>3. stage \in RouteSetupStages /\ scope # "CACHED" /\ longTimeout = FALSE
  BY <1>1, <1>2 DEF TypeOK, Position, DiscoveryStages, RouteSetupStages,
                    ProbeStages
<1>4. adapter \in Adapters /\ Candidate \in Routes
  BY <1>1, <1>3, CandidateType DEF TypeOK
<1>5. adapter' \in Adapters
  <2>1. (IF adapter.filter = "default" THEN "code" ELSE adapter.filter)
           \in {"unknown", "default", "code", "open", "exact"}
    BY <1>4 DEF Adapters
  <2> QED
    BY <1>1, <1>2, <1>4, <2>1, AdapterField
<1>6. stage' \in RouteSetupStages
  BY <1>2 DEF RouteSetupStages
<1>7. TypeOK' /\ ModuleTable' /\ SameScan
  BY <1>1, <1>2, <1>5, <1>6, SetupTypes DEF Stages, DiscoveryStages
<1>8. Position'
  BY <1>1, <1>2, <1>3, <1>6, <1>7, SameScanKeeps
     DEF Position, SameScan, resumeVars, InitStages, RouteSetupStages,
         ProbeStages, TimeoutStages, DiscoveryStages, DtcSetupStages,
         DtcRequestStages, DtcStages, Ended
<1>9. Configured'
  <2>1. /\ adapter.formats = {"ATH0", "ATCAF1", "ATCFC1"}
        /\ adapter.timeout = ScanTimeout
    BY <1>1, <1>3 DEF Configured, DiscoveryStages, RouteSetupStages
  <2>2. /\ adapter'.formats = {"ATH0", "ATCAF1", "ATCFC1"}
        /\ adapter'.timeout = ScanTimeout
    BY <1>2, <1>4, <2>1 DEF Adapters, Selected, Formatted
  <2>3. adapter'.protocol = Bus(Candidate)
    BY <1>1, <1>2, <1>3, <1>4
       DEF Configured, Position, Adapters, Selected, Formatted, Bus,
           DiscoveryStages, RouteSetupStages
  <2>4. /\ stage' \in {"DISCOVERY_RESET_RECEIVE", "DISCOVERY_SET_FILTER",
                       "DISCOVERY_SET_MASK", "DISCOVERY_SET_RECEIVE"}
              => adapter'.header = Candidate
        /\ stage' \in {"DISCOVERY_RESET_RECEIVE", "DISCOVERY_SET_FILTER",
                       "DISCOVERY_SET_MASK"} => Unlocked
        /\ stage' = "DISCOVERY_SET_RECEIVE" => ~Unlocked
    BY <1>1, <1>2, <1>4 DEF Configured, Adapters
  <2>5. /\ stage' = "DISCOVERY_SET_FILTER" => adapter'.filter = "default"
        /\ stage' = "DISCOVERY_SET_MASK" => adapter'.filter = "code"
    BY <1>1, <1>2, <1>4 DEF Configured, Adapters
  <2> QED
    BY <1>3, <1>6, <1>7, <2>2, <2>3, <2>4, <2>5, SameScanKeeps
       DEF Configured, SameScan, InitStages, RouteSetupStages, ProbeStages,
       TimeoutStages, DiscoveryStages, DtcSetupStages, DtcRequestStages,
       DtcStages
<1> QED
  BY <1>7, <1>8, <1>9 DEF InductiveInvariant

\* The commands that complete the setup of a route, and the longer response
\* time for its VIN requests.
LEMMA RouteReadyKeeps ==
    ASSUME InductiveInvariant,
           SetMask \/ SetReceive \/ SetReceiveForSession \/ VinSetTimeout
    PROVE  InductiveInvariant'
<1>1. TypeOK /\ ModuleTable /\ Position /\ Configured
  BY DEF InductiveInvariant
<1>2. /\ UNCHANGED <<scope, target, kwpCaptured, vin, moduleVars, dtcIndex,
                     resumeVars, fitted, heard, asked, unanswered>>
      /\ stage' \in ProbeStages
      /\ \/ /\ stage = "DISCOVERY_SET_MASK"
            /\ adapter' = [adapter EXCEPT
                             !.filter = IF @ = "code" THEN "open" ELSE @]
            /\ longTimeout' = longTimeout
         \/ /\ stage = "DISCOVERY_SET_RECEIVE"
            /\ adapter' = Receiving(Candidate)
            /\ longTimeout' = longTimeout
         \/ /\ stage = "DISCOVERY_VIN_SET_TIMEOUT"
            /\ adapter' = [adapter EXCEPT !.timeout = "ATSTFF"]
            /\ longTimeout' = TRUE
  BY DEF SetMask, SetReceive, SetReceiveForSession, VinSetTimeout,
         StartIdentity, Setup, routeVars, ProbeStages
<1>3. cand' \in Candidates
  BY <1>1, CandidateUpdate
     DEF SetMask, SetReceive, SetReceiveForSession, VinSetTimeout,
         StartIdentity, Setup, routeVars
<1>4. /\ stage \in DiscoveryStages /\ scope # "CACHED"
      /\ longTimeout = FALSE /\ resumePending = FALSE
  BY <1>1, <1>2 DEF TypeOK, Position, DiscoveryStages, RouteSetupStages,
     TimeoutStages, ProbeStages, InitStages, Ended
<1>5. adapter \in Adapters /\ Candidate \in Routes
  BY <1>1, <1>4, CandidateType DEF TypeOK
<1>6. adapter' \in Adapters
  <2>1. (IF adapter.filter = "code" THEN "open" ELSE adapter.filter)
           \in {"unknown", "default", "code", "open", "exact"}
    BY <1>5 DEF Adapters
  <2> QED
    BY <1>1, <1>2, <1>5, <2>1, AdapterField
<1>7. /\ Candidate' = Candidate /\ Unlocked' = Unlocked
      /\ ScanTimeout' = ScanTimeout /\ Bus(Candidate)' = Bus(Candidate)
  BY <1>2 DEF Candidate, Unlocked, Sweeping, Locked, UsesTargetPlan,
              ScanTimeout, Bus
<1>8. TypeOK' /\ ModuleTable'
  <2>1. stage' \in Stages
    BY <1>2 DEF Stages, DiscoveryStages
  <2>2. longTimeout' \in BOOLEAN
    BY <1>1, <1>2 DEF TypeOK
  <2> QED
    BY <1>1, <1>2, <1>3, <1>6, <2>1, <2>2
       DEF TypeOK, ModuleTable, moduleVars, resumeVars
<1>9. Position'
  BY <1>2, <1>4 DEF Position, resumeVars, InitStages, RouteSetupStages,
         ProbeStages, TimeoutStages, DiscoveryStages, DtcSetupStages,
         DtcRequestStages, DtcStages, Ended
<1>10. Configured'
  <2>1. /\ adapter.formats = {"ATH0", "ATCAF1", "ATCFC1"}
        /\ adapter.protocol = Bus(Candidate)
        /\ adapter.timeout = ScanTimeout
        /\ adapter.header = Candidate
    BY <1>1, <1>2, <1>4 DEF Configured, DiscoveryStages, RouteSetupStages,
                            TimeoutStages
  <2>2. /\ adapter'.formats = {"ATH0", "ATCAF1", "ATCFC1"}
        /\ adapter'.protocol = Bus(Candidate)
        /\ adapter'.header = Candidate
        /\ adapter'.timeout = IF longTimeout' THEN "ATSTFF" ELSE ScanTimeout
    BY <1>2, <1>4, <1>5, <2>1 DEF Adapters, Receiving
  <2>3. IF Unlocked THEN adapter'.filter = "open"
        ELSE adapter'.filter = "exact" /\ adapter'.receive = Candidate
    BY <1>1, <1>2, <1>5 DEF Configured, Adapters, Receiving
  <2> QED
    BY <1>2, <1>7, <2>2, <2>3 DEF Configured, InitStages, RouteSetupStages,
       ProbeStages, TimeoutStages, DiscoveryStages, DtcSetupStages,
       DtcRequestStages, DtcStages
<1> QED
  BY <1>8, <1>9, <1>10 DEF InductiveInvariant

LEMMA RestoreTimeoutKeeps ==
    ASSUME InductiveInvariant, RestoreTimeout
    PROVE  InductiveInvariant'
<1>1. TypeOK /\ ModuleTable /\ Position /\ Configured
  BY DEF InductiveInvariant
<1>2. /\ stage = "DISCOVERY_RESTORE_TIMEOUT"
      /\ adapter' = [adapter EXCEPT !.timeout = ScanTimeout]
      /\ longTimeout' = FALSE
      /\ UNCHANGED moduleVars
      /\ NextRoute
      /\ UNCHANGED <<scope, kwpCaptured, vin, resumeVars, fitted, heard,
                     asked, unanswered>>
  BY DEF RestoreTimeout
<1>3. scope # "CACHED" /\ resumePending = FALSE
  BY <1>1, <1>2 DEF TypeOK, Position, DiscoveryStages, TimeoutStages,
                    InitStages, Ended
<1>4. TableStep
  BY <1>1, <1>2, TableUnchanged DEF moduleVars, TypeOK
<1>5. NextRouteShape
  BY <1>1, <1>2, <1>3, <1>4, NextRouteIsShaped
<1>6. adapter' \in Adapters
  BY <1>1, <1>2, AdapterField
<1>7. /\ adapter'.formats = {"ATH0", "ATCAF1", "ATCFC1"}
      /\ adapter'.protocol = Bus(Candidate)
      /\ adapter'.timeout = ScanTimeout
  <2>1. /\ adapter.formats = {"ATH0", "ATCAF1", "ATCFC1"}
        /\ adapter.protocol = Bus(Candidate)
    BY <1>1, <1>2 DEF Configured, DiscoveryStages, TimeoutStages
  <2> QED
    BY <1>1, <1>2, <2>1 DEF TypeOK, Adapters
<1>8. stage' \in Stages /\ Position' /\ Configured'
  BY <1>1, <1>2, <1>3, <1>4, <1>5, <1>7, NextRouteKeeps
<1>9. TypeOK' /\ ModuleTable'
  <2>1. /\ scope' = scope /\ kwpCaptured' = kwpCaptured /\ vin' = vin
        /\ UNCHANGED resumeVars /\ longTimeout' = FALSE
        /\ fitted' = fitted /\ heard' = heard /\ UNCHANGED <<asked, unanswered>>
    BY <1>2
  <2> QED
    BY <1>1, <1>4, <1>5, <1>6, <1>8, <2>1
       DEF TypeOK, TableStep, NextRouteShape, resumeVars
<1> QED
  BY <1>8, <1>9 DEF InductiveInvariant
-----------------------------------------------------------------------------
(* The fault pass *)

LEMMA DtcCommandKeeps ==
    ASSUME InductiveInvariant,
           \/ DtcSetProtocol \/ DtcSetHeader
           \/ DtcSetReceive \/ DtcSetReceiveForIdentity
           \/ CachedIdentitySetTimeout \/ CachedIdentityRestoreTimeout
    PROVE  InductiveInvariant'
<1>1. TypeOK /\ ModuleTable /\ Position /\ Configured
  BY DEF InductiveInvariant
<1> DEFINE requests == {"DTC_EXTENDED_SESSION", "DTC_VALIDATE"}
<1>2. /\ UNCHANGED <<scope, target, longTimeout, vin, moduleVars, dtcIndex,
                     resumeVars, fitted, heard, asked, unanswered>>
      /\ \/ /\ stage = "DTC_SET_PROTOCOL" /\ stage' = "DTC_SET_HEADER"
            /\ adapter' = Selected(Bus(Module))
            /\ UNCHANGED <<cand, kwpCaptured>>
         \/ /\ stage = "DTC_SET_HEADER" /\ stage' = "DTC_SET_RECEIVE"
            /\ adapter' = [adapter EXCEPT !.header = Module]
            /\ UNCHANGED <<cand, kwpCaptured>>
         \/ /\ stage = "DTC_SET_RECEIVE" /\ stage' \in requests
            /\ adapter' = Receiving(Module)
            /\ UNCHANGED <<cand, kwpCaptured>>
         \/ /\ stage = "DTC_SET_RECEIVE" /\ scope = "CACHED"
            /\ stage' = "CACHED_IDENTITY_SET_TIMEOUT"
            /\ adapter' = Receiving(Module)
            /\ cand' = [cand EXCEPT !.index = 0, !.fallback = FALSE]
            /\ kwpCaptured' \in BOOLEAN
         \/ /\ stage = "CACHED_IDENTITY_SET_TIMEOUT"
            /\ stage' = "CACHED_IDENTITY"
            /\ adapter' = [adapter EXCEPT !.timeout = "ATST64"]
            /\ UNCHANGED <<cand, kwpCaptured>>
         \/ /\ stage = "CACHED_IDENTITY_RESTORE_TIMEOUT"
            /\ stage' \in requests
            /\ adapter' = [adapter EXCEPT !.timeout = "ATST20"]
            /\ UNCHANGED <<cand, kwpCaptured>>
  BY DEF DtcSetProtocol, DtcSetHeader, DtcSetReceive,
         DtcSetReceiveForIdentity, UnresolvedTransmission,
         CachedIdentitySetTimeout, CachedIdentityRestoreTimeout, Setup,
         routeVars, SessionOrValidate
<1>3. stage \in DtcStages /\ stage' \in DtcStages
  BY <1>2 DEF DtcStages, DtcSetupStages, DtcRequestStages
<1>4. /\ dtcIndex <= Len(found)
      /\ longTimeout = FALSE /\ resumePending = FALSE
  BY <1>1, <1>3 DEF TypeOK, Position, DtcStages, DtcSetupStages,
     DtcRequestStages, ProbeStages, InitStages, Ended
<1>5. adapter \in Adapters /\ Module \in Routes
  BY <1>1, <1>4, ModuleType DEF TypeOK
<1>6. adapter' \in Adapters
  <2>1. Bus(Module) \in {"ATSP6", "ATSP7"}
    BY DEF Bus
  <2> QED
    BY <1>1, <1>2, <1>5, <2>1, AdapterField
<1>7. SameScan
  BY <1>2 DEF SameScan, moduleVars
<1>8. cand' \in Candidates /\ kwpCaptured' \in BOOLEAN
  BY <1>1, <1>2, CandidateUpdate DEF TypeOK
<1>9. TypeOK' /\ ModuleTable'
  <2>1. stage' \in Stages
    BY <1>3 DEF Stages
  <2> QED
    BY <1>1, <1>2, <1>6, <1>8, <2>1
       DEF TypeOK, ModuleTable, moduleVars, resumeVars
<1>10. Position'
  <2>1. /\ stage' = "CACHED_IDENTITY_SET_TIMEOUT" => cand'.index = 0
        /\ stage' = "CACHED_IDENTITY" => cand'.index <= 2
    BY <1>1, <1>2 DEF TypeOK, Candidates, Position
  <2>2. stage' \in {"CACHED_IDENTITY_SET_TIMEOUT", "CACHED_IDENTITY",
                    "CACHED_IDENTITY_RESTORE_TIMEOUT"} => scope' = "CACHED"
    BY <1>1, <1>2 DEF Position
  <2> QED
    BY <1>2, <1>3, <1>4, <1>7, <2>1, <2>2
       DEF Position, SameScan, resumeVars, InitStages, RouteSetupStages,
       ProbeStages, TimeoutStages, DiscoveryStages, DtcSetupStages,
       DtcRequestStages, DtcStages, Ended
<1>11. Configured'
  <2>1. adapter.formats = {"ATH0", "ATCAF1", "ATCFC1"}
    BY <1>1, <1>3 DEF Configured
  <2>2. adapter'.formats = {"ATH0", "ATCAF1", "ATCFC1"}
    BY <1>2, <1>5, <2>1 DEF Adapters, Selected, Receiving
  <2>3. adapter'.protocol = Bus(Module)
    BY <1>1, <1>2, <1>3, <1>5 DEF Configured, Adapters, Selected, Receiving
  <2>4. stage' # "DTC_SET_HEADER" => adapter'.header = Module
    BY <1>1, <1>2, <1>3, <1>5 DEF Configured, Adapters, Selected, Receiving
  <2>5. stage' \notin {"DTC_SET_HEADER", "DTC_SET_RECEIVE"}
          => adapter'.filter = "exact" /\ adapter'.receive = Module
    BY <1>1, <1>2, <1>3, <1>5 DEF Configured, Adapters, Receiving
  <2>6. IF stage' = "CACHED_IDENTITY" THEN adapter'.timeout = "ATST64"
        ELSE adapter'.timeout = ScanTimeout
    <3>1. CASE stage = "CACHED_IDENTITY_RESTORE_TIMEOUT"
      BY <1>1, <1>2, <1>5, <3>1 DEF Position, ScanTimeout, Adapters
    <3>2. CASE stage = "CACHED_IDENTITY_SET_TIMEOUT"
      BY <1>2, <1>5, <3>2 DEF Adapters
    <3>3. CASE stage \in {"DTC_SET_PROTOCOL", "DTC_SET_HEADER",
                          "DTC_SET_RECEIVE"}
      <4>1. adapter.timeout = ScanTimeout
        BY <1>1, <3>3 DEF Configured, DtcStages, DtcSetupStages
      <4> QED
        BY <1>2, <1>5, <3>3, <4>1 DEF Adapters, Selected, Receiving
    <3> QED
      BY <1>2, <3>1, <3>2, <3>3
  <2> QED
    BY <1>3, <1>7, <2>2, <2>3, <2>4, <2>5, <2>6, SameScanKeeps, <1>2
       DEF Configured, SameScan, InitStages, RouteSetupStages, ProbeStages,
       TimeoutStages, DiscoveryStages, DtcSetupStages, DtcRequestStages,
       DtcStages
<1> QED
  BY <1>9, <1>10, <1>11 DEF InductiveInvariant

\* A request of the fault pass changes its own module's entry at most.
LEMMA DtcEntry ==
    ASSUME TypeOK, ModuleTable, dtcIndex <= Len(found),
           CachedIdentity \/ DtcExtendedSession \/ DtcValidate \/ DtcRead
    PROVE  TableStep
<1> DEFINE old == entry[Module]
<1>1. Module \in Routes /\ old \in Entries
  BY ModuleType DEF TypeOK
<1>2. UNCHANGED <<found, truncated>>
  BY DEF CachedIdentity, DtcExtendedSession, DtcValidate, DtcRead, AfterModule,
         ModuleRequest
<1>3. \E e \in Entries :
        entry' = [entry EXCEPT ![Module] = e] \/ entry' = entry
  <2>1. CASE CachedIdentity
    <3>1. PICK named \in BOOLEAN :
            \/ entry' = [entry EXCEPT ![Module].identity = "read",
                                      ![Module].family = @ \/ named]
            \/ entry' = entry
      BY <2>1, Zenon DEF CachedIdentity
    <3> DEFINE e == [[old EXCEPT !.identity = "read"]
                        EXCEPT !.family = old.family \/ named]
    <3>2. [old EXCEPT !.identity = "read"] \in Entries
      BY <1>1, EntryUpdate
    <3>3. (old.family \/ named) \in BOOLEAN
      OBVIOUS
    <3>4. e \in Entries
      BY <3>2, <3>3, EntryUpdate
    <3>5. [entry EXCEPT ![Module].identity = "read",
                        ![Module].family = @ \/ named]
            = [entry EXCEPT ![Module] = e]
      BY <1>1 DEF TypeOK, Entries
    <3> QED
      BY <3>1, <3>4, <3>5
  <2>2. CASE DtcExtendedSession
    <3> DEFINE x(reply) == IF reply = "positive" THEN "active"
                           ELSE StrongerSession(old.session, "tried")
    <3>1. PICK reply \in Answers :
            entry' = [entry EXCEPT ![Module].session = x(reply)]
      BY <2>2 DEF DtcExtendedSession
    <3>2. x(reply) \in {"none", "tried", "active"}
      BY DEF StrongerSession
    <3>3. [old EXCEPT !.session = x(reply)] \in Entries
      BY <1>1, <3>2, EntryUpdate
    <3> HIDE DEF x
    <3> QED
      BY <3>1, <3>3
  <2>3. CASE DtcValidate
    <3>1. PICK reply \in Answers :
            entry' = [entry EXCEPT ![Module].tester = Present(reply)]
      BY <2>3 DEF DtcValidate
    <3>2. Present(reply) \in BOOLEAN
      BY DEF Present
    <3>3. [old EXCEPT !.tester = Present(reply)] \in Entries
      BY <1>1, <3>2, EntryUpdate
    <3> QED
      BY <3>1, <3>3
  <2>4. CASE DtcRead
    <3>1. PICK result \in DtcResults :
            entry' = [entry EXCEPT ![Module].dtc = result]
      BY <2>4 DEF DtcRead, DtcResult, DtcResults
    <3>2. [old EXCEPT !.dtc = result] \in Entries
      BY <1>1, EntryUpdate
    <3> QED
      BY <3>1, <3>2
  <2> QED
    BY <2>1, <2>2, <2>3, <2>4
<1> QED
  BY <1>1, <1>2, <1>3, EntryStep

LEMMA DtcRequestKeeps ==
    ASSUME InductiveInvariant,
           CachedIdentity \/ DtcExtendedSession \/ DtcValidate \/ DtcRead
    PROVE  InductiveInvariant'
<1>1. TypeOK /\ ModuleTable /\ Position /\ Configured
  BY DEF InductiveInvariant
<1>2. /\ stage \in DtcRequestStages
      /\ scope' = scope /\ target' = target /\ longTimeout' = longTimeout
      /\ vin' = vin /\ UNCHANGED <<asked, unanswered>> /\ found' = found
      /\ adapter' = adapter /\ fitted' = fitted
      /\ UNCHANGED resumeVars
  BY DEF CachedIdentity, DtcExtendedSession, DtcValidate, DtcRead, AfterModule,
         ModuleRequest, UnchangedByProbe, DtcRequestStages
<1>3. /\ dtcIndex <= Len(found)
      /\ longTimeout = FALSE /\ resumePending = FALSE
  BY <1>1, <1>2 DEF TypeOK, Position, DtcStages, DtcRequestStages,
     ProbeStages, InitStages, Ended
<1>4. TableStep
  BY <1>1, <1>3, DtcEntry
<1>5. heard' \subseteq Routes
  BY <1>1, HearType DEF CachedIdentity, DtcExtendedSession, DtcValidate,
                        DtcRead
<1>6. /\ adapter.formats = {"ATH0", "ATCAF1", "ATCFC1"}
      /\ adapter.protocol = Bus(Module) /\ adapter.header = Module
      /\ adapter.filter = "exact" /\ adapter.receive = Module
      /\ stage # "CACHED_IDENTITY" => adapter.timeout = ScanTimeout
      /\ stage = "CACHED_IDENTITY" => adapter.timeout = "ATST64"
  BY <1>1, <1>2 DEF Configured, DtcStages, DtcRequestStages
<1>7. /\ stage' \in Stages /\ cand' \in Candidates
      /\ kwpCaptured' \in BOOLEAN /\ dtcIndex' \in 1 .. MaxModules + 1
      /\ \/ /\ dtcIndex' = dtcIndex
            /\ \/ stage = "CACHED_IDENTITY" /\ cand'.index <= 2
                  /\ stage' = "CACHED_IDENTITY"
               \/ stage = "CACHED_IDENTITY"
                  /\ stage' = "CACHED_IDENTITY_RESTORE_TIMEOUT"
               \/ stage # "CACHED_IDENTITY"
                  /\ stage' \in {"DTC_VALIDATE", "DTC_READ"}
         \/ /\ stage # "CACHED_IDENTITY" /\ stage' = "DTC_SET_PROTOCOL"
            /\ dtcIndex' <= Len(found)
         \/ stage' = "COMPLETE"
  <2>1. Len(found) \in Nat /\ Len(found) <= MaxModules /\ MaxModules \in Nat
    BY <1>1, FoundType
  <2>2. dtcIndex \in Nat \ {0} /\ dtcIndex \in 1 .. MaxModules + 1
    BY <1>1, <2>1 DEF TypeOK
  <2>3. CASE CachedIdentity
    <3>1. stage = "CACHED_IDENTITY" /\ cand.index \in 0 .. 2
      BY <1>1, <2>3 DEF CachedIdentity, Position, TypeOK, Candidates
    <3>2. cand' = [cand EXCEPT !.index = @ + 1] /\ dtcIndex' = dtcIndex
      BY <2>3 DEF CachedIdentity
    <3>3. cand' \in Candidates /\ cand'.index = cand.index + 1
      BY <1>1, <3>1, <3>2, CandidateUpdate DEF Candidates
    <3>4. kwpCaptured' \in BOOLEAN
      BY <2>3 DEF CachedIdentity
    <3>5. stage' = IF cand.index < 2 THEN stage
                   ELSE "CACHED_IDENTITY_RESTORE_TIMEOUT"
      BY <2>3 DEF CachedIdentity
    <3>6. stage' \in Stages
      BY <3>1, <3>5 DEF Stages, DtcStages, DtcSetupStages, DtcRequestStages
    <3> QED
      BY <2>2, <3>1, <3>2, <3>3, <3>4, <3>5, <3>6
  <2>4. CASE DtcExtendedSession \/ DtcValidate
    <3>1. /\ stage # "CACHED_IDENTITY" /\ dtcIndex' = dtcIndex
          /\ stage' \in {"DTC_VALIDATE", "DTC_READ"}
          /\ cand' = cand /\ kwpCaptured' = kwpCaptured
      BY <2>4 DEF DtcExtendedSession, DtcValidate, ModuleRequest
    <3> QED
      BY <1>1, <2>2, <3>1 DEF TypeOK, Stages, DtcStages, DtcRequestStages
  <2>5. CASE DtcRead
    <3>1. /\ stage # "CACHED_IDENTITY" /\ dtcIndex' = dtcIndex + 1
          /\ stage' = IF single \/ dtcIndex >= Len(found) THEN "COMPLETE"
                      ELSE "DTC_SET_PROTOCOL"
          /\ cand' = cand /\ kwpCaptured' = kwpCaptured
      BY <2>5 DEF DtcRead, AfterModule, ModuleRequest
    <3>2. stage' \in Stages
      BY <3>1 DEF Stages, DtcStages, DtcSetupStages, Ended
    <3>3. dtcIndex' \in 1 .. MaxModules + 1
      BY <1>3, <2>1, <2>2, <3>1
    <3> QED
      BY <1>1, <1>3, <2>1, <2>2, <3>1, <3>2, <3>3 DEF TypeOK
  <2> QED
    BY <2>3, <2>4, <2>5
<1>8. TypeOK' /\ ModuleTable'
  BY <1>1, <1>2, <1>4, <1>5, <1>7 DEF TypeOK, TableStep, resumeVars
<1>9. Position'
  BY <1>1, <1>2, <1>3, <1>7 DEF Position, resumeVars, InitStages,
     RouteSetupStages, ProbeStages, TimeoutStages, DiscoveryStages,
     DtcSetupStages, DtcRequestStages, DtcStages, Ended
<1>10. Configured'
  <2>1. ScanTimeout' = ScanTimeout
    BY <1>2 DEF ScanTimeout
  <2>2. CASE stage' \in {"DTC_SET_PROTOCOL", "COMPLETE"}
    BY <1>2, <1>6, <1>7, <2>1, <2>2
       DEF Configured, InitStages, RouteSetupStages,
           ProbeStages, TimeoutStages, DiscoveryStages, DtcSetupStages,
           DtcRequestStages, DtcStages
  <2>3. CASE stage' \notin {"DTC_SET_PROTOCOL", "COMPLETE"}
    <3>1. Module' = Module /\ Bus(Module)' = Bus(Module)
      BY <1>2, <1>7, <2>3 DEF Module, Bus
    <3> QED
      BY <1>2, <1>6, <1>7, <2>1, <2>3, <3>1
         DEF Configured, InitStages, RouteSetupStages,
             ProbeStages, TimeoutStages, DiscoveryStages, DtcSetupStages,
             DtcRequestStages, DtcStages
  <2> QED
    BY <2>2, <2>3
<1> QED
  BY <1>8, <1>9, <1>10 DEF InductiveInvariant
-----------------------------------------------------------------------------
(* Failure, interruption and the late probe *)

LEMMA RejectionKeeps ==
    ASSUME InductiveInvariant, AdapterRejects
    PROVE  InductiveInvariant'
<1>1. TypeOK /\ ModuleTable /\ Position /\ Configured
  BY DEF InductiveInvariant
<1>2. /\ stage' = "FAILED"
      /\ UNCHANGED <<scope, routeVars, vin, moduleVars, dtcIndex, resumeVars,
                     adapter, fitted, heard, asked, unanswered>>
  BY DEF AdapterRejects
<1>3. TypeOK' /\ ModuleTable'
  <2>1. adapter' \in Adapters /\ stage' \in Stages
    BY <1>1, <1>2 DEF TypeOK, Stages, Ended
  <2> QED
    BY <1>1, <1>2, <2>1, SetupTypes
<1>4. Position'
  BY <1>1, <1>2 DEF Position, InitStages, RouteSetupStages, ProbeStages,
     TimeoutStages, DiscoveryStages, DtcSetupStages, DtcRequestStages,
     DtcStages, Ended
<1>5. Configured'
  BY <1>2 DEF Configured, InitStages, RouteSetupStages, ProbeStages,
     TimeoutStages, DiscoveryStages, DtcSetupStages, DtcRequestStages,
     DtcStages
<1> QED
  BY <1>3, <1>4, <1>5 DEF InductiveInvariant

\* A resumed scan replays the adapter setup from nothing, so the invariant
\* only has to know where the setup leads.
LEMMA ReplayKeeps ==
    ASSUME TypeOK, ModuleTable, stage' = "INIT_PROTOCOL_11" \/ stage' \in Ended,
           found' \in Seq(Routes), Len(found') <= MaxModules,
           entry' \in [Routes -> Entries], ModuleTable',
           truncated' = truncated, kwpCaptured' = kwpCaptured, vin' = vin,
           fitted' = fitted, heard' = heard, asked' = asked,
           unanswered' = unanswered,
           longTimeout' = FALSE, adapter' \in Adapters,
           cand' \in Candidates, target' \in Nat \ {0},
           scope' \in Scopes \cup {"CACHED"},
           scope' # "CACHED" => target' \in DOMAIN Plan[scope'],
           dtcIndex' \in 1 .. MaxModules + 1,
           resumePending' \in BOOLEAN, single' \in BOOLEAN,
           resumeStage' \in Stages, recoveries' \in 0 .. MaxRecoveries,
           recovered' \in Routes \cup {NoRoute},
           stage' = "INIT_PROTOCOL_11" =>
              \/ AfterInit' = "DTC_SET_PROTOCOL" /\ dtcIndex' <= Len(found')
              \/ /\ scope' # "CACHED"
                 /\ AfterInit' = "SWITCH_PROTOCOL_29"
                 /\ Route[Candidate'].extended
              \/ /\ scope' # "CACHED"
                 /\ AfterInit' = "DISCOVERY_SET_HEADER"
                 /\ ~Route[Candidate'].extended
    PROVE  InductiveInvariant'
<1>1. stage' \in {"INIT_PROTOCOL_11", "COMPLETE", "FAILED"}
  BY DEF Ended
<1>2. TypeOK'
  <2>1. stage' \in Stages
    BY <1>1 DEF Stages, InitStages, Ended
  <2> QED
    BY <2>1 DEF TypeOK
<1>3. Position'
  BY <1>1 DEF Position, InitStages, RouteSetupStages, ProbeStages,
     TimeoutStages, DiscoveryStages, DtcSetupStages, DtcRequestStages,
     DtcStages, Ended
<1>4. Configured'
  BY <1>1 DEF Configured, InitStages, RouteSetupStages, ProbeStages,
     TimeoutStages, DiscoveryStages, DtcSetupStages, DtcRequestStages,
     DtcStages
<1> QED
  BY <1>2, <1>3, <1>4 DEF InductiveInvariant

LEMMA InterruptionKeeps ==
    ASSUME InductiveInvariant, Interruption
    PROVE  InductiveInvariant'
<1>1. TypeOK /\ ModuleTable /\ Position
  BY DEF InductiveInvariant
<1>2. CanResume /\ Interrupted
  BY DEF Interruption, RetryRoute, SkipModule, SkipRoute
<1>3. /\ found' = found /\ entry' = entry /\ truncated' = truncated
      /\ scope' = scope /\ kwpCaptured' = kwpCaptured /\ vin' = vin
      /\ fitted' = fitted /\ heard' = heard /\ UNCHANGED <<asked, unanswered>>
      /\ longTimeout' = FALSE /\ adapter' \in Adapters
      /\ single' = single
      /\ recoveries' = recoveries + 1
      /\ recovered' = InterruptedRoute
  BY <1>2 DEF Interrupted, moduleVars, Unconfigured, Adapters
<1>4. /\ recoveries' \in 0 .. MaxRecoveries
      /\ Len(found) \in Nat /\ Len(found) <= MaxModules
      /\ MaxModules \in Nat
      /\ dtcIndex \in Nat \ {0}
  <2>1. MaxRecoveries \in Nat /\ MaxModules \in Nat /\ Len(found) \in Nat
    BY <1>1, ConstantsAssumption, FoundType
  <2> QED
    BY <1>1, <1>2, <1>3, <2>1 DEF CanResume, TypeOK
<1>5. InFaultPass => dtcIndex <= Len(found)
  BY <1>2 DEF CanResume
<1>6. ~InFaultPass => scope # "CACHED"
  BY DEF InFaultPass
<1>7. recovered' \in Routes
  BY <1>1, <1>3, <1>5, <1>6, ModuleType, CandidateType DEF InterruptedRoute
<1>8. Restarted(cand) \in Candidates
  BY <1>1, CandidateUpdate
<1>9. CASE RetryRoute
  <2>1. /\ ResumeAt(IF InFaultPass THEN "DTC_SET_PROTOCOL"
                    ELSE RouteStart(Candidate))
        /\ cand' = Restarted(cand)
        /\ UNCHANGED <<target, dtcIndex>>
    BY <1>9 DEF RetryRoute
  <2>2. /\ stage' = "INIT_PROTOCOL_11" /\ resumePending' = TRUE
        /\ Candidate' = Candidate
        /\ AfterInit' = resumeStage'
    BY <1>3, <2>1 DEF ResumeAt, Candidate, AfterInit
  <2>3. \/ resumeStage' = "DTC_SET_PROTOCOL" /\ dtcIndex <= Len(found)
        \/ /\ scope # "CACHED"
           /\ resumeStage' = "SWITCH_PROTOCOL_29"
           /\ Route[Candidate].extended
        \/ /\ scope # "CACHED"
           /\ resumeStage' = "DISCOVERY_SET_HEADER"
           /\ ~Route[Candidate].extended
    BY <1>5, <1>6, <2>1 DEF ResumeAt, RouteStart
  <2>4. resumeStage' \in Stages
    BY <2>3 DEF Stages, DtcStages, DtcSetupStages, DiscoveryStages,
                RouteSetupStages
  <2> QED
    BY <1>1, <1>3, <1>4, <1>7, <1>8, <2>1, <2>2, <2>3, <2>4, ReplayKeeps
       DEF TypeOK, ModuleTable
<1>10. CASE SkipModule
  <2>1. /\ InFaultPass
        /\ dtcIndex' = dtcIndex + 1
        /\ IF single \/ dtcIndex >= Len(found) THEN GiveUp
           ELSE ResumeAt("DTC_SET_PROTOCOL")
        /\ cand' = Restarted(cand) /\ target' = target
    BY <1>10 DEF SkipModule
  <2>2. dtcIndex' \in 1 .. MaxModules + 1
    BY <1>4, <1>5, <2>1
  <2>3. CASE single \/ dtcIndex >= Len(found)
    <3>1. /\ stage' = "COMPLETE" /\ resumePending' = resumePending
          /\ resumeStage' = resumeStage
      BY <2>1, <2>3 DEF GiveUp
    <3> QED
      BY <1>1, <1>3, <1>4, <1>7, <1>8, <2>1, <2>2, <3>1, ReplayKeeps
         DEF TypeOK, ModuleTable, Ended
  <2>4. CASE ~(single \/ dtcIndex >= Len(found))
    <3>1. /\ stage' = "INIT_PROTOCOL_11" /\ resumePending' = TRUE
          /\ resumeStage' = "DTC_SET_PROTOCOL"
      BY <2>1, <2>4 DEF ResumeAt
    <3>2. AfterInit' = "DTC_SET_PROTOCOL" /\ dtcIndex' <= Len(found')
      BY <1>3, <1>4, <2>1, <2>4, <3>1 DEF AfterInit
    <3>3. resumeStage' \in Stages
      BY <3>1 DEF Stages, DtcStages, DtcSetupStages
    <3> QED
      BY <1>1, <1>3, <1>4, <1>7, <1>8, <2>1, <2>2, <3>1, <3>2, <3>3,
         ReplayKeeps DEF TypeOK, ModuleTable
  <2> QED
    BY <2>3, <2>4
<1>11. CASE SkipRoute
  <2>1. ~InFaultPass /\ scope # "CACHED"
    BY <1>6, <1>11 DEF SkipRoute
  <2>2. CASE target < Len(Plan[scope])
    <3> DEFINE next == Plan[scope][target + 1]
    <3>1. /\ target' = target + 1
          /\ cand' = FreshCandidate(next)
          /\ ResumeAt(RouteStart(next))
          /\ dtcIndex' = dtcIndex
      BY <1>11, <2>2 DEF SkipRoute, HasNextRoute
    <3>2. target + 1 \in DOMAIN Plan[scope] /\ next \in Routes
      BY <1>1, <2>1, <2>2, NextInPlan
    <3>3. FreshCandidate(next) \in Candidates /\ target' \in Nat \ {0}
      BY <1>1, <3>1, <3>2, FreshCandidateType DEF TypeOK
    <3>4. /\ stage' = "INIT_PROTOCOL_11" /\ resumePending' = TRUE
          /\ Candidate' = next
          /\ AfterInit' = RouteStart(next)
      BY <1>3, <3>1 DEF ResumeAt, Candidate, AfterInit
    <3>5. \/ /\ RouteStart(next) = "SWITCH_PROTOCOL_29"
             /\ Route[next].extended
          \/ /\ RouteStart(next) = "DISCOVERY_SET_HEADER"
             /\ ~Route[next].extended
      BY DEF RouteStart
    <3>6. resumeStage' \in Stages
      BY <3>1, <3>5
         DEF ResumeAt, Stages, DiscoveryStages, RouteSetupStages
    <3> HIDE DEF next
    <3> QED
      BY <1>1, <1>3, <1>4, <1>7, <2>1, <3>1, <3>2, <3>3, <3>4, <3>5, <3>6,
         ReplayKeeps DEF TypeOK, ModuleTable
  <2>3. CASE ~(target < Len(Plan[scope]))
    <3>1. /\ dtcIndex' = 1 /\ cand' = Restarted(cand) /\ target' = target
          /\ IF \E r \in Found : entry[r].dtc = "not attempted"
             THEN ResumeAt("DTC_SET_PROTOCOL") ELSE GiveUp
      BY <1>11, <2>3 DEF SkipRoute, HasNextRoute
    <3>2. dtcIndex' \in 1 .. MaxModules + 1
      <4>1. dtcIndex' = 1
        BY <3>1
      <4> QED
        BY <1>4, <4>1
    <3>3. CASE \E r \in Found : entry[r].dtc = "not attempted"
      <4>1. /\ stage' = "INIT_PROTOCOL_11" /\ resumePending' = TRUE
            /\ resumeStage' = "DTC_SET_PROTOCOL"
        BY <3>1, <3>3 DEF ResumeAt
      <4>2. Len(found) >= 1
        <5>1. PICK i \in DOMAIN found : TRUE
          BY <3>3 DEF Found
        <5>2. i \in 1 .. Len(found)
          BY <1>1, <5>1, FoundType
        <5> QED
          BY <1>4, <5>2
      <4>3. AfterInit' = "DTC_SET_PROTOCOL" /\ dtcIndex' <= Len(found')
        BY <1>3, <3>1, <4>1, <4>2 DEF AfterInit
      <4>4. resumeStage' \in Stages
        BY <4>1 DEF Stages, DtcStages, DtcSetupStages
      <4> QED
        BY <1>1, <1>3, <1>4, <1>7, <1>8, <3>1, <3>2, <4>1, <4>3, <4>4,
           ReplayKeeps DEF TypeOK, ModuleTable
    <3>4. CASE ~ \E r \in Found : entry[r].dtc = "not attempted"
      <4>1. /\ stage' = "COMPLETE" /\ resumePending' = resumePending
            /\ resumeStage' = resumeStage
        BY <3>1, <3>4 DEF GiveUp
      <4> QED
        BY <1>1, <1>3, <1>4, <1>7, <1>8, <3>1, <3>2, <4>1, ReplayKeeps
           DEF TypeOK, ModuleTable, Ended
    <3> QED
      BY <3>3, <3>4
  <2> QED
    BY <2>2, <2>3
<1> QED
  BY <1>9, <1>10, <1>11 DEF Interruption

LEMMA LateTransmissionKeeps ==
    ASSUME InductiveInvariant, BeginLateTransmission
    PROVE  InductiveInvariant'
<1>1. TypeOK /\ ModuleTable
  BY DEF InductiveInvariant
<1>2. Transmission \in Routes
  BY ConstantsAssumption DEF BeginLateTransmission
<1>3. /\ stage' = "INIT_PROTOCOL_11" /\ scope' = "CACHED"
      /\ single' = TRUE /\ resumePending' = FALSE /\ longTimeout' = FALSE
      /\ cand' = Restarted(cand)
      /\ dtcIndex' = CHOOSE i \in DOMAIN found' : found'[i] = Transmission
      /\ UNCHANGED <<target, kwpCaptured, vin, truncated, resumeStage,
                     recoveries, recovered, adapter, fitted, heard, asked, unanswered>>
  BY DEF BeginLateTransmission
<1>4. BlankEntry("KWP") \in Entries
  BY BlankEntryType DEF Protocols
<1>5. TableStep /\ \E i \in DOMAIN found' : found'[i] = Transmission
  <2>1. CASE Transmission \in Found
    <3>1. found' = found /\ entry' = entry
      BY <2>1 DEF BeginLateTransmission
    <3>2. TableStep
      BY <1>1, <1>3, <3>1, TableUnchanged DEF TypeOK
    <3> QED
      BY <2>1, <3>1, <3>2 DEF Found
  <2>2. CASE Transmission \notin Found
    <3>1. /\ found' = Append(found, Transmission)
          /\ entry' = [entry EXCEPT ![Transmission] = BlankEntry("KWP")]
          /\ Len(found) < MaxModules
      BY <2>2 DEF BeginLateTransmission
    <3>2. entry' \in [Routes -> Entries]
      BY <1>1, <1>4, <3>1 DEF TypeOK
    <3>3. TableStep
      BY <1>1, <1>2, <1>3, <2>2, <3>1, <3>2, AppendKeepsTable
    <3>4. /\ Len(found) + 1 \in DOMAIN found'
          /\ found'[Len(found) + 1] = Transmission
      BY <1>1, <1>2, <3>1 DEF TypeOK
    <3> QED
      BY <3>3, <3>4
  <2> QED
    BY <2>1, <2>2
<1>6. dtcIndex' \in DOMAIN found'
  BY <1>3, <1>5
<1>7. /\ dtcIndex' <= Len(found') /\ dtcIndex' \in 1 .. MaxModules + 1
  <2>1. /\ MaxModules \in Nat /\ Len(found') \in Nat
        /\ Len(found') <= MaxModules
        /\ DOMAIN found' = 1 .. Len(found')
    BY <1>5, ConstantsAssumption DEF TableStep
  <2> QED
    BY <1>6, <2>1
<1>8. AfterInit' = "DTC_SET_PROTOCOL"
  BY <1>3 DEF AfterInit
<1>9. cand' \in Candidates
  BY <1>1, <1>3, CandidateUpdate
<1> QED
  BY <1>1, <1>3, <1>5, <1>7, <1>8, <1>9, ReplayKeeps DEF TypeOK, TableStep
-----------------------------------------------------------------------------
(* The theorems *)

LEMMA InitEstablishes ==
    ASSUME Init
    PROVE  InductiveInvariant
<1>1. /\ stage = "INIT_PROTOCOL_11" /\ target = 1 /\ dtcIndex = 1
      /\ kwpCaptured = FALSE /\ longTimeout = FALSE /\ vin = NoRoute
      /\ truncated = FALSE /\ resumePending = FALSE
      /\ resumeStage = "INIT_PROTOCOL_11"
      /\ recoveries = 0 /\ recovered = NoRoute /\ single = FALSE
      /\ adapter = Unconfigured
      /\ fitted \in SUBSET Reachable /\ heard = {} /\ asked = {}
      /\ unanswered = {}
  BY DEF Init
<1>2. MaxModules \in Nat \ {0} /\ MaxRecoveries \in Nat
  BY ConstantsAssumption
<1>3. /\ stage \in Stages /\ resumeStage \in Stages
      /\ adapter \in Adapters
      /\ target \in Nat \ {0}
      /\ recoveries \in 0 .. MaxRecoveries
      /\ dtcIndex \in 1 .. MaxModules + 1
  BY <1>1, <1>2 DEF Stages, InitStages, Adapters, Unconfigured
<1>4. CASE BeginDiscovery
  <2>1. /\ scope \in Scopes \ {"CACHED"} /\ scope \in AllScopes \ {"CACHED"}
    BY <1>4, ConstantsAssumption DEF BeginDiscovery
  <2>2. /\ Plan[scope] \in Seq(Routes) /\ 1 \in DOMAIN Plan[scope]
        /\ ~Route[Plan[scope][1]].extended
        /\ Plan[scope][1] \in Routes
    BY <2>1, PlanType
  <2>3. cand \in Candidates
    BY <1>4, <2>2, FreshCandidateType DEF BeginDiscovery
  <2>4. found = <<>> /\ found \in Seq(Routes) /\ Len(found) = 0
    BY <1>4 DEF BeginDiscovery
  <2>5. entry \in [Routes -> Entries]
    BY <1>4, BlankEntryType DEF BeginDiscovery, Protocols
  <2>6. Reachable \subseteq Routes
    BY <2>1, <2>2, ConstantsAssumption DEF Reachable, PlannedRoutes
  <2>7. TypeOK
    <3>1. /\ scope \in Scopes \cup {"CACHED"}
          /\ target \in DOMAIN Plan[scope]
      BY <1>1, <2>1, <2>2
    <3>2. found \in Seq(Routes) /\ Len(found) <= MaxModules
      BY <1>2, <2>4
    <3>3. fitted \subseteq Routes /\ heard \subseteq Routes
          /\ asked \subseteq Routes \X Protocols /\ unanswered \subseteq Routes
      BY <1>1, <2>6
    <3>4. /\ kwpCaptured \in BOOLEAN /\ longTimeout \in BOOLEAN
          /\ truncated \in BOOLEAN
          /\ resumePending \in BOOLEAN /\ single \in BOOLEAN
          /\ vin \in Routes \cup {NoRoute}
          /\ recovered \in Routes \cup {NoRoute}
      BY <1>1
    <3> QED
      BY <1>3, <2>3, <2>5, <3>1, <3>2, <3>3, <3>4 DEF TypeOK
  <2>8. ModuleTable
    BY <1>1, <1>2, <2>4 DEF ModuleTable
  <2>9. Position
    BY <1>1, <2>1, <2>2 DEF Position, AfterInit, Candidate, InitStages,
       RouteSetupStages, ProbeStages, TimeoutStages, DiscoveryStages,
       DtcSetupStages, DtcRequestStages, DtcStages, Ended
  <2>10. Configured
    BY <1>1 DEF Configured, InitStages, RouteSetupStages, ProbeStages,
       TimeoutStages, DiscoveryStages, DtcSetupStages, DtcRequestStages,
       DtcStages
  <2> QED
    BY <2>7, <2>8, <2>9, <2>10 DEF InductiveInvariant
<1>5. CASE BeginCached
  <2>1. scope = "CACHED" /\ cand = NoCandidate /\ found = Saved
    BY <1>5 DEF BeginCached
  <2>2. cand \in Candidates
    BY <2>1 DEF NoCandidate, Candidates, Protocols
  <2>3. /\ Saved \in Seq(Routes) /\ Saved # <<>>
        /\ Len(Saved) <= MaxModules
        /\ \A i, j \in DOMAIN Saved : Saved[i] = Saved[j] => i = j
    BY ConstantsAssumption
  <2>4. Len(found) >= 1
    BY <2>1, <2>3
  <2>5. entry \in [Routes -> Entries]
    <3>1. PICK protocol \in [Routes -> Protocols], identified \in SUBSET Found,
               resolved \in SUBSET FamilyRoutes :
            entry = SavedEntry(protocol, identified, resolved)
      BY <1>5 DEF BeginCached
    <3> DEFINE e(r) == [BlankEntry(protocol[r]) EXCEPT
                          !.identity = IF r \in identified THEN "saved"
                                                          ELSE "none",
                          !.family = r \in resolved]
    <3>2. ASSUME NEW r \in Routes
          PROVE  e(r) \in Entries
      <4>1. BlankEntry(protocol[r]) \in Entries
        BY BlankEntryType
      <4>2. [BlankEntry(protocol[r]) EXCEPT
               !.identity = IF r \in identified THEN "saved" ELSE "none"]
               \in Entries
        BY <4>1, EntryUpdate
      <4>3. (r \in resolved) \in BOOLEAN
        OBVIOUS
      <4> QED
        BY <4>2, <4>3, EntryUpdate
    <3>3. ASSUME NEW r \in Routes
          PROVE  [e(r) EXCEPT !.protocol = EntryProtocol(r, e(r))] \in Entries
      <4>1. EntryProtocol(r, e(r)) \in Protocols
        BY <3>2, EntryProtocolType
      <4> HIDE DEF e
      <4> QED
        BY <3>2, <4>1, EntryUpdate
    <3>4. entry = [r \in Routes |->
                     [e(r) EXCEPT !.protocol = EntryProtocol(r, e(r))]]
      BY <3>1 DEF SavedEntry
    <3> HIDE DEF e
    <3> QED
      BY <3>3, <3>4
  <2>6. Reachable \subseteq Routes
    BY <2>1, <2>3, ConstantsAssumption DEF Reachable, Found
  <2>7. TypeOK
    BY <1>1, <1>2, <1>3, <2>1, <2>2, <2>3, <2>5, <2>6 DEF TypeOK
  <2>8. ModuleTable
    BY <1>1, <2>1, <2>3 DEF ModuleTable
  <2>9. Position
    BY <1>1, <2>1, <2>4 DEF Position, AfterInit, InitStages,
       RouteSetupStages, ProbeStages, TimeoutStages, DiscoveryStages,
       DtcSetupStages, DtcRequestStages, DtcStages, Ended
  <2>10. Configured
    BY <1>1 DEF Configured, InitStages, RouteSetupStages, ProbeStages,
       TimeoutStages, DiscoveryStages, DtcSetupStages, DtcRequestStages,
       DtcStages
  <2> QED
    BY <2>7, <2>8, <2>9, <2>10 DEF InductiveInvariant
<1> QED
  BY <1>4, <1>5 DEF Init

LEMMA StutterKeeps ==
    ASSUME InductiveInvariant, UNCHANGED vars
    PROVE  InductiveInvariant'
<1>1. TypeOK'
  BY DEF InductiveInvariant, TypeOK, vars, routeVars, moduleVars, resumeVars
<1>2. ModuleTable'
  BY DEF InductiveInvariant, ModuleTable, vars, moduleVars
<1>3. Position'
  BY DEF InductiveInvariant, Position, AfterInit, Candidate, vars, routeVars,
         moduleVars, resumeVars
<1>4. Configured'
  BY DEF InductiveInvariant, Configured, Bus, ScanTimeout, Unlocked, Sweeping,
         Locked, UsesTargetPlan, Candidate, Module, vars, routeVars,
         moduleVars
<1> QED
  BY <1>1, <1>2, <1>3, <1>4 DEF InductiveInvariant

\* The inductive invariant holds of every reachable state: what each stage may
\* rely on is what the stages before it have established.
THEOREM InductiveInvariantHolds == Spec => []InductiveInvariant
<1>1. Init => InductiveInvariant
  BY InitEstablishes
<1>2. InductiveInvariant /\ [Next]_vars => InductiveInvariant'
  <2> SUFFICES ASSUME InductiveInvariant, [Next]_vars
               PROVE  InductiveInvariant'
    OBVIOUS
  <2>1. CASE Probe
    BY <2>1, ProbeKeeps
  <2>2. CASE \/ InitProtocol11 \/ InitHeaders \/ InitAutoFormat
             \/ InitFlowControl \/ InitTimeout
    BY <2>2, InitCommandKeeps, InitTimeoutKeeps
  <2>3. CASE \/ SwitchProtocol29 \/ SwitchHeadersOff29 \/ SetHeader
             \/ ResetReceive \/ SetFilter
    BY <2>3, RouteCommandKeeps
  <2>4. CASE SetMask \/ SetReceive \/ SetReceiveForSession \/ VinSetTimeout
    BY <2>4, RouteReadyKeeps
  <2>5. CASE RestoreTimeout
    BY <2>5, RestoreTimeoutKeeps
  <2>6. CASE \/ DtcSetProtocol \/ DtcSetHeader
             \/ DtcSetReceive \/ DtcSetReceiveForIdentity
             \/ CachedIdentitySetTimeout \/ CachedIdentityRestoreTimeout
    BY <2>6, DtcCommandKeeps
  <2>7. CASE CachedIdentity \/ DtcExtendedSession \/ DtcValidate \/ DtcRead
    BY <2>7, DtcRequestKeeps
  <2>8. CASE AdapterRejects
    BY <2>8, RejectionKeeps
  <2>9. CASE Interruption
    BY <2>9, InterruptionKeeps
  <2>10. CASE BeginLateTransmission
    BY <2>10, LateTransmissionKeeps
  <2>11. CASE Rest \/ UNCHANGED vars
    BY <2>11, StutterKeeps DEF Rest
  <2> QED
    BY <2>1, <2>2, <2>3, <2>4, <2>5, <2>6, <2>7, <2>8, <2>9, <2>10, <2>11
       DEF Next, Step, Probe
<1> QED
  BY <1>1, <1>2, PTL DEF Spec

\* The state of a scan is well typed; in particular the fault pass never runs
\* past the table it indexes by more than the one slot that ends it.
THEOREM TypeCorrect == Spec => []TypeOK
<1>1. InductiveInvariant => TypeOK
  BY DEF InductiveInvariant
<1> QED
  BY <1>1, InductiveInvariantHolds, PTL

\* The module table holds no route twice, stays within its capacity and is
\* reported truncated only when it is full.
THEOREM ModuleTableSound == Spec => []ModuleTable
<1>1. InductiveInvariant => ModuleTable
  BY DEF InductiveInvariant
<1> QED
  BY <1>1, InductiveInvariantHolds, PTL

\* Every request to an ECU goes out through an adapter that is configured for
\* exactly that ECU.
THEOREM AdapterAgrees == Spec => []AdapterAgreement
<1>1. InductiveInvariant => AdapterAgreement
  <2> SUFFICES ASSUME InductiveInvariant PROVE AdapterAgreement
    OBVIOUS
  <2>1. Position /\ Configured
    BY DEF InductiveInvariant
  <2>2. ASSUME stage \in ProbeStages
        PROVE  /\ Serves(Candidate, Unlocked)
               /\ adapter.timeout
                     = IF longTimeout THEN "ATSTFF" ELSE ScanTimeout
    BY <2>1, <2>2 DEF Configured, DiscoveryStages, ProbeStages, Serves, Tuned
  <2>3. ASSUME stage \in DtcRequestStages
        PROVE  /\ dtcIndex <= Len(found)
               /\ Serves(Module, FALSE)
               /\ adapter.timeout = IF stage = "CACHED_IDENTITY"
                                    THEN "ATST64" ELSE ScanTimeout
    BY <2>1, <2>3 DEF Position, Configured, DtcStages, DtcRequestStages,
                      Serves, Tuned
  <2> QED
    BY <2>2, <2>3 DEF AdapterAgreement
<1> QED
  BY <1>1, InductiveInvariantHolds, PTL
=============================================================================
