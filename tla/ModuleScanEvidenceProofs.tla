---------------------- MODULE ModuleScanEvidenceProofs ----------------------
(***************************************************************************)
(* Proofs about what a module scan has heard and recorded: of whom every   *)
(* piece of evidence is, that no ECU that answers is lost and none that is *)
(* absent is recorded, and that identity comes first.  They rest on        *)
(* ModuleScanProofs: the adapter addresses the ECU the stage is about.     *)
(***************************************************************************)
EXTENDS ModuleScanProofs
-----------------------------------------------------------------------------
(* Replies and whom they come from *)

LEMMA ProbeAddresses ==
    ASSUME InductiveInvariant, stage \in ProbeStages
    PROVE  /\ adapter.header = Candidate /\ Candidate \in Routes
           /\ scope # "CACHED" /\ stage \in DiscoveryStages
<1>1. stage \in DiscoveryStages /\ scope # "CACHED"
  BY DEF InductiveInvariant, Position, DiscoveryStages
<1>2. adapter.header = Candidate
  BY DEF InductiveInvariant, Configured
<1> QED
  BY <1>1, <1>2, CandidateType DEF InductiveInvariant

LEMMA FaultPassAddresses ==
    ASSUME InductiveInvariant, stage \in DtcRequestStages
    PROVE  adapter.header = Module /\ Module \in Found /\ Module \in Routes
<1>1. stage \in DtcStages /\ dtcIndex <= Len(found)
  BY DEF InductiveInvariant, Position, DtcStages
<1>2. adapter.header = Module
  BY DEF InductiveInvariant, Configured, DtcStages, DtcRequestStages
<1>3. Module \in Found
  BY <1>1, FoundType DEF InductiveInvariant, TypeOK, Module, Found
<1> QED
  BY <1>1, <1>2, <1>3, ModuleType DEF InductiveInvariant

LEMMA HeardIsAddressed ==
    ASSUME NEW reply, Hear(reply)
    PROVE  /\ heard \subseteq heard' /\ heard' \subseteq heard \cup {adapter.header}
           /\ reply \in {"positive", "negative"} => adapter.header \in heard'
           /\ reply \notin {"positive", "negative"} => heard' = heard
BY DEF Hear

\* Who may answer: an ECU that is there, or the gateway for one that is not.
LEMMA AnswersAreOf ==
    ASSUME NEW reply \in Answers
    PROVE  /\ reply \in {"positive", "negative"} => adapter.header \in fitted
           /\ reply = "gateway" => adapter.header \in GatewayAnswers
BY DEF Answers

-----------------------------------------------------------------------------
(* What a request to the candidate adds to its entry *)

\* An entry that says its ECU returned something.
Shows(e) == e.identity = "read" \/ e.session = "active" \/ e.dtc = "available"

\* The candidate's entry may come to show what the reply or its session shows,
\* and a fault result it holds is not lost.
Justified(e, reply) ==
    /\ Shows(e) => \/ reply = "positive" \/ cand.session = "active"
                   \/ Shows(entry[Candidate])
    /\ e.identity = "saved" => entry[Candidate].identity = "saved"
    /\ Candidate \in Found /\ e.dtc = "not attempted"
          => entry[Candidate].dtc = "not attempted"

TableChange(reply) ==
    \/ UNCHANGED moduleVars
    \/ \E e \in Entries :
        /\ Justified(e, reply)
        /\ \/ Record(e)
           \/ entry' = [entry EXCEPT ![Candidate] = e] /\ UNCHANGED <<found, truncated>>

\* The candidate has an entry, or the table is full and says so.
Accounted == Candidate \in Found' \/ truncated'

LEMMA RecordedIsAccounted ==
    ASSUME TypeOK, scope # "CACHED", NEW e, Record(e)
    PROVE  Accounted
<1>1. Candidate \in Routes
  BY CandidateType
<1>2. CASE Candidate \in Found
  <2>1. found' = found \/ truncated'
    BY <1>2 DEF Record
  <2> QED
    BY <1>2, <2>1 DEF Accounted, Found
<1>3. CASE Candidate \notin Found /\ HasRoom
  <2>1. found' = Append(found, Candidate) /\ found \in Seq(Routes)
    BY <1>3 DEF Record, TypeOK
  <2>2. /\ Len(found) + 1 \in DOMAIN found'
        /\ found'[Len(found) + 1] = Candidate
    BY <1>1, <2>1
  <2>3. Candidate \in Found'
    BY <2>2 DEF Found
  <2> QED
    BY <2>3 DEF Accounted
<1>4. CASE ~HasRoom
  BY <1>4 DEF Record, Accounted
<1> QED
  BY <1>2, <1>3, <1>4

\* A change of the table touches the candidate only and forgets nothing.
LEMMA TableChangeIsLocal ==
    ASSUME TypeOK, scope # "CACHED", NEW reply, TableChange(reply)
    PROVE  /\ \A r \in Routes \ {Candidate} : entry'[r] = entry[r]
           /\ entry'[Candidate] = entry[Candidate] \/ Justified(entry'[Candidate], reply)
           /\ Found \subseteq Found' /\ Found' \subseteq Found \cup {Candidate}
           /\ \/ found' = found
              \/ Candidate \notin Found /\ found' = Append(found, Candidate)
           /\ truncated => truncated'
<1>1. Candidate \in Routes /\ entry \in [Routes -> Entries] /\ found \in Seq(Routes)
  BY CandidateType DEF TypeOK
<1>2. CASE UNCHANGED moduleVars
  BY <1>2 DEF moduleVars, Found
<1>3. ASSUME NEW e \in Entries, Justified(e, reply),
             entry' = [entry EXCEPT ![Candidate] = e], UNCHANGED <<found, truncated>>
      PROVE  /\ \A r \in Routes \ {Candidate} : entry'[r] = entry[r]
             /\ Justified(entry'[Candidate], reply) /\ Found' = Found
             /\ truncated => truncated'
  BY <1>1, <1>3 DEF Found
<1>4. ASSUME NEW e \in Entries, Justified(e, reply), Record(e), HasRoom
      PROVE  /\ \A r \in Routes \ {Candidate} : entry'[r] = entry[r]
             /\ Justified(entry'[Candidate], reply)
             /\ Found \subseteq Found' /\ Found' \subseteq Found \cup {Candidate}
             /\ \/ found' = found
                \/ Candidate \notin Found /\ found' = Append(found, Candidate)
             /\ truncated => truncated'
  <2>1. /\ entry' = [entry EXCEPT ![Candidate] = e] /\ truncated' = truncated
        /\ \/ found' = found
           \/ Candidate \notin Found /\ found' = Append(found, Candidate)
    BY <1>4 DEF Record
  <2>2. Found \subseteq Found' /\ Found' \subseteq Found \cup {Candidate}
    <3>1. CASE found' = found
      BY <3>1 DEF Found
    <3>2. CASE found' = Append(found, Candidate)
      <4>1. /\ DOMAIN found' = 1 .. Len(found) + 1 /\ DOMAIN found = 1 .. Len(found)
            /\ \A i \in 1 .. Len(found) : found'[i] = found[i]
            /\ found'[Len(found) + 1] = Candidate /\ Len(found) \in Nat
        BY <1>1, <3>2
      <4> QED
        BY <4>1 DEF Found
    <3> QED
      BY <2>1, <3>1, <3>2
  <2> QED
    BY <1>1, <1>4, <2>1, <2>2
<1>5. ASSUME NEW e, Record(e), ~HasRoom
      PROVE  found' = found /\ entry' = entry /\ truncated'
  BY <1>5 DEF Record
<1> QED
  BY <1>2, <1>3, <1>4, <1>5 DEF TableChange, Found

\* What record_module itself puts in the entry.
LEMMA RecordedShows ==
    ASSUME TypeOK, scope # "CACHED", NEW tester \in BOOLEAN,
           NEW session \in {"none", "tried", "active"}
    PROVE  LET e == RecordedEntry(tester, session) IN
           /\ e \in Entries
           /\ e.identity \in {"none", entry[Candidate].identity}
           /\ e.dtc \in {"not attempted", entry[Candidate].dtc}
           /\ Candidate \in Found => e.dtc = entry[Candidate].dtc
           /\ e.session = "active" =>
                session = "active" \/ entry[Candidate].session = "active"
<1> DEFINE e == RecordedEntry(tester, session)
<1>1. e \in Entries /\ entry[Candidate] \in Entries
  BY RecordedEntryType, CandidateType DEF TypeOK
<1>2. CASE Candidate \in Found
  <2>1. e = [entry[Candidate] EXCEPT
               !.tester = entry[Candidate].tester \/ tester,
               !.session = StrongerSession(entry[Candidate].session, session)]
    BY <1>2 DEF RecordedEntry
  <2>2. /\ e.identity = entry[Candidate].identity /\ e.dtc = entry[Candidate].dtc
        /\ e.session = StrongerSession(entry[Candidate].session, session)
    BY <1>1, <2>1 DEF Entries
  <2> QED
    BY <1>1, <2>2 DEF StrongerSession
<1>3. CASE Candidate \notin Found
  BY <1>1, <1>3 DEF RecordedEntry, BlankEntry
<1> QED
  BY <1>2, <1>3

\* Recording with the candidate's own session is justified by any reply.
LEMMA RecordedIsJustified ==
    ASSUME TypeOK, scope # "CACHED", NEW tester \in BOOLEAN, NEW reply
    PROVE  /\ RecordedEntry(tester, cand.session) \in Entries
           /\ Justified(RecordedEntry(tester, cand.session), reply)
<1>1. cand.session \in {"none", "tried", "active"}
  BY DEF TypeOK, Candidates
<1> QED
  BY <1>1, RecordedShows DEF Justified, Shows

LEMMA RecordIfChange ==
    ASSUME TypeOK, scope # "CACHED", NEW reply,
           NEW present \in BOOLEAN, NEW tester \in BOOLEAN, RecordIf(present, tester)
    PROVE  /\ TableChange(reply) /\ (present => Accounted)
           /\ Found' # Found => present
<1>1. CASE present
  <2>1. Record(RecordedEntry(tester, cand.session))
    BY <1>1 DEF RecordIf
  <2> QED
    BY <1>1, <2>1, RecordedIsJustified, RecordedIsAccounted DEF TableChange
<1>2. CASE ~present
  BY <1>2 DEF RecordIf, TableChange, moduleVars, Found
<1> QED
  BY <1>1, <1>2

-----------------------------------------------------------------------------
(* The requests to a candidate's ECU, by what their reply is evidence of *)

MetadataStages ==
    {"DISCOVERY_SPARE_PART", "DISCOVERY_SOFTWARE", "DISCOVERY_HARDWARE"}

StaysWith(reply) ==
    /\ target' = target /\ dtcIndex' = dtcIndex
    /\ cand'.session = "active" => cand.session = "active" \/ reply = "positive"
    /\ stage' \in (ProbeStages \cup {"DISCOVERY_VIN_SET_TIMEOUT"})
                    \ {"DISCOVERY_EXTENDED_SESSION"}
    /\ stage' \in MetadataStages => Accounted
    /\ stage = "DISCOVERY_IDENTITY" /\ stage' \in LaterStages => reply # "gateway"

AskedNow == \E p \in Protocols : <<Candidate, p>> \in asked'

EvidenceShape(reply) ==
    /\ Hear(reply) /\ TableChange(reply)
    /\ ~Unlocked /\ reply \in {"positive", "negative"} => Accounted
    /\ Found' # Found => /\ Present(reply)
                         /\ stage = "DISCOVERY_IDENTITY" => reply # "gateway"
    /\ vin' # vin => vin' = Candidate /\ reply = "positive"
    /\ asked \subseteq asked'
    /\ IF stage = "DISCOVERY_IDENTITY" THEN AskedNow /\ Miss(reply)
       ELSE unanswered' = unanswered
    /\ stage = "DISCOVERY_EXTENDED_SESSION" => stage' = "DISCOVERY_IDENTITY"
    /\ AdvanceCandidate \/ StaysWith(reply)

LEMMA GotoStaysWith ==
    ASSUME NEW reply, NEW c, Goto("DISCOVERY_IDENTITY", c) \/
               (Goto("DISCOVERY_TESTER_PRESENT", c) /\ reply # "gateway"),
           c.session = "active" => cand.session = "active" \/ reply = "positive"
    PROVE  StaysWith(reply)
BY DEF Goto, StaysWith, ProbeStages, MetadataStages, LaterStages, TimeoutStages

LEMMA ExtendedSessionEvidence ==
    ASSUME TypeOK, Position, ExtendedSession
    PROVE  \E reply \in Answers : EvidenceShape(reply)
<1>1. /\ stage = "DISCOVERY_EXTENDED_SESSION" /\ scope # "CACHED"
      /\ vin' = vin /\ UNCHANGED <<asked, unanswered>>
  BY DEF ExtendedSession, Position, ProbeStages, DiscoveryStages
<1>2. PICK reply \in Answers :
        LET session == IF reply = "positive" THEN "active" ELSE "tried" IN
        /\ Hear(reply)
        /\ IF Present(reply) THEN Record(RecordedEntry(FALSE, session))
           ELSE UNCHANGED moduleVars
        /\ Goto("DISCOVERY_IDENTITY",
                [cand EXCEPT !.session = session, !.probe = 0])
  BY DEF ExtendedSession
<1> DEFINE session == IF reply = "positive" THEN "active" ELSE "tried"
           e == RecordedEntry(FALSE, session)
           c == [cand EXCEPT !.session = session, !.probe = 0]
<1>3. e \in Entries /\ Justified(e, reply)
  BY <1>1, RecordedShows DEF Justified, Shows
<1>4. StaysWith(reply)
  <2>1. c.session = session
    BY DEF TypeOK, Candidates
  <2>2. Goto("DISCOVERY_IDENTITY", c)
    BY <1>2
  <2> HIDE DEF c
  <2> QED
    BY <2>1, <2>2, GotoStaysWith
<1>5. stage' = "DISCOVERY_IDENTITY"
  BY <1>2 DEF Goto
<1>6. /\ Hear(reply)
      /\ \/ Record(e) /\ Present(reply)
         \/ UNCHANGED moduleVars /\ reply = "none"
  BY <1>2 DEF Present
<1> HIDE DEF e
<1>7. TableChange(reply)
  BY <1>3, <1>6 DEF TableChange
<1>8. (reply # "none" => Accounted) /\ (Found' # Found => Present(reply))
  BY <1>1, <1>6, RecordedIsAccounted DEF moduleVars, Found, Present
<1> QED
  BY <1>1, <1>4, <1>5, <1>6, <1>7, <1>8 DEF EvidenceShape

LEMMA UdsIdentityEvidence ==
    ASSUME TypeOK, Position, UdsIdentity
    PROVE  \E reply \in Answers : EvidenceShape(reply)
<1> DEFINE e == RecordedEntry(FALSE, cand.session)
           read(texts, named) ==
              [e EXCEPT !.protocol = "UDS",
                        !.identity = IF texts THEN "read" ELSE "none",
                        !.family = @ \/ named]
           kwp == [cand EXCEPT !.fallback = TRUE, !.index = 0]
<1>1. /\ stage = "DISCOVERY_IDENTITY" /\ scope # "CACHED"
      /\ vin' = vin /\ asked' = asked \cup {<<Candidate, "UDS">>}
      /\ scope' = scope
  BY DEF UdsIdentity, UnchangedByProbe, Position, ProbeStages, DiscoveryStages
<1>2. PICK reply \in Answers, texts \in BOOLEAN, named \in BOOLEAN :
        /\ Hear(reply) /\ Miss(reply)
        /\ \/ /\ IdentityState(reply) = "miss"
              /\ UNCHANGED moduleVars
              /\ AdvanceCandidate
           \/ /\ IdentityState(reply) = "positive"
              /\ Record(read(texts, named))
              /\ Goto("DISCOVERY_SPARE_PART", cand)
           \/ /\ IdentityState(reply) = "negative"
              /\ \/ /\ Record([e EXCEPT !.protocol = "UDS"])
                    /\ Goto("DISCOVERY_SPARE_PART", cand)
                 \/ /\ Record(e)
                    /\ Goto("DISCOVERY_IDENTITY", kwp)
           \/ /\ IdentityState(reply) = "none"
              /\ UNCHANGED moduleVars
              /\ \/ Goto("DISCOVERY_TESTER_PRESENT", cand)
                 \/ Goto("DISCOVERY_IDENTITY", kwp)
  BY DEF UdsIdentity, Texts, Named
<1>3. e \in Entries /\ Justified(e, reply) /\ kwp.session = cand.session
  BY <1>1, RecordedIsJustified DEF TypeOK, Candidates
<1> HIDE DEF e, kwp
<1>4. [e EXCEPT !.protocol = "UDS"] \in Entries
      /\ Justified([e EXCEPT !.protocol = "UDS"], reply)
  BY <1>3 DEF Entries, Protocols, Justified, Shows
<1>5. read(texts, named) \in Entries
      /\ (reply = "positive" => Justified(read(texts, named), reply))
  <2>1. e.family \in BOOLEAN /\ (e.family \/ named) \in BOOLEAN
    BY <1>3 DEF Entries
  <2>2. (IF texts THEN "read" ELSE "none") \in {"none", "saved", "read"}
    OBVIOUS
  <2>3. read(texts, named) \in Entries
    BY <1>3, <2>1, <2>2 DEF Entries, Protocols
  <2>4. /\ read(texts, named).identity = IF texts THEN "read" ELSE "none"
        /\ read(texts, named).dtc = e.dtc
    BY <1>3 DEF Entries
  <2> HIDE DEF read
  <2> QED
    BY <1>3, <2>3, <2>4 DEF Justified
<1> HIDE DEF read
<1>6. AskedNow /\ asked \subseteq asked'
  BY <1>1 DEF AskedNow, Protocols
<1>7. IdentityState(reply) # "miss" =>
        reply # "gateway" /\ IdentityState(reply) = reply
  BY DEF IdentityState
<1>8. TableChange(reply)
  BY <1>2, <1>3, <1>4, <1>5, <1>7 DEF TableChange
<1>9. /\ reply \in {"positive", "negative"} => Accounted
      /\ Found' # Found => reply \in {"positive", "negative"}
  <2>1. reply \in {"positive", "negative"} => \E x : Record(x)
    BY <1>2, <1>7 DEF IdentityState
  <2>2. Found' # Found => reply \in {"positive", "negative"}
    BY <1>2, <1>7 DEF IdentityState, moduleVars, Found
  <2> QED
    BY <1>1, <2>1, <2>2, RecordedIsAccounted
<1>10. AdvanceCandidate \/ StaysWith(reply)
  <2>1. CASE Goto("DISCOVERY_SPARE_PART", cand) /\ reply \in {"positive", "negative"}
    BY <1>9, <2>1 DEF Goto, StaysWith, ProbeStages, MetadataStages
  <2>2. CASE Goto("DISCOVERY_IDENTITY", kwp)
    BY <1>3, <2>2, GotoStaysWith
  <2>3. CASE Goto("DISCOVERY_TESTER_PRESENT", cand) /\ reply # "gateway"
    BY <2>3, GotoStaysWith
  <2> QED
    BY <1>2, <1>7, <2>1, <2>2, <2>3
<1> QED
  BY <1>1, <1>2, <1>6, <1>8, <1>9, <1>10 DEF EvidenceShape, Present

LEMMA KwpIdentityEvidence ==
    ASSUME TypeOK, Position, KwpIdentity
    PROVE  \E reply \in Answers : EvidenceShape(reply)
<1> DEFINE kwp == [RecordedEntry(FALSE, cand.session) EXCEPT !.protocol = "KWP"]
           identified(named) ==
              [kwp EXCEPT !.identity = "read", !.family = @ \/ named]
           next == [cand EXCEPT !.index = @ + 1]
           plain == [cand EXCEPT !.fallback = FALSE, !.index = 0]
<1>1. /\ stage = "DISCOVERY_IDENTITY" /\ scope # "CACHED"
      /\ vin' = vin /\ asked' = asked \cup {<<Candidate, "KWP">>}
  BY DEF KwpIdentity, Position, ProbeStages, DiscoveryStages
<1>2. PICK reply \in Answers, texts \in BOOLEAN, named \in BOOLEAN :
        LET captured == kwpCaptured /\ cand.index > 0
            e == IF texts /\ ~captured THEN identified(named) ELSE kwp IN
        /\ texts => reply = "positive"
        /\ Hear(reply) /\ Miss(reply)
        /\ \/ /\ IdentityState(reply) = "miss"
              /\ UNCHANGED moduleVars
              /\ AdvanceCandidate
           \/ /\ IdentityState(reply) = "positive"
              /\ Record(e)
              /\ NextKwpOption \/ AdvanceCandidate
           \/ /\ IdentityState(reply) \in {"negative", "none"}
              /\ IF IdentityState(reply) = "negative" THEN Record(e)
                 ELSE UNCHANGED moduleVars
              /\ \/ NextKwpOption \/ AdvanceCandidate
                 \/ Goto("DISCOVERY_TESTER_PRESENT", plain)
  <2> HIDE DEF kwp, identified, plain
  <2> QED
    BY ZenonT(90) DEF KwpIdentity, Texts, Named, kwp, identified, plain
<1> DEFINE captured == kwpCaptured /\ cand.index > 0
           e == IF texts /\ ~captured THEN identified(named) ELSE kwp
<1>3. kwp \in Entries /\ Justified(kwp, reply)
  <2> DEFINE r == RecordedEntry(FALSE, cand.session)
  <2>1. r \in Entries /\ Justified(r, reply)
    BY <1>1, RecordedIsJustified
  <2> HIDE DEF r
  <2>2. [r EXCEPT !.protocol = "KWP"] \in Entries
        /\ Justified([r EXCEPT !.protocol = "KWP"], reply)
    BY <2>1 DEF Entries, Protocols, Justified, Shows
  <2> QED
    BY <2>2 DEF r
<1>4. /\ next.session = cand.session /\ plain.session = cand.session
      /\ NextKwpOption = Goto("DISCOVERY_IDENTITY", next)
  BY DEF TypeOK, Candidates, NextKwpOption
<1> HIDE DEF kwp, next, plain
<1>5. /\ identified(named) \in Entries
      /\ reply = "positive" => Justified(identified(named), reply)
  <2>1. (kwp.family \/ named) \in BOOLEAN
    OBVIOUS
  <2>2. /\ identified(named) \in Entries /\ identified(named).identity = "read"
        /\ identified(named).dtc = kwp.dtc
    BY <1>3, <2>1 DEF Entries
  <2> HIDE DEF identified
  <2> QED
    BY <1>3, <2>2 DEF Justified
<1> HIDE DEF identified
<1>6. e \in Entries /\ Justified(e, reply)
  BY <1>2, <1>3, <1>5
<1>7. /\ texts => reply = "positive"
      /\ Hear(reply) /\ Miss(reply)
      /\ \/ /\ IdentityState(reply) = "miss"
            /\ UNCHANGED moduleVars
            /\ AdvanceCandidate
         \/ /\ IdentityState(reply) \in {"positive", "negative"}
            /\ Record(e)
         \/ /\ IdentityState(reply) = "none"
            /\ UNCHANGED moduleVars
      /\ \/ AdvanceCandidate
         \/ Goto("DISCOVERY_IDENTITY", next)
         \/ /\ Goto("DISCOVERY_TESTER_PRESENT", plain)
            /\ IdentityState(reply) # "miss"
  BY <1>2, <1>4
<1> HIDE DEF e
<1>8. IdentityState(reply) # "miss" =>
        reply # "gateway" /\ IdentityState(reply) = reply
  BY DEF IdentityState
<1>9. AskedNow /\ asked \subseteq asked'
  BY <1>1 DEF AskedNow, Protocols
<1>10. TableChange(reply)
  BY <1>6, <1>7 DEF TableChange
<1>11. /\ reply \in {"positive", "negative"} => Accounted
       /\ Found' # Found => reply \in {"positive", "negative"}
  <2>1. reply \in {"positive", "negative"} => Record(e)
    BY <1>7, <1>8 DEF IdentityState
  <2>2. Found' # Found => reply \in {"positive", "negative"}
    BY <1>7, <1>8 DEF IdentityState, moduleVars, Found
  <2> QED
    BY <1>1, <2>1, <2>2, RecordedIsAccounted
<1>12. AdvanceCandidate \/ StaysWith(reply)
  BY <1>4, <1>7, <1>8, GotoStaysWith
<1> QED
  BY <1>1, <1>7, <1>9, <1>10, <1>11, <1>12 DEF EvidenceShape, Present

LEMMA MetadataEvidence ==
    ASSUME TypeOK, Position, SparePart \/ Software \/ Hardware,
           Candidate \in Found \/ truncated
    PROVE  \E reply \in Answers : EvidenceShape(reply)
<1>1. /\ stage \in MetadataStages /\ scope # "CACHED"
      /\ vin' = vin /\ UNCHANGED <<asked, unanswered>>
      /\ UNCHANGED <<found, truncated>>
  BY DEF SparePart, Software, Hardware, Position, ProbeStages,
         DiscoveryStages, MetadataStages, moduleVars, Classify
<1>2. PICK reply \in Answers :
        /\ Hear(reply)
        /\ entry' = entry \/ \E named \in BOOLEAN : Classify(named)
  BY DEF SparePart, Software, Hardware, Named, moduleVars
<1>3. /\ \/ Goto("DISCOVERY_SOFTWARE", cand) \/ Goto("DISCOVERY_HARDWARE", cand)
         \/ AdvanceCandidate
  BY DEF SparePart, Software, Hardware
<1>4. Accounted /\ Found' = Found
  BY <1>1 DEF Accounted, Found
<1>5. TableChange(reply)
  <2>1. ASSUME NEW named \in BOOLEAN, Classify(named), Candidate \in Found
        PROVE  TableChange(reply)
    <3>1. Candidate \in Routes /\ entry[Candidate] \in Entries
      BY <1>1, CandidateType DEF TypeOK
    <3> DEFINE e == [entry[Candidate] EXCEPT
                       !.family = entry[Candidate].family \/ named]
    <3>2. (entry[Candidate].family \/ named) \in BOOLEAN
      OBVIOUS
    <3>3. e \in Entries
      BY <3>1, <3>2, EntryUpdate
    <3>4. Justified(e, reply)
      BY <3>1 DEF Entries, Justified, Shows
    <3>5. entry' = [entry EXCEPT ![Candidate] = e]
      BY <2>1 DEF Classify
    <3> HIDE DEF e
    <3> QED
      BY <1>1, <3>3, <3>4, <3>5 DEF TableChange
  <2>2. CASE entry' = entry
    BY <1>1, <2>2 DEF TableChange, moduleVars
  <2>3. ASSUME NEW named \in BOOLEAN, Classify(named), Candidate \notin Found
        PROVE  entry' = entry
    BY <2>3 DEF Classify
  <2> QED
    BY <1>2, <2>1, <2>2, <2>3
<1>6. AdvanceCandidate \/ StaysWith(reply)
  BY <1>1, <1>3, <1>4 DEF Goto, StaysWith, ProbeStages, MetadataStages
<1> QED
  BY <1>1, <1>2, <1>4, <1>5, <1>6
  DEF EvidenceShape, MetadataStages

\* The steps that lead from one later stage to another.
LEMMA LaterStaysWith ==
    ASSUME TypeOK, NEW reply, stage # "DISCOVERY_IDENTITY",
           \/ Goto("DISCOVERY_DTC_FALLBACK", cand)
           \/ Goto("DISCOVERY_IDENTITY", cand)
           \/ Goto("DISCOVERY_VARIANT_FALLBACK", cand)
           \/ Goto("DISCOVERY_VIN_FALLBACK", [cand EXCEPT !.probe = @ + 1])
           \/ EnterVinFallback \/ TryAlternateProtocol
    PROVE  StaysWith(reply)
<1> DEFINE next == [cand EXCEPT !.probe = @ + 1]
           first == [cand EXCEPT !.probe = 0]
           other(p) == [cand EXCEPT !.protocol = p, !.attempted = @ \cup {p},
                           !.session = "none", !.probe = 0,
                           !.fallback = FALSE, !.index = 0]
<1>1. /\ next.session = cand.session /\ first.session = cand.session
      /\ \A p : other(p).session = "none"
  BY DEF TypeOK, Candidates
<1>2. \/ \E s \in {"DISCOVERY_DTC_FALLBACK", "DISCOVERY_IDENTITY",
                   "DISCOVERY_VARIANT_FALLBACK"} : Goto(s, cand)
      \/ Goto("DISCOVERY_VIN_FALLBACK", next)
      \/ \E s \in {"DISCOVERY_VIN_SET_TIMEOUT", "DISCOVERY_VIN_FALLBACK"} :
            Goto(s, first)
      \/ \E p : Goto("DISCOVERY_TESTER_PRESENT", other(p))
  <2> HIDE DEF other, first, next
  <2>1. EnterVinFallback =>
            \E s \in {"DISCOVERY_VIN_SET_TIMEOUT", "DISCOVERY_VIN_FALLBACK"} :
               Goto(s, first)
    BY DEF EnterVinFallback, first
  <2>2. TryAlternateProtocol =>
            \E p : Goto("DISCOVERY_TESTER_PRESENT", other(p))
    BY DEF TryAlternateProtocol, other
  <2> QED
    BY <2>1, <2>2 DEF next
<1> HIDE DEF other, first, next
<1> QED
  BY <1>1, <1>2 DEF Goto, StaysWith, ProbeStages, MetadataStages

\* TesterPresent, the VIN probes and the variant probe.
LEMMA PresenceEvidence ==
    ASSUME TypeOK, Position, TesterPresent \/ VinFallback \/ VariantFallback
    PROVE  \E reply \in Answers : EvidenceShape(reply)
<1>1. /\ stage \in ProbeStages \ {"DISCOVERY_IDENTITY", "DISCOVERY_EXTENDED_SESSION"}
      /\ UNCHANGED <<asked, unanswered>>
  BY DEF TesterPresent, VinFallback, VariantFallback, ProbeStages
<1>2. scope # "CACHED"
  BY <1>1 DEF Position, DiscoveryStages
<1>3. PICK reply \in Answers, present \in BOOLEAN, tester \in BOOLEAN :
        /\ Hear(reply)
        /\ RecordIf(present, tester)
        /\ present => Present(reply)
        /\ ~Unlocked /\ Present(reply) => present
        /\ vin' # vin => vin' = Candidate /\ reply = "positive"
        /\ \/ AdvanceCandidate \/ AfterPresence
           \/ Goto("DISCOVERY_DTC_FALLBACK", cand)
           \/ Goto("DISCOVERY_VARIANT_FALLBACK", cand)
           \/ Goto("DISCOVERY_VIN_FALLBACK", [cand EXCEPT !.probe = @ + 1])
  <2>1. CASE TesterPresent
    <3>1. PICK reply \in Answers :
            /\ Hear(reply) /\ RecordIf(~Unlocked /\ Present(reply), TRUE)
            /\ AdvanceCandidate \/ Goto("DISCOVERY_DTC_FALLBACK", cand)
      BY <2>1 DEF TesterPresent
    <3>2. vin' = vin
      BY <2>1 DEF TesterPresent
    <3>3. (~Unlocked /\ Present(reply)) \in BOOLEAN
      OBVIOUS
    <3> QED
      BY <3>1, <3>2, <3>3
  <2>2. CASE VinFallback
    <3>1. PICK reply \in Answers : \E wellFormed \in Texts(reply) :
            /\ Hear(reply) /\ RecordIf(~Unlocked /\ Present(reply), FALSE)
            /\ vin' = IF wellFormed /\ Locked(Candidate) /\ vin = NoRoute
                      THEN Candidate ELSE vin
            /\ \/ AdvanceCandidate \/ AfterPresence
               \/ Goto("DISCOVERY_VARIANT_FALLBACK", cand)
               \/ Goto("DISCOVERY_VIN_FALLBACK", [cand EXCEPT !.probe = @ + 1])
      BY <2>2, Zenon DEF VinFallback
    <3>2. vin' # vin => vin' = Candidate /\ reply = "positive"
      BY <3>1 DEF Texts
    <3>3. (~Unlocked /\ Present(reply)) \in BOOLEAN
      OBVIOUS
    <3> QED
      BY <3>1, <3>2, <3>3
  <2>3. CASE VariantFallback
    <3>1. PICK reply \in Answers :
            /\ Hear(reply) /\ RecordIf(Present(reply), FALSE)
            /\ AdvanceCandidate \/ AfterPresence
      BY <2>3 DEF VariantFallback
    <3>2. vin' = vin
      BY <2>3 DEF VariantFallback
    <3>3. Present(reply) \in BOOLEAN
      BY DEF Present
    <3> QED
      BY <3>1, <3>2, <3>3
  <2> QED
    BY <2>1, <2>2, <2>3
<1>4. AdvanceCandidate \/ StaysWith(reply)
  BY <1>1, <1>3, LaterStaysWith DEF AfterPresence
<1>5. /\ TableChange(reply) /\ (present => Accounted)
      /\ Found' # Found => present
  BY <1>2, <1>3, RecordIfChange
<1> QED
  BY <1>1, <1>3, <1>4, <1>5 DEF EvidenceShape, Present

LEMMA DtcFallbackEvidence ==
    ASSUME TypeOK, Position, DtcFallback
    PROVE  \E reply \in Answers : EvidenceShape(reply)
<1> DEFINE fresh(result) == [RecordedEntry(FALSE, cand.session)
                               EXCEPT !.dtc = result]
           held(result) == [entry[Candidate] EXCEPT !.dtc = result]
<1>1. /\ stage = "DISCOVERY_DTC_FALLBACK" /\ scope # "CACHED"
      /\ vin' = vin /\ UNCHANGED <<asked, unanswered>>
  BY DEF DtcFallback, Position, ProbeStages, DiscoveryStages
<1>2. PICK reply \in Answers, result \in DtcResults :
        /\ result \in DtcResult(reply)
        /\ Hear(reply)
        /\ IF ~Unlocked /\ Present(reply) THEN Record(fresh(result))
           ELSE \/ /\ entry' = [entry EXCEPT ![Candidate] = held(result)]
                   /\ UNCHANGED <<found, truncated>>
                \/ UNCHANGED moduleVars
        /\ \/ EnterVinFallback \/ AdvanceCandidate
           \/ Goto("DISCOVERY_IDENTITY", cand) \/ TryAlternateProtocol
  BY DEF DtcFallback, DtcResult, DtcResults
<1>3. /\ result = "available" => reply = "positive"
      /\ result # "not attempted"
  BY <1>2 DEF DtcResult
<1>4. fresh(result) \in Entries /\ Justified(fresh(result), reply)
  <2> DEFINE r == RecordedEntry(FALSE, cand.session)
  <2>1. r \in Entries /\ Justified(r, reply) /\ result \in DtcResults
    BY <1>1, <1>2, <1>3, RecordedIsJustified
  <2>2. (result = "available" => reply = "positive") /\ result # "not attempted"
    BY <1>3
  <2> HIDE DEF r
  <2> DEFINE f == [r EXCEPT !.dtc = result]
  <2>3. f \in Entries /\ f.identity = r.identity /\ f.session = r.session /\ f.dtc = result
    BY <2>1 DEF Entries
  <2> HIDE DEF f
  <2>4. f \in Entries /\ Justified(f, reply)
    BY <2>1, <2>2, <2>3 DEF Justified, Shows
  <2> QED
    BY <2>4 DEF f, r
<1>5. held(result) \in Entries /\ Justified(held(result), reply)
  <2> DEFINE r == entry[Candidate]
  <2>1. r \in Entries /\ result \in DtcResults
    BY <1>1, <1>2, <1>3, CandidateType DEF TypeOK
  <2>2. (result = "available" => reply = "positive") /\ result # "not attempted"
    BY <1>3
  <2>3. Justified(r, reply)
    BY DEF Justified
  <2> HIDE DEF r
  <2> DEFINE f == [r EXCEPT !.dtc = result]
  <2>4. f \in Entries /\ f.identity = r.identity /\ f.session = r.session /\ f.dtc = result
    BY <2>1 DEF Entries
  <2> HIDE DEF f
  <2>5. f \in Entries /\ Justified(f, reply)
    BY <2>1, <2>2, <2>3, <2>4 DEF Justified, Shows
  <2> QED
    BY <2>5 DEF f, r
<1> HIDE DEF fresh, held
<1>6. TableChange(reply)
  BY <1>2, <1>4, <1>5 DEF TableChange
<1>7. /\ ~Unlocked /\ Present(reply) => Accounted
      /\ Found' # Found => Present(reply)
  BY <1>1, <1>2, RecordedIsAccounted DEF moduleVars, Found
<1>8. AdvanceCandidate \/ StaysWith(reply)
  BY <1>1, <1>2, LaterStaysWith
<1> QED
  BY <1>1, <1>2, <1>6, <1>7, <1>8 DEF EvidenceShape, Present

\* Every request to a candidate.
LEMMA ProbeEvidence ==
    ASSUME TypeOK, Position, EvidenceInvariant, Probe
    PROVE  \E reply \in Answers : EvidenceShape(reply)
<1>1. ASSUME SparePart \/ Software \/ Hardware
      PROVE  Candidate \in Found \/ truncated
  BY <1>1 DEF EvidenceInvariant, SparePart, Software, Hardware
<1> QED
  BY <1>1, ExtendedSessionEvidence, UdsIdentityEvidence, KwpIdentityEvidence,
     MetadataEvidence, PresenceEvidence, DtcFallbackEvidence DEF Probe

-----------------------------------------------------------------------------
(* Of whom the evidence is *)

\* Leaving a route leads to no later stage of another one.
LEMMA NextRouteLeads ==
    ASSUME NextRoute
    PROVE  /\ stage' \in {"DISCOVERY_SET_HEADER", "SWITCH_PROTOCOL_29",
                         "INIT_PROTOCOL_11", "DTC_SET_PROTOCOL", "COMPLETE"}
           /\ UNCHANGED <<target, cand>> \/ cand'.session = "none"
<1>1. CASE HasNextRoute
  BY <1>1 DEF NextRoute, FreshCandidate
<1>2. CASE ~HasNextRoute
  BY <1>2 DEF NextRoute, FinishDiscovery
<1> QED
  BY <1>1, <1>2

LEMMA AdvanceLeads ==
    ASSUME AdvanceCandidate
    PROVE  /\ stage' \notin (LaterStages \ {"DISCOVERY_RESTORE_TIMEOUT"})
                              \cup {"DISCOVERY_EXTENDED_SESSION"}
           /\ stage' \in LaterStages => UNCHANGED <<target, cand>>
           /\ UNCHANGED <<target, cand>> \/ cand'.session = "none"
BY NextRouteLeads
   DEF AdvanceCandidate, LaterStages, ProbeStages, TimeoutStages

LEMMA ProbeKeepsEvidence ==
    ASSUME InductiveInvariant, EvidenceInvariant, Probe
    PROVE  EvidenceInvariant'
<1>1. TypeOK /\ Position
  BY DEF InductiveInvariant
<1>2. PICK reply \in Answers : EvidenceShape(reply)
  BY <1>1, ProbeEvidence
<1>3. stage \in ProbeStages /\ scope' = scope
  BY DEF Probe, ExtendedSession, UdsIdentity, KwpIdentity, SparePart, Software,
         Hardware, TesterPresent, DtcFallback, VinFallback, VariantFallback,
         UnchangedByProbe, ProbeStages
<1>4. adapter.header = Candidate /\ Candidate \in Routes /\ scope # "CACHED"
  BY <1>3, ProbeAddresses
<1>5. /\ heard \subseteq heard' /\ heard' \subseteq heard \cup {Candidate}
      /\ reply \in {"positive", "negative"} => Candidate \in heard'
      /\ reply \notin {"positive", "negative"} => heard' = heard
  BY <1>2, <1>4, HeardIsAddressed DEF EvidenceShape
<1>6. /\ \A r \in Routes \ {Candidate} : entry'[r] = entry[r]
      /\ entry'[Candidate] = entry[Candidate] \/ Justified(entry'[Candidate], reply)
      /\ Found \subseteq Found' /\ Found' \subseteq Found \cup {Candidate}
      /\ truncated => truncated'
  BY <1>1, <1>2, <1>4, TableChangeIsLocal DEF EvidenceShape
<1>7. ReplyAttribution'
  <2>1. vin' # NoRoute => vin' \in heard'
    BY <1>2, <1>5 DEF EvidenceShape, EvidenceInvariant, ReplyAttribution
  <2>2. ASSUME NEW r \in Routes, Shows(entry'[r])
        PROVE  r \in heard'
    <3>1. CASE Shows(entry[r])
      BY <1>5, <3>1 DEF EvidenceInvariant, ReplyAttribution, Shows
    <3>2. CASE ~Shows(entry[r])
      <4>1. r = Candidate /\ Justified(entry'[Candidate], reply)
        BY <1>6, <2>2, <3>2
      <4>2. reply = "positive" \/ cand.session = "active"
        BY <2>2, <3>2, <4>1 DEF Justified
      <4> QED
        BY <1>4, <1>5, <4>1, <4>2 DEF EvidenceInvariant
    <3> QED
      BY <3>1, <3>2
  <2> QED
    BY <2>1, <2>2 DEF ReplyAttribution, Shows
<1>8. NoResponderLost'
  <2>1. ASSUME ~truncated', NEW r \in heard', ~Sweeping(r)
        PROVE  r \in Found'
    <3>1. CASE r \in heard
      BY <1>4, <1>6, <2>1, <3>1 DEF EvidenceInvariant, NoResponderLost
    <3>2. CASE r \notin heard
      <4>1. r = Candidate /\ reply \in {"positive", "negative"}
        BY <1>5, <2>1, <3>2
      <4> QED
        BY <1>2, <2>1, <4>1 DEF EvidenceShape, Unlocked, Accounted
    <3> QED
      BY <3>1, <3>2
  <2>2. \A r : Sweeping(r)' = Sweeping(r)
    BY <1>3 DEF Sweeping, UsesTargetPlan, Locked
  <2> QED
    BY <2>1, <2>2 DEF NoResponderLost
<1>9. target' = target => Candidate' = Candidate
  BY <1>3 DEF Candidate
<1>10. CASE StaysWith(reply)
  <2>1. Candidate' = Candidate
    BY <1>9, <1>10 DEF StaysWith
  <2>2. stage' \in LaterStages => Asked(Candidate)'
    <3>1. ASSUME stage' \in LaterStages
          PROVE  AskedNow
      <4>1. stage \in LaterStages \cup {"DISCOVERY_IDENTITY"}
        BY <1>2, <1>3, <3>1 DEF EvidenceShape, LaterStages, ProbeStages, TimeoutStages
      <4>2. Asked(Candidate) => AskedNow
        BY <1>2 DEF EvidenceShape, Asked, AskedNow
      <4> QED
        BY <1>2, <4>1, <4>2 DEF EvidenceShape, EvidenceInvariant
    <3> QED
      BY <2>1, <3>1 DEF Asked, AskedNow
  <2>3. stage' \in MetadataStages => Candidate' \in Found' \/ truncated'
    BY <1>10, <2>1 DEF StaysWith, Accounted
  <2>4. cand'.session = "active" => Candidate' \in heard'
    BY <1>4, <1>5, <1>10, <2>1 DEF StaysWith, EvidenceInvariant
  <2> QED
    BY <1>7, <1>8, <2>2, <2>3, <2>4 DEF EvidenceInvariant, MetadataStages
<1>11. CASE AdvanceCandidate
  <2>1. stage' \in LaterStages => Asked(Candidate)'
    <3>1. ASSUME stage' \in LaterStages
          PROVE  AskedNow /\ Candidate' = Candidate
      <4>1. Candidate' = Candidate
        BY <1>9, <1>11, <3>1, AdvanceLeads
      <4>2. stage \in LaterStages \cup {"DISCOVERY_IDENTITY"}
        BY <1>2, <1>3, <3>1 DEF EvidenceShape, LaterStages, ProbeStages, TimeoutStages
      <4>3. Asked(Candidate) => AskedNow
        BY <1>2 DEF EvidenceShape, Asked, AskedNow
      <4> QED
        BY <1>2, <4>1, <4>2, <4>3 DEF EvidenceShape, EvidenceInvariant
    <3> QED
      BY <3>1 DEF Asked, AskedNow
  <2>2. stage' \notin MetadataStages
    BY <1>11, AdvanceLeads
    DEF MetadataStages, LaterStages, ProbeStages, TimeoutStages
  <2>3. cand'.session = "active" => Candidate' \in heard'
    BY <1>4, <1>5, <1>9, <1>11, AdvanceLeads DEF EvidenceInvariant
  <2> QED
    BY <1>7, <1>8, <2>1, <2>2, <2>3 DEF EvidenceInvariant, MetadataStages
<1> QED
  BY <1>2, <1>10, <1>11 DEF EvidenceShape

\* The steps that neither ask an ECU nor start anything.
Quiet ==
    /\ UNCHANGED <<scope, vin, moduleVars, fitted, heard, asked, unanswered>>
    /\ stage' \in LaterStages =>
          stage \in LaterStages /\ stage' \notin MetadataStages /\ target' = target
    /\ cand'.session = "active" => cand.session = "active" /\ target' = target

ModuleRequests == CachedIdentity \/ DtcExtendedSession \/ DtcValidate \/ DtcRead

LEMMA OtherStepsAreQuiet ==
    ASSUME InductiveInvariant, Next
    PROVE  \/ Probe \/ ModuleRequests \/ BeginLateTransmission \/ Quiet
<1>1. TypeOK /\ Position
  BY DEF InductiveInvariant
<1>2. CASE \/ InitProtocol11 \/ InitHeaders \/ InitAutoFormat \/ InitFlowControl
           \/ SwitchProtocol29 \/ SwitchHeadersOff29 \/ SetHeader
           \/ ResetReceive \/ SetFilter \/ SetReceiveForSession
           \/ DtcSetProtocol \/ DtcSetHeader \/ DtcSetReceive
           \/ CachedIdentitySetTimeout \/ CachedIdentityRestoreTimeout
  <2>1. /\ UNCHANGED <<scope, target, cand, vin, moduleVars, fitted, heard, asked,
                    unanswered>>
        /\ stage' \notin LaterStages
    BY <1>2 DEF InitProtocol11, InitHeaders, InitAutoFormat, InitFlowControl,
       SwitchProtocol29, SwitchHeadersOff29, SetHeader, ResetReceive, SetFilter,
       SetReceiveForSession, DtcSetProtocol, DtcSetHeader, DtcSetReceive,
       CachedIdentitySetTimeout, CachedIdentityRestoreTimeout, Setup,
       SessionOrValidate, LaterStages, ProbeStages, TimeoutStages, routeVars
  <2> QED
    BY <2>1 DEF Quiet
<1>3. CASE InitTimeout
  <2>1. AfterInit \in {"DTC_SET_PROTOCOL", "SWITCH_PROTOCOL_29", "DISCOVERY_SET_HEADER"}
    BY <1>1, <1>3 DEF InitTimeout, Position, InitStages
  <2> QED
    BY <1>3, <2>1 DEF InitTimeout, Quiet, LaterStages, ProbeStages, TimeoutStages,
       routeVars, moduleVars
<1>4. CASE SetMask \/ SetReceive
  <2>1. [cand EXCEPT !.probe = 0].session = cand.session
    BY <1>1 DEF TypeOK, Candidates
  <2> QED
    BY <1>4, <2>1 DEF SetMask, SetReceive, StartIdentity, Quiet, LaterStages,
       ProbeStages, TimeoutStages, moduleVars
<1>5. CASE VinSetTimeout
  BY <1>5 DEF VinSetTimeout, Quiet, LaterStages, MetadataStages, ProbeStages,
     TimeoutStages, moduleVars
<1>6. CASE RestoreTimeout
  <2>1. NextRoute /\ UNCHANGED <<scope, vin, moduleVars, fitted, heard, asked, unanswered>>
    BY <1>6 DEF RestoreTimeout
  <2> QED
    BY <2>1, NextRouteLeads DEF Quiet, LaterStages, ProbeStages, TimeoutStages
<1>7. CASE DtcSetReceiveForIdentity
  <2>1. [cand EXCEPT !.index = 0, !.fallback = FALSE].session = cand.session
    BY <1>1 DEF TypeOK, Candidates
  <2> QED
    BY <1>7, <2>1 DEF DtcSetReceiveForIdentity, Quiet, LaterStages, ProbeStages,
       TimeoutStages, moduleVars
<1>8. CASE AdapterRejects
  BY <1>8 DEF AdapterRejects, Quiet, LaterStages, ProbeStages, TimeoutStages,
     routeVars, moduleVars
<1>9. CASE Interruption
  <2>1. UNCHANGED <<scope, vin, moduleVars, fitted, heard, asked, unanswered>>
    BY <1>9 DEF Interruption, RetryRoute, SkipModule, SkipRoute, Interrupted
  <2>2. stage' \in {"INIT_PROTOCOL_11", "COMPLETE"}
    BY <1>9 DEF Interruption, RetryRoute, SkipModule, SkipRoute, ResumeAt, GiveUp
  <2>3. Restarted(cand).session = cand.session
    BY <1>1 DEF TypeOK, Candidates, Restarted
  <2>4. cand'.session = "active" => cand.session = "active" /\ target' = target
    <3>1. \/ cand' = Restarted(cand) /\ target' = target
          \/ cand' = FreshCandidate(Plan[scope][target + 1])
      BY <1>9 DEF Interruption, RetryRoute, SkipModule, SkipRoute
    <3> QED
      BY <2>3, <3>1 DEF FreshCandidate
  <2> QED
    BY <2>1, <2>2, <2>4 DEF Quiet, LaterStages, ProbeStages, TimeoutStages
<1>10. CASE Rest
  <2>1. UNCHANGED <<stage, scope, target, cand, vin, moduleVars, fitted, heard, asked,
                    unanswered>>
        /\ stage \notin LaterStages
    BY <1>10 DEF Rest, vars, routeVars, Ended, LaterStages, ProbeStages, TimeoutStages
  <2> QED
    BY <2>1 DEF Quiet
<1> QED
  BY <1>2, <1>3, <1>4, <1>5, <1>6, <1>7, <1>8, <1>9, <1>10
  DEF Next, Step, Probe, ModuleRequests

LEMMA QuietKeepsEvidence ==
    ASSUME EvidenceInvariant, Quiet
    PROVE  EvidenceInvariant'
<1>1. UNCHANGED <<scope, vin, found, entry, truncated, heard, asked>>
  BY DEF Quiet, moduleVars
<1>2. ReplyAttribution'
  BY <1>1 DEF EvidenceInvariant, ReplyAttribution
<1>3. NoResponderLost'
  BY <1>1 DEF EvidenceInvariant, NoResponderLost, Sweeping, UsesTargetPlan, Locked,
              Found
<1>4. target' = target => Candidate' = Candidate
  BY <1>1 DEF Candidate
<1>5. stage' \in LaterStages => Asked(Candidate)'
  BY <1>1, <1>4 DEF Quiet, EvidenceInvariant, Asked
<1>6. stage' \notin MetadataStages
  BY DEF Quiet, MetadataStages, LaterStages, ProbeStages, TimeoutStages
<1>7. scope' # "CACHED" /\ cand'.session = "active" => Candidate' \in heard'
  BY <1>1, <1>4 DEF Quiet, EvidenceInvariant
<1> QED
  BY <1>2, <1>3, <1>5, <1>6, <1>7 DEF EvidenceInvariant, MetadataStages

\* What a request of the fault pass may change of its module's entry.
ModuleRequestUpdates(e) ==
    /\ \/ e.identity = entry[Module].identity
       \/ /\ e.identity = "read" /\ stage = "CACHED_IDENTITY"
          /\ ~kwpCaptured /\ kwpCaptured'
    /\ e.dtc = "not attempted" =>
          entry[Module].dtc = "not attempted" /\ stage # "DTC_READ"

LEMMA ModuleRequestShape ==
    ASSUME InductiveInvariant, ModuleRequests
    PROVE  /\ stage \in DtcRequestStages
           /\ IF stage = "DTC_READ"
              THEN dtcIndex' = dtcIndex + 1 /\ stage' = AfterModule
              ELSE dtcIndex' = dtcIndex /\ stage' \in DtcStages
           /\ stage' \in {"CACHED_IDENTITY_SET_TIMEOUT", "CACHED_IDENTITY"}
                => stage = "CACHED_IDENTITY"
           /\ kwpCaptured => kwpCaptured'
           /\ UNCHANGED <<scope, target, vin, found, truncated, asked, unanswered,
                          adapter, fitted>>
           /\ UNCHANGED resumeVars
           /\ cand'.session = cand.session
           /\ \E reply \in Answers :
                /\ Hear(reply)
                /\ \/ entry' = entry /\ stage # "DTC_READ"
                   \/ \E e \in Entries :
                        /\ entry' = [entry EXCEPT ![Module] = e]
                        /\ Shows(e) => reply = "positive" \/ Shows(entry[Module])
                        /\ ModuleRequestUpdates(e)
<1>1. TypeOK /\ ModuleTable /\ Position
  BY DEF InductiveInvariant
<1>2. stage \in DtcRequestStages
  BY DEF ModuleRequests, CachedIdentity, DtcExtendedSession, DtcValidate, DtcRead,
         ModuleRequest, DtcRequestStages
<1>3. UNCHANGED <<scope, target, vin, found, truncated, asked, unanswered,
                          adapter, fitted>>
  BY DEF ModuleRequests, CachedIdentity, DtcExtendedSession, DtcValidate, DtcRead,
         ModuleRequest, UnchangedByProbe
<1>4. cand'.session = cand.session
  BY <1>1 DEF ModuleRequests, CachedIdentity, DtcExtendedSession, DtcValidate, DtcRead,
         ModuleRequest, TypeOK, Candidates
<1>5. /\ IF stage = "DTC_READ"
         THEN dtcIndex' = dtcIndex + 1 /\ stage' = AfterModule
         ELSE dtcIndex' = dtcIndex /\ stage' \in DtcStages
      /\ stage' \in {"CACHED_IDENTITY_SET_TIMEOUT", "CACHED_IDENTITY"}
                => stage = "CACHED_IDENTITY"
      /\ UNCHANGED resumeVars
      /\ kwpCaptured => kwpCaptured'
  <2>1. CASE CachedIdentity
    BY <2>1 DEF CachedIdentity, UnchangedByProbe, DtcStages, DtcSetupStages,
       DtcRequestStages
  <2>2. CASE DtcExtendedSession \/ DtcValidate \/ DtcRead
    BY <2>2 DEF DtcExtendedSession, DtcValidate, DtcRead, ModuleRequest,
       UnchangedByProbe, AfterModule, DtcStages, DtcSetupStages, DtcRequestStages
  <2> QED
    BY <2>1, <2>2 DEF ModuleRequests
<1> DEFINE m == entry[Module]
<1>6. Module \in Routes /\ m \in Entries
  BY <1>1, <1>2, FaultPassAddresses DEF TypeOK
<1>7. PICK reply \in Answers :
        /\ Hear(reply)
        /\ \/ entry' = entry /\ stage = "CACHED_IDENTITY"
           \/ \E named \in BOOLEAN :
                /\ reply = "positive" /\ stage = "CACHED_IDENTITY" /\ ~kwpCaptured
                /\ kwpCaptured'
                /\ entry' = [entry EXCEPT ![Module] =
                      [m EXCEPT !.identity = "read", !.family = m.family \/ named]]
           \/ \E session \in {"tried", "active"} :
                /\ stage # "DTC_READ"
                /\ session = "active" =>
                     reply = "positive" \/ entry[Module].session = "active"
                /\ entry' = [entry EXCEPT ![Module] = [m EXCEPT !.session = session]]
           \/ \E tester \in BOOLEAN :
                /\ stage # "DTC_READ"
                /\ entry' = [entry EXCEPT ![Module] = [m EXCEPT !.tester = tester]]
           \/ \E result \in DtcResult(reply) :
                entry' = [entry EXCEPT ![Module] = [m EXCEPT !.dtc = result]]
  <2>1. CASE CachedIdentity
    <3>1. PICK reply \in Answers : \E texts \in Texts(reply), named \in BOOLEAN :
            /\ Hear(reply)
            /\ stage = "CACHED_IDENTITY" /\ kwpCaptured' = (kwpCaptured \/ texts)
            /\ entry' = IF texts /\ ~kwpCaptured
                        THEN [entry EXCEPT ![Module].identity = "read",
                                           ![Module].family = @ \/ named]
                        ELSE entry
      BY <2>1 DEF CachedIdentity
    <3>2. \A named : [entry EXCEPT ![Module].identity = "read",
                                  ![Module].family = @ \/ named]
            = [entry EXCEPT ![Module] =
                      [m EXCEPT !.identity = "read", !.family = m.family \/ named]]
      BY <1>1, <1>6 DEF TypeOK, Entries
    <3> QED
      BY <3>1, <3>2 DEF Texts
  <2>2. CASE DtcExtendedSession
    <3>1. PICK reply \in Answers :
            /\ Hear(reply) /\ stage = "DTC_EXTENDED_SESSION"
            /\ entry' = [entry EXCEPT ![Module].session =
                           IF reply = "positive" THEN "active"
                           ELSE StrongerSession(@, "tried")]
      BY <2>2 DEF DtcExtendedSession, ModuleRequest
    <3> DEFINE session == IF reply = "positive" THEN "active"
                          ELSE StrongerSession(m.session, "tried")
    <3>2. /\ session \in {"tried", "active"}
          /\ session = "active" => reply = "positive" \/ m.session = "active"
      BY DEF StrongerSession
    <3>3. entry' = [entry EXCEPT ![Module] = [m EXCEPT !.session = session]]
      BY <3>1
    <3> HIDE DEF session
    <3> QED
      BY <3>1, <3>2, <3>3
  <2>3. CASE DtcValidate
    <3>1. PICK reply \in Answers :
            /\ Hear(reply) /\ stage = "DTC_VALIDATE"
            /\ entry' = [entry EXCEPT ![Module].tester = Present(reply)]
      BY <2>3 DEF DtcValidate, ModuleRequest
    <3>2. Present(reply) \in BOOLEAN
      BY DEF Present
    <3> QED
      BY <3>1, <3>2
  <2>4. CASE DtcRead
    BY <2>4 DEF DtcRead
  <2> QED
    BY <2>1, <2>2, <2>3, <2>4 DEF ModuleRequests
<1>8. \A result \in DtcResult(reply) :
        /\ result \in DtcResults /\ result # "not attempted"
        /\ result = "available" => reply = "positive"
  BY DEF DtcResult, DtcResults
<1> DEFINE Sound(e) == /\ e \in Entries
                       /\ Shows(e) => reply = "positive" \/ Shows(m)
                       /\ \/ e.identity = m.identity
                          \/ /\ e.identity = "read" /\ stage = "CACHED_IDENTITY"
                             /\ ~kwpCaptured /\ kwpCaptured'
                       /\ e.dtc = "not attempted" =>
                             m.dtc = "not attempted" /\ stage # "DTC_READ"
<1> HIDE DEF m
<1>9. /\ \A named \in BOOLEAN :
            reply = "positive" /\ stage = "CACHED_IDENTITY" /\ ~kwpCaptured /\ kwpCaptured'
            => Sound([m EXCEPT !.identity = "read", !.family = m.family \/ named])
      /\ \A session \in {"tried", "active"} :
            stage # "DTC_READ" /\ (session = "active" => reply = "positive" \/ m.session = "active")
                => Sound([m EXCEPT !.session = session])
      /\ \A tester \in BOOLEAN : stage # "DTC_READ" => Sound([m EXCEPT !.tester = tester])
      /\ \A result \in DtcResult(reply) : Sound([m EXCEPT !.dtc = result])
  <2>1. ASSUME NEW named \in BOOLEAN, reply = "positive",
               stage = "CACHED_IDENTITY" /\ ~kwpCaptured /\ kwpCaptured'
        PROVE  Sound([m EXCEPT !.identity = "read", !.family = m.family \/ named])
    <3>1. (m.family \/ named) \in BOOLEAN
      OBVIOUS
    <3> QED
      BY <1>6, <2>1, <3>1 DEF Entries
  <2>2. ASSUME NEW session \in {"tried", "active"}, stage # "DTC_READ",
               session = "active" => reply = "positive" \/ m.session = "active"
        PROVE  Sound([m EXCEPT !.session = session])
    BY <1>6, <2>2 DEF Entries, Shows
  <2>3. ASSUME NEW tester \in BOOLEAN, stage # "DTC_READ"
        PROVE  Sound([m EXCEPT !.tester = tester])
    BY <1>6, <2>3 DEF Entries, Shows
  <2>4. ASSUME NEW d \in DtcResult(reply)
        PROVE  Sound([m EXCEPT !.dtc = d])
    <3>1. /\ d \in DtcResults /\ d # "not attempted"
          /\ d = "available" => reply = "positive"
      BY <1>8
    <3> QED
      BY ONLY <1>6, <2>4, <3>1 DEF Entries, Shows
  <2> QED
    BY <2>1, <2>2, <2>3, <2>4
<1>10. \/ entry' = entry /\ stage # "DTC_READ"
       \/ \E e : Sound(e) /\ entry' = [entry EXCEPT ![Module] = e]
  <2> HIDE DEF Sound
  <2> QED
    BY <1>7, <1>9 DEF m
<1> QED
  BY <1>2, <1>3, <1>4, <1>5, <1>7, <1>10 DEF m, ModuleRequestUpdates

LEMMA FaultPassStays ==
    ASSUME InductiveInvariant, ModuleRequests
    PROVE  stage' \in DtcStages \cup {"COMPLETE"}
BY ModuleRequestShape DEF AfterModule, DtcStages, DtcSetupStages

LEMMA ModuleRequestKeepsEvidence ==
    ASSUME InductiveInvariant, EvidenceInvariant, ModuleRequests
    PROVE  EvidenceInvariant'
<1>1. /\ stage \in DtcRequestStages /\ stage' \in DtcStages \cup {"COMPLETE"}
      /\ UNCHANGED <<scope, target, vin, found, truncated, asked>>
      /\ cand'.session = cand.session
  BY ModuleRequestShape, FaultPassStays
<1>2. PICK reply \in Answers :
        /\ Hear(reply)
        /\ \/ entry' = entry
           \/ \E e \in Entries :
                /\ entry' = [entry EXCEPT ![Module] = e]
                /\ Shows(e) => reply = "positive" \/ Shows(entry[Module])
  BY ModuleRequestShape
<1>3. adapter.header = Module /\ Module \in Found /\ Module \in Routes
  BY <1>1, FaultPassAddresses
<1>4. /\ heard \subseteq heard' /\ heard' \subseteq heard \cup {Module}
      /\ reply = "positive" => Module \in heard'
  BY <1>2, <1>3, HeardIsAddressed
<1>5. ReplyAttribution'
  <2>1. ASSUME NEW r \in Routes, Shows(entry'[r])
        PROVE  ~Shows(entry[r]) => r = Module /\ reply = "positive"
    BY <1>2, <1>3, <2>1 DEF InductiveInvariant, TypeOK
  <2>2. \A r \in Routes : Shows(entry[r]) => r \in heard
    BY DEF EvidenceInvariant, ReplyAttribution, Shows
  <2>3. \A r \in Routes : Shows(entry'[r]) => r \in heard'
    BY <1>4, <2>1, <2>2
  <2>4. vin' # NoRoute => vin' \in heard'
    BY <1>1, <1>4 DEF EvidenceInvariant, ReplyAttribution
  <2> QED
    BY <2>3, <2>4 DEF ReplyAttribution, Shows
<1>6. NoResponderLost'
  BY <1>1, <1>3, <1>4 DEF EvidenceInvariant, NoResponderLost, Found, Sweeping,
     UsesTargetPlan, Locked
<1>7. Candidate' = Candidate
  BY <1>1 DEF Candidate
<1>8. stage' \notin LaterStages \cup MetadataStages
  BY <1>1 DEF LaterStages, MetadataStages, ProbeStages, TimeoutStages, DtcStages,
     DtcSetupStages, DtcRequestStages
<1>9. scope' # "CACHED" /\ cand'.session = "active" => Candidate' \in heard'
  BY <1>1, <1>4, <1>7 DEF EvidenceInvariant
<1> QED
  BY <1>5, <1>6, <1>8, <1>9 DEF EvidenceInvariant, MetadataStages

LEMMA BlankShowsNothing ==
    ASSUME NEW p
    PROVE  ~Shows(BlankEntry(p))
BY DEF BlankEntry, Shows

LEMMA LateTransmissionKeepsEvidence ==
    ASSUME InductiveInvariant, EvidenceInvariant, BeginLateTransmission
    PROVE  EvidenceInvariant'
<1>1. /\ scope' = "CACHED" /\ stage' = "INIT_PROTOCOL_11"
      /\ UNCHANGED <<vin, heard>>
      /\ entry' = entry \/ entry' = [entry EXCEPT ![Transmission] = BlankEntry("KWP")]
  BY DEF BeginLateTransmission
<1>2. \A r \in Routes : Shows(entry'[r]) => Shows(entry[r])
  <2>1. ~Shows(BlankEntry("KWP"))
    BY BlankShowsNothing
  <2> DEFINE blank == BlankEntry("KWP")
  <2> HIDE DEF blank
  <2>2. \A r \in Routes : entry'[r] = entry[r] \/ entry'[r] = blank
    BY <1>1 DEF InductiveInvariant, TypeOK, blank
  <2> QED
    BY <2>1, <2>2 DEF blank
<1>3. ReplyAttribution'
  BY <1>1, <1>2 DEF EvidenceInvariant, ReplyAttribution, Shows
<1>4. NoResponderLost'
  BY <1>1 DEF NoResponderLost
<1> QED
  BY <1>1, <1>3, <1>4 DEF EvidenceInvariant, LaterStages, ProbeStages, TimeoutStages

LEMMA SavedShowsNothing ==
    ASSUME NEW protocol, NEW identified, NEW resolved, NEW r \in Routes
    PROVE  ~Shows(SavedEntry(protocol, identified, resolved)[r])
<1> DEFINE e == [BlankEntry(protocol[r]) EXCEPT
                   !.identity = IF r \in identified THEN "saved" ELSE "none",
                   !.family = r \in resolved]
<1>1. SavedEntry(protocol, identified, resolved)[r]
        = [e EXCEPT !.protocol = EntryProtocol(r, e)]
  BY DEF SavedEntry
<1>2. /\ [e EXCEPT !.protocol = EntryProtocol(r, e)].identity \in {"saved", "none"}
      /\ [e EXCEPT !.protocol = EntryProtocol(r, e)].session = "none"
      /\ [e EXCEPT !.protocol = EntryProtocol(r, e)].dtc = "not attempted"
  BY DEF BlankEntry
<1> QED
  BY <1>1, <1>2 DEF Shows

LEMMA InitHasNoEvidence ==
    ASSUME Init
    PROVE  EvidenceInvariant
<1>1. /\ vin = NoRoute /\ heard = {} /\ stage = "INIT_PROTOCOL_11"
  BY DEF Init
<1>2. cand.session = "none"
  BY DEF Init, BeginDiscovery, BeginCached, FreshCandidate, NoCandidate
<1>3. \A r \in Routes : ~Shows(entry[r])
  <2>1. CASE BeginDiscovery
    BY <2>1, BlankShowsNothing DEF BeginDiscovery
  <2>2. CASE BeginCached
    BY <2>2, SavedShowsNothing DEF BeginCached
  <2> QED
    BY <2>1, <2>2 DEF Init
<1> QED
  BY <1>1, <1>2, <1>3 DEF EvidenceInvariant, ReplyAttribution, NoResponderLost,
     Shows, LaterStages, ProbeStages, TimeoutStages

\* What an entry or the VIN returned was heard from that ECU; a candidate in a
\* later stage was asked for its identity; metadata is read of a recorded
\* module, or with the table truncated; a session the candidate holds active was
\* granted by an ECU heard on it; and who was heard is recorded, with the
\* exceptions NoResponderLost names (the stages of accept()).
THEOREM EvidenceInvariantHolds == Spec => []EvidenceInvariant
<1>1. Init => EvidenceInvariant
  BY InitHasNoEvidence
<1>2. InductiveInvariant /\ EvidenceInvariant /\ [Next]_vars => EvidenceInvariant'
  <2> SUFFICES ASSUME InductiveInvariant, EvidenceInvariant, [Next]_vars
               PROVE  EvidenceInvariant'
    OBVIOUS
  <2>1. CASE UNCHANGED vars
    <3>1. UNCHANGED <<stage, scope, target, cand, vin, moduleVars, fitted, heard, asked>>
      BY <2>1 DEF vars, routeVars
    <3>2. Candidate' = Candidate /\ Found' = Found
      BY <3>1 DEF Candidate, Found, moduleVars
    <3> QED
      BY <3>1, <3>2 DEF EvidenceInvariant, ReplyAttribution, NoResponderLost,
         Sweeping, UsesTargetPlan, Locked, Asked, moduleVars
  <2>2. CASE Next
    BY <2>2, OtherStepsAreQuiet, ProbeKeepsEvidence, ModuleRequestKeepsEvidence,
       LateTransmissionKeepsEvidence, QuietKeepsEvidence
  <2> QED
    BY <2>1, <2>2
<1> QED
  BY <1>1, <1>2, InductiveInvariantHolds, PTL DEF Spec

\* What an entry says its ECU returned, and the VIN, were heard from that very
\* ECU, whatever was interrupted, skipped or resumed in between.
THEOREM RepliesAreAttributed == Spec => []ReplyAttribution
<1>1. EvidenceInvariant => ReplyAttribution
  BY DEF EvidenceInvariant
<1> QED
  BY <1>1, EvidenceInvariantHolds, PTL

\* No ECU that a discovery heard on a route with a known reply identifier is left
\* out of a module table that is not reported truncated (record_module).  Routes
\* of the open sweep and scans of a saved profile are not spoken of.
THEOREM RespondersAreRecorded == Spec => []NoResponderLost
<1>1. EvidenceInvariant => NoResponderLost
  BY DEF EvidenceInvariant
<1> QED
  BY <1>1, EvidenceInvariantHolds, PTL

\* A candidate is asked who it is before it is asked for anything else.
THEOREM IdentityComesFirst == Spec => []IdentityBeforeFaults
<1>1. EvidenceInvariant => IdentityBeforeFaults
  BY DEF EvidenceInvariant, IdentityBeforeFaults, LaterStages, ProbeStages
<1> QED
  BY <1>1, EvidenceInvariantHolds, PTL

-----------------------------------------------------------------------------
(* How an absent ECU comes to be recorded *)

LEMMA ProbeKeepsAbsence ==
    ASSUME InductiveInvariant, EvidenceInvariant, AbsenceInvariant, Probe
    PROVE  AbsenceInvariant'
<1>1. TypeOK /\ Position
  BY DEF InductiveInvariant
<1>2. PICK reply \in Answers : EvidenceShape(reply)
  BY <1>1, ProbeEvidence
<1>3. stage \in ProbeStages /\ UNCHANGED <<scope, fitted>>
  BY DEF Probe, ExtendedSession, UdsIdentity, KwpIdentity, SparePart, Software,
         Hardware, TesterPresent, DtcFallback, VinFallback, VariantFallback,
         UnchangedByProbe, ProbeStages
<1>4. adapter.header = Candidate /\ Candidate \in Routes /\ scope # "CACHED"
  BY <1>3, ProbeAddresses
<1>5. /\ reply \in {"positive", "negative", "none", "gateway"}
      /\ reply \in {"positive", "negative"} => Candidate \in fitted
      /\ reply = "gateway" => Candidate \in GatewayAnswers
  BY <1>1, <1>2, <1>4, HearType, AnswersAreOf DEF EvidenceShape
<1>6. unanswered \subseteq unanswered'
  BY <1>2 DEF EvidenceShape, Miss
<1>7. ASSUME Present(reply), Candidate \notin fitted,
             stage = "DISCOVERY_IDENTITY" => reply # "gateway"
      PROVE  /\ Candidate \in GatewayAnswers
             /\ Route[Candidate].session \/ Candidate \in unanswered
  <2>1. reply = "gateway"
    BY <1>5, <1>7 DEF Present
  <2>2. CASE stage = "DISCOVERY_EXTENDED_SESSION"
    BY <1>5, <2>1, <2>2 DEF AbsenceInvariant
  <2>3. CASE stage \in LaterStages \ {"DISCOVERY_RESTORE_TIMEOUT"}
    BY <1>5, <1>7, <2>1, <2>3 DEF AbsenceInvariant
  <2> QED
    BY <1>3, <1>7, <2>1, <2>2, <2>3 DEF LaterStages, ProbeStages
<1>8. Found' # Found /\ Candidate \notin fitted =>
        /\ Candidate \in GatewayAnswers
        /\ Route[Candidate].session \/ Candidate \in unanswered
  BY <1>2, <1>7 DEF EvidenceShape
<1>9. Found' \subseteq Found \cup {Candidate}
  BY <1>1, <1>2, <1>4, TableChangeIsLocal DEF EvidenceShape
<1>10. AbsenceReported'
  BY <1>3, <1>4, <1>6, <1>8, <1>9 DEF AbsenceInvariant, AbsenceReported
<1>11. stage' # "DISCOVERY_EXTENDED_SESSION"
  BY <1>2, AdvanceLeads DEF EvidenceShape, StaysWith
<1>12. ASSUME stage' \in LaterStages \ {"DISCOVERY_RESTORE_TIMEOUT"}
       PROVE  Candidate' \in fitted' \cup unanswered'
  <2>1. StaysWith(reply)
    BY <1>2, <1>12, AdvanceLeads DEF EvidenceShape
  <2>2. Candidate' = Candidate
    BY <1>3, <2>1 DEF StaysWith, Candidate
  <2>3. CASE stage = "DISCOVERY_IDENTITY"
    <3>1. reply # "gateway"
      BY <1>12, <2>1, <2>3 DEF StaysWith
    <3>2. Miss(reply)
      BY <1>2, <2>3 DEF EvidenceShape
    <3> QED
      BY <1>3, <1>5, <2>2, <3>1, <3>2 DEF Miss
  <2>4. CASE stage \in LaterStages \ {"DISCOVERY_RESTORE_TIMEOUT"}
    BY <1>3, <1>6, <2>2, <2>4 DEF AbsenceInvariant
  <2>5. stage # "DISCOVERY_EXTENDED_SESSION"
    BY <1>2, <1>12 DEF EvidenceShape, LaterStages, ProbeStages, TimeoutStages
  <2> QED
    BY <1>3, <2>3, <2>4, <2>5 DEF LaterStages, ProbeStages
<1> QED
  BY <1>10, <1>11, <1>12 DEF AbsenceInvariant

\* The steps that neither ask an ECU nor start anything lead to a session
\* request only where the route allows one, and to a later stage only to send
\* what the longer timeout was for.
LEMMA QuietKeepsAbsence ==
    ASSUME InductiveInvariant, AbsenceInvariant, Quiet, Next, ~Probe
    PROVE  AbsenceInvariant'
<1>1. Position /\ UNCHANGED <<scope, found, fitted, unanswered>>
  BY DEF InductiveInvariant, Quiet, moduleVars
<1>2. AbsenceReported'
  BY <1>1 DEF AbsenceInvariant, AbsenceReported, Found
<1>3. CASE VinSetTimeout
  <2>1. Candidate' = Candidate /\ stage = "DISCOVERY_VIN_SET_TIMEOUT"
    BY <1>3 DEF VinSetTimeout, Candidate
  <2> QED
    BY <1>1, <1>2, <1>3, <2>1
    DEF VinSetTimeout, AbsenceInvariant, LaterStages, TimeoutStages
<1>4. CASE SetReceiveForSession
  <2>1. /\ stage' = "DISCOVERY_EXTENDED_SESSION" /\ Candidate' = Candidate
        /\ Route[Candidate].session
    BY <1>4 DEF SetReceiveForSession, Setup, Candidate, routeVars
  <2> QED
    BY <1>2, <2>1 DEF AbsenceInvariant, LaterStages, ProbeStages, TimeoutStages
<1>5. ASSUME ~VinSetTimeout, ~SetReceiveForSession
      PROVE  stage' \notin (LaterStages \ {"DISCOVERY_RESTORE_TIMEOUT"})
                              \cup {"DISCOVERY_EXTENDED_SESSION"}
  <2>1. CASE \/ InitProtocol11 \/ InitHeaders \/ InitAutoFormat \/ InitFlowControl
             \/ SwitchProtocol29 \/ SwitchHeadersOff29 \/ SetHeader
             \/ ResetReceive \/ SetFilter
             \/ DtcSetProtocol \/ DtcSetHeader \/ DtcSetReceive
             \/ CachedIdentitySetTimeout \/ CachedIdentityRestoreTimeout
    BY <2>1 DEF InitProtocol11, InitHeaders, InitAutoFormat, InitFlowControl,
       SwitchProtocol29, SwitchHeadersOff29, SetHeader, ResetReceive, SetFilter,
       DtcSetProtocol, DtcSetHeader, DtcSetReceive, CachedIdentitySetTimeout,
       CachedIdentityRestoreTimeout, Setup, SessionOrValidate, LaterStages,
       ProbeStages, TimeoutStages
  <2>2. CASE InitTimeout
    BY <1>1, <2>2 DEF InitTimeout, Position, InitStages, LaterStages, ProbeStages,
       TimeoutStages
  <2>3. CASE SetMask \/ SetReceive \/ DtcSetReceiveForIdentity \/ AdapterRejects
    BY <2>3 DEF SetMask, SetReceive, StartIdentity, DtcSetReceiveForIdentity,
       AdapterRejects, LaterStages, ProbeStages, TimeoutStages
  <2>4. CASE RestoreTimeout
    BY <2>4, NextRouteLeads DEF RestoreTimeout, LaterStages, ProbeStages, TimeoutStages
  <2>5. CASE Interruption
    BY <2>5 DEF Interruption, RetryRoute, SkipModule, SkipRoute, ResumeAt, GiveUp,
       LaterStages, ProbeStages, TimeoutStages
  <2>6. CASE Rest
    BY <2>6 DEF Rest, vars, Ended, LaterStages, ProbeStages, TimeoutStages
  <2>7. CASE ModuleRequests
    BY <2>7, FaultPassStays DEF LaterStages, ProbeStages, TimeoutStages,
       DtcStages, DtcSetupStages, DtcRequestStages
  <2>8. CASE BeginLateTransmission
    BY <2>8 DEF BeginLateTransmission, LaterStages, ProbeStages, TimeoutStages
  <2> QED
    BY <1>5, <2>1, <2>2, <2>3, <2>4, <2>5, <2>6, <2>7, <2>8
    DEF Next, Step, Probe, ModuleRequests
<1> QED
  BY <1>2, <1>3, <1>4, <1>5 DEF AbsenceInvariant

LEMMA FaultPassKeepsAbsence ==
    ASSUME InductiveInvariant, AbsenceInvariant, ModuleRequests \/ BeginLateTransmission
    PROVE  AbsenceInvariant'
<1>1. stage' \notin LaterStages \cup {"DISCOVERY_EXTENDED_SESSION"}
  BY FaultPassStays DEF BeginLateTransmission, LaterStages, ProbeStages, TimeoutStages,
       DtcStages, DtcSetupStages, DtcRequestStages
<1>2. scope' = "CACHED" \/ UNCHANGED <<scope, found, fitted, unanswered>>
  BY ModuleRequestShape DEF BeginLateTransmission
<1>3. AbsenceReported'
  BY <1>2 DEF AbsenceInvariant, AbsenceReported, Found
<1> QED
  BY <1>1, <1>3 DEF AbsenceInvariant

\* Only the routes of the known table that allow it are asked for a session,
\* and a stage after the identity is reached only for an ECU that is there or
\* whose identity request was missed (identity_response_state).
THEOREM AbsenceInvariantHolds == Spec => []AbsenceInvariant
<1>1. Init => AbsenceInvariant
  <2> SUFFICES ASSUME Init PROVE AbsenceInvariant
    OBVIOUS
  <2>1. stage = "INIT_PROTOCOL_11"
    BY DEF Init
  <2>2. scope # "CACHED" => found = <<>>
    BY DEF Init, BeginDiscovery, BeginCached
  <2>3. AbsenceReported
    BY <2>2 DEF AbsenceReported, Found
  <2> QED
    BY <2>1, <2>3 DEF AbsenceInvariant, LaterStages, ProbeStages, TimeoutStages
<1>2. InductiveInvariant /\ EvidenceInvariant /\ AbsenceInvariant /\ [Next]_vars
        => AbsenceInvariant'
  <2> SUFFICES ASSUME InductiveInvariant, EvidenceInvariant, AbsenceInvariant,
                      [Next]_vars
               PROVE  AbsenceInvariant'
    OBVIOUS
  <2>1. CASE UNCHANGED vars
    <3>1. UNCHANGED <<stage, scope, target, found, fitted, unanswered>>
      BY <2>1 DEF vars, routeVars, moduleVars
    <3>2. Candidate' = Candidate /\ Found' = Found
      BY <3>1 DEF Candidate, Found
    <3> QED
      BY <3>1, <3>2 DEF AbsenceInvariant, AbsenceReported
  <2>2. CASE Next
    BY <2>2, OtherStepsAreQuiet, ProbeKeepsAbsence, QuietKeepsAbsence, FaultPassKeepsAbsence
  <2> QED
    BY <2>1, <2>2
<1> QED
  BY <1>1, <1>2, InductiveInvariantHolds, EvidenceInvariantHolds, PTL DEF Spec

\* An ECU that is not there is recorded only where the gateway answers for it,
\* and only on a route with an automatic session or after an identity request
\* that the gateway's reply did not end: these are the two ways to a phantom.
THEOREM AbsenceIsReported == Spec => []AbsenceReported
<1>1. AbsenceInvariant => AbsenceReported
  BY DEF AbsenceInvariant
<1> QED
  BY <1>1, AbsenceInvariantHolds, PTL

=============================================================================
