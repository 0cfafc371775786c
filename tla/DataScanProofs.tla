--------------------------- MODULE DataScanProofs ---------------------------
(***************************************************************************)
(* Proofs that a data scan files every answer under the read it answers,   *)
(* counts every attempt once and stays within its plan, for every set of   *)
(* begin calls, every identifier width and every bound.                    *)
(***************************************************************************)
EXTENDS DataScan, TLAPS
-----------------------------------------------------------------------------
(* The plan of a call *)

LEMMA CallsAreTyped ==
    ASSUME NEW c \in Calls \cup {NoCall}
    PROVE  /\ c \in CallType
           /\ c.commands \in Seq(Commands)
           /\ c.first \in Ids /\ c.last \in Ids
           /\ c.protocol \in Protocols
<1>1. 0 \in Ids
  BY DataAssumption DEF Ids
<1>2. NoCall \in CallType
  BY <1>1 DEF NoCall, CallType, CallKinds, Protocols
<1>3. c \in CallType
  BY <1>2, DataAssumption
<1> QED
  BY <1>3 DEF CallType

LEMMA CallIsTyped ==
    ASSUME TypeOK
    PROVE  /\ call \in CallType
           /\ call.commands \in Seq(Commands)
           /\ call.first \in Ids /\ call.last \in Ids
           /\ call.protocol \in Protocols
BY CallsAreTyped DEF TypeOK

LEMMA PlanIsTyped ==
    ASSUME TypeOK, Position
    PROVE  /\ PlanLength \in Nat
           /\ \A n \in 0 .. PlanLength - 1 : Planned(n) \in Commands
<1>1. /\ call.commands \in Seq(Commands)
      /\ call.first \in Ids /\ call.last \in Ids /\ call.first <= call.last
  BY CallIsTyped DEF Position, Accepted, ConfigValid
<1>2. PlanLength \in Nat
  BY <1>1, DataAssumption DEF PlanLength, Ids
<1>3. ASSUME NEW n \in 0 .. PlanLength - 1 PROVE Planned(n) \in Commands
  <2>1. CASE ListActive(call)
    BY <1>1, <2>1 DEF PlanLength, Planned
  <2>2. CASE ~ListActive(call)
    <3>1. call.first + n \in Ids
      BY <1>1, <2>2, DataAssumption DEF PlanLength, Ids
    <3> QED
      BY <2>2, <3>1 DEF Planned, Commands, Services
  <2> QED
    BY <2>1, <2>2
<1> QED
  BY <1>2, <1>3

\* No read occurs twice in a plan.
LEMMA PlanIsDistinct ==
    ASSUME TypeOK, Position, NEW m \in 0 .. PlanLength - 1,
           NEW n \in 0 .. PlanLength - 1, Planned(m) = Planned(n)
    PROVE  m = n
<1>1. /\ call.commands \in Seq(Commands)
      /\ call.first \in Ids /\ call.last \in Ids /\ call.first <= call.last
  BY CallIsTyped DEF Position, Accepted, ConfigValid
<1>2. CASE ListActive(call)
  <2>1. m + 1 \in DOMAIN call.commands /\ n + 1 \in DOMAIN call.commands
    BY <1>1, <1>2 DEF PlanLength
  <2>2. Distinct(call)
    BY <1>2 DEF Position, Accepted, ListValid
  <2>3. call.commands[m + 1] = call.commands[n + 1]
    BY <1>2 DEF Planned
  <2> QED
    BY <2>1, <2>2, <2>3 DEF Distinct
<1>3. CASE ~ListActive(call)
  <2>1. call.first + m = call.first + n
    BY <1>3 DEF Planned
  <2> QED
    BY <1>1, <2>1, DataAssumption DEF Ids
<1> QED
  BY <1>2, <1>3

\* The request is the read the position stands for.
LEMMA RequestIsPlanned ==
    ASSUME TypeOK, Position, stage # "COMPLETE"
    PROVE  Request = Planned(attempted) /\ Request \in Commands
<1>1. attempted \in 0 .. PlanLength - 1
  BY PlanIsTyped DEF TypeOK, Position
<1>2. Planned(attempted) \in Commands
  BY <1>1, PlanIsTyped
<1>3. current = Planned(attempted).id
  BY DEF Position
<1>4. Planned(index).service = Planned(attempted).service
  BY DEF Position, Planned
<1> QED
  BY <1>2, <1>3, <1>4 DEF Request, Commands

\* The identifier after one that is not the last.
LEMMA NoWrap ==
    ASSUME NEW a \in Nat, NEW b \in Nat, a < b
    PROVE  a % b = a
OBVIOUS

\* Moving on leaves the position one further, or ends the scan at the end of
\* its plan.
LEMMA AdvanceMoves ==
    ASSUME TypeOK, Position, active, stage = "READ_IDENTIFIER",
           AdvanceIdentifier
    PROVE  /\ attempted' = attempted + 1 /\ call' = call
           /\ retries' = 0
           /\ index' \in Nat
           /\ current' \in Ids
           /\ ListActive(call) => index' = attempted'
           /\ attempted' <= PlanLength
           /\ \/ /\ stage' = "COMPLETE" /\ active' = FALSE
                 /\ attempted' = PlanLength
              \/ /\ stage' = "READ_IDENTIFIER" /\ active' = TRUE
                 /\ attempted' < PlanLength
                 /\ current' = Planned(attempted').id
<1>1. /\ attempted' = attempted + 1 /\ call' = call /\ retries' = 0
      /\ index' = IF ListActive(call) THEN index + 1 ELSE index
  BY DEF AdvanceIdentifier
<1>2. /\ PlanLength \in Nat /\ attempted \in Nat /\ attempted < PlanLength
      /\ index \in Nat /\ current \in Ids /\ current = Planned(attempted).id
  BY PlanIsTyped DEF TypeOK, Position
<1>3. CASE LastOne
  <2>1. stage' = "COMPLETE" /\ active' = FALSE /\ current' = current
    BY <1>3 DEF AdvanceIdentifier
  <2>2. attempted + 1 = PlanLength
    <3>1. CASE ListActive(call)
      BY <1>2, <1>3, <3>1 DEF LastOne, PlanLength, Position
    <3>2. CASE ~ListActive(call)
      BY <1>2, <1>3, <3>2, CallIsTyped, DataAssumption
         DEF LastOne, PlanLength, Planned, Ids
    <3> QED
      BY <3>1, <3>2
  <2> QED
    BY <1>1, <1>2, <2>1, <2>2 DEF Position
<1>4. CASE ~LastOne
  <2>1. /\ stage' = "READ_IDENTIFIER" /\ active' = TRUE
        /\ current' = IF ListActive(call) THEN call.commands[index + 2].id
                      ELSE (current + 1) % (IdLast + 1)
    BY <1>4 DEF AdvanceIdentifier
  <2>2. attempted + 1 < PlanLength
    <3>1. CASE ListActive(call)
      BY <1>2, <1>4, <3>1 DEF LastOne, PlanLength, Position
    <3>2. CASE ~ListActive(call)
      BY <1>2, <1>4, <3>2, CallIsTyped, DataAssumption
         DEF LastOne, PlanLength, Planned, Ids
    <3> QED
      BY <3>1, <3>2
  <2>3. current' = Planned(attempted + 1).id
    <3>1. CASE ListActive(call)
      <4>1. index = attempted
        BY <3>1 DEF Position
      <4>2. index + 2 = (attempted + 1) + 1
        BY <1>2, <4>1
      <4> QED
        BY <2>1, <3>1, <4>2 DEF Planned
    <3>2. CASE ~ListActive(call)
      <4>1. /\ current = call.first + attempted
            /\ current + 1 = call.first + (attempted + 1)
        BY <1>2, <3>2, CallIsTyped, DataAssumption DEF Planned, Ids
      <4>2. current + 1 <= call.last /\ call.last <= IdLast
        BY <1>2, <2>2, <3>2, <4>1, CallIsTyped, DataAssumption
           DEF PlanLength, Ids
      <4>3. current + 1 \in Nat /\ IdLast + 1 \in Nat /\ current + 1 < IdLast + 1
        BY <1>2, <4>2, CallIsTyped, DataAssumption DEF Ids
      <4>4. (current + 1) % (IdLast + 1) = current + 1
        BY <4>3, NoWrap
      <4> QED
        BY <2>1, <3>2, <4>1, <4>4 DEF Planned
    <3> QED
      BY <3>1, <3>2
  <2>4. Planned(attempted + 1) \in Commands
    BY <1>2, <2>2, PlanIsTyped
  <2> QED
    BY <1>1, <1>2, <2>1, <2>2, <2>3, <2>4 DEF Position, Commands
<1> QED
  BY <1>3, <1>4

-----------------------------------------------------------------------------
(* The wire *)

LEMMA AnswerTypes ==
    ASSUME NEW c \in Commands
    PROVE  {Positive(c), Negative(c), Presence, Garbage, NoData} \subseteq Answers
BY DataAssumption
   DEF Positive, Negative, Presence, Garbage, NoData, Answers, Commands,
       Services, Ids

LEMMA ExchangeKeepsWire ==
    ASSUME TypeOK, NEW answers \in SUBSET Answers, NEW r \in Answers,
           Exchange(answers, r)
    PROVE  /\ late' \in Seq(Answers) /\ delays' \in 0 .. MaxDelays
           /\ steady' \in BOOLEAN /\ protocol' \in Protocols
<1>1. steady' \in BOOLEAN /\ protocol' \in Protocols
  BY DEF TypeOK, Exchange
<1>2. late \in Seq(Answers) /\ delays \in 0 .. MaxDelays /\ MaxDelays \in Nat
  BY DataAssumption DEF TypeOK
<1>3. late' \in Seq(Answers)
  <2>1. \A a \in answers : a \in Answers
    OBVIOUS
  <2>2. \A a \in answers : Append(late, a) \in Seq(Answers)
    BY <1>2, <2>1
  <2>3. ASSUME late # <<>>
        PROVE  /\ Tail(late) \in Seq(Answers)
               /\ \A a \in answers : Append(Tail(late), a) \in Seq(Answers)
    BY <1>2, <2>1, <2>3
  <2> QED
    BY <1>2, <2>2, <2>3 DEF Exchange
<1>4. delays' \in 0 .. MaxDelays
  BY <1>2 DEF Exchange
<1> QED
  BY <1>1, <1>3, <1>4

-----------------------------------------------------------------------------
(* The steps *)

\* What a step that leaves the records and the call alone has to show.
LEMMA SameRecords ==
    ASSUME InductiveInvariant, UNCHANGED <<call, attempted, tally, records>>
    PROVE  /\ RecordAttribution'
           /\ attempted' = Attempted'
           /\ Len(records') = IF tally'.positive > MaxRecords THEN MaxRecords
                              ELSE tally'.positive
           /\ \A i, j \in DOMAIN records' :
                records'[i].service = records'[j].service
                    /\ records'[i].id = records'[j].id => i = j
           /\ \A i \in DOMAIN records' : \E n \in 0 .. attempted' - 1 :
                Planned(n)' = [service |-> records'[i].service,
                               id |-> records'[i].id]
           /\ Accepted(call)'
           /\ PlanLength' = PlanLength
           /\ \A n : Planned(n)' = Planned(n)
BY DEF InductiveInvariant, RecordAttribution, Tally, Attempted,
       ReadsStayInPlan, Position, Planned, PlanLength, Accepted, SizeValid,
       ConfigValid, ListValid, ListActive, CommandValid, Distinct,
       LocalIdentifier

\* A step that changes neither the position nor the records.
LEMMA QuietStep ==
    ASSUME InductiveInvariant, TypeOK',
           UNCHANGED <<call, current, index, attempted, tally, records>>,
           stage' # "COMPLETE" \/ stage' = stage,
           stage # "COMPLETE" \/ stage' = stage,
           active' => stage' \notin {"COMPLETE", "FAILED"},
           active' /\ stage' # "READ_IDENTIFIER" => attempted = 0
    PROVE  InductiveInvariant'
<1>1. TypeOK /\ Position /\ Tally
  BY DEF InductiveInvariant
<1>2. Position'
  BY <1>1, SameRecords DEF Position
<1>3. Tally'
  BY <1>1, SameRecords DEF Tally
<1>4. RecordAttribution'
  BY SameRecords
<1>5. ReadsStayInPlan'
  <2>1. stage' = "READ_IDENTIFIER" => stage # "COMPLETE"
    OBVIOUS
  <2>2. Request' = Request
    BY SameRecords DEF Request
  <2>3. stage # "COMPLETE" => Request = Planned(attempted) /\ attempted < PlanLength
    BY <1>1, RequestIsPlanned DEF Position
  <2> QED
    BY <2>1, <2>2, <2>3, SameRecords DEF ReadsStayInPlan
<1> QED
  BY <1>2, <1>3, <1>4, <1>5 DEF InductiveInvariant

LEMMA InitialisedScan ==
    ASSUME NEW c \in Calls \cup {NoCall}, Accepted(c), InitialiseScan(c),
           active' \in BOOLEAN, protocol' \in Protocols,
           late' \in Seq(Answers), delays' \in 0 .. MaxDelays,
           steady' \in BOOLEAN, scans' \in 0 .. MaxScans
    PROVE  InductiveInvariant'
<1>1. /\ c \in CallType /\ c.commands \in Seq(Commands)
      /\ c.first \in Ids /\ c.last \in Ids
  BY CallsAreTyped
<1>2. /\ call' = c /\ stage' = "INIT_PROTOCOL" /\ index' = 0 /\ retries' = 0
      /\ attempted' = 0 /\ tally' = EmptyTally /\ records' = <<>>
      /\ current' = IF ListActive(c) THEN c.commands[1].id ELSE c.first
  BY DEF InitialiseScan
<1>3. ListActive(c) => c.commands[1] \in Commands /\ Len(c.commands) \in Nat \ {0}
  BY <1>1, DataAssumption DEF Accepted, SizeValid
<1>4. current' \in Ids
  BY <1>1, <1>2, <1>3 DEF Commands
<1>5. TypeOK'
  BY <1>2, <1>4, DataAssumption
     DEF TypeOK, Stages, AdapterStages, MaxRetries, EmptyTally
<1>6. Position'
  <2>1. Accepted(call)'
    BY <1>2 DEF Accepted, SizeValid, ConfigValid, ListValid, ListActive,
                CommandValid, Distinct, LocalIdentifier
  <2>2. 0 < PlanLength' /\ 0 <= PlanLength'
    BY <1>1, <1>2, <1>3, DataAssumption
       DEF PlanLength, ListActive, Accepted, ConfigValid, Ids
  <2>3. current' = Planned(0)'.id
    BY <1>1, <1>2, DataAssumption DEF Planned, ListActive, Ids
  <2> QED
    <3>1. \A i \in DOMAIN records' : FALSE
      BY <1>2
    <3>2. Planned(attempted)' = Planned(0)'
      BY <1>2 DEF Planned
    <3> QED
      BY <1>2, <2>1, <2>2, <2>3, <3>1, <3>2 DEF Position
<1>7. Tally'
  BY <1>2, DataAssumption DEF Tally, Attempted, EmptyTally
<1>8. RecordAttribution' /\ ReadsStayInPlan'
  BY <1>2 DEF RecordAttribution, ReadsStayInPlan
<1> QED
  BY <1>5, <1>6, <1>7, <1>8 DEF InductiveInvariant

LEMMA BeginKeeps ==
    ASSUME InductiveInvariant, Begin \/ Refuse
    PROVE  InductiveInvariant'
<1>1. TypeOK /\ MaxScans \in Nat
  BY DataAssumption DEF InductiveInvariant
<1>2. /\ protocol' \in Protocols /\ late' \in Seq(Answers)
      /\ delays' \in 0 .. MaxDelays /\ steady' \in BOOLEAN
      /\ scans' \in 0 .. MaxScans /\ active' \in BOOLEAN
  <2>1. UNCHANGED <<protocol, late, delays, steady>> /\ scans' = scans + 1
    BY DEF Begin, Refuse, wireVars
  <2>2. scans < MaxScans /\ active' \in BOOLEAN
    BY <1>1 DEF Begin, Refuse, TypeOK
  <2> QED
    BY <1>1, <2>1, <2>2 DEF TypeOK
<1>3. CASE Begin
  BY <1>2, <1>3, InitialisedScan DEF Begin
<1>4. CASE Refuse
  <2>1. CASE InitialiseScan(NoCall)
    <3>1. Accepted(NoCall)
      BY DEF Accepted, NoCall, SizeValid, ConfigValid, ListValid, ListActive
    <3> QED
      BY <1>2, <2>1, <3>1, InitialisedScan
  <2>2. CASE UNCHANGED scanVars
    <3>1. TypeOK'
      BY <1>1, <1>2, <2>2 DEF TypeOK, scanVars
    <3> QED
      BY <1>4, <2>2, <3>1, QuietStep DEF Refuse, scanVars
  <2> QED
    BY <1>4, <2>1, <2>2 DEF Refuse
<1> QED
  BY <1>3, <1>4

LEMMA SetupKeeps ==
    ASSUME InductiveInvariant, AdapterStep \/ AdapterError \/ PresenceStep
    PROVE  InductiveInvariant'
<1>1. TypeOK /\ Position
  BY DEF InductiveInvariant
<1>2. /\ active /\ stage \in AdapterStages \cup PresenceStages
      /\ UNCHANGED <<call, current, index, retries, attempted, tally, records,
                     scans>>
  BY DEF AdapterStep, AdapterError, PresenceStep, Progress
<1>3. /\ stage' \in Stages \ {"COMPLETE"}
      /\ active' \in BOOLEAN /\ (active' => stage' # "FAILED")
  BY <1>1 DEF AdapterStep, AdapterError, PresenceStep, FollowingStage,
              AdapterStages, PresenceStages, Stages, TypeOK
<1>4. /\ late' \in Seq(Answers) /\ delays' \in 0 .. MaxDelays
      /\ steady' \in BOOLEAN /\ protocol' \in Protocols
  <2>1. {Presence} \in SUBSET Answers
    BY DataAssumption DEF Presence, Answers, Services, Ids
  <2>2. CASE UNCHANGED wireVars
    BY <1>1, <2>2 DEF TypeOK, wireVars
  <2>3. CASE \E r \in Answers : Exchange({Presence}, r)
    BY <1>1, <2>1, <2>3, ExchangeKeepsWire
  <2> QED
    BY <2>2, <2>3 DEF AdapterStep, AdapterError, PresenceStep
<1>5. TypeOK'
  BY <1>1, <1>2, <1>3, <1>4 DEF TypeOK
<1>6. attempted = 0 /\ stage # "COMPLETE"
  BY <1>1, <1>2 DEF Position, AdapterStages, PresenceStages
<1> QED
  BY <1>2, <1>3, <1>5, <1>6, QuietStep

\* A step that gives up or loses an answer.
LEMMA DropKeeps ==
    ASSUME InductiveInvariant, Interrupt \/ DropLate \/ Rest \/ UNCHANGED vars
    PROVE  InductiveInvariant'
<1>1. TypeOK /\ Position
  BY DEF InductiveInvariant
<1>2. late # <<>> => Tail(late) \in Seq(Answers)
  BY <1>1 DEF TypeOK
<1>3. /\ UNCHANGED scanVars /\ UNCHANGED <<protocol, delays, steady, scans>>
      /\ (late' = late \/ (late # <<>> /\ late' = Tail(late)))
      /\ (active' = active \/ active' = FALSE)
  BY DEF Interrupt, DropLate, Rest, vars, wireVars
<1>4. TypeOK'
  BY <1>1, <1>2, <1>3 DEF TypeOK, scanVars
<1> QED
  BY <1>1, <1>3, <1>4, QuietStep DEF scanVars, Position

-----------------------------------------------------------------------------
(* Reading *)

\* The attempt is over: one more outcome, and a record of the current read if
\* it was positive.
LEMMA OutcomeKeeps ==
    ASSUME InductiveInvariant, active, stage = "READ_IDENTIFIER",
           AdvanceIdentifier, TypeOK',
           Attempted' = Attempted + 1,
           \/ /\ records' = records
              /\ \/ tally'.positive = tally.positive
                 \/ /\ tally'.positive = tally.positive + 1
                    /\ tally.positive + 1 > MaxRecords
           \/ /\ tally'.positive = tally.positive + 1
              /\ tally.positive + 1 <= MaxRecords
              /\ records' = Append(records,
                    [service |-> Request.service, id |-> Request.id,
                     answers |-> Request])
    PROVE  InductiveInvariant'
<1>1. /\ TypeOK /\ Position /\ Tally /\ RecordAttribution /\ ReadsStayInPlan
      /\ records \in Seq(RecordType) /\ attempted \in Nat
      /\ MaxRecords \in Nat /\ tally.positive \in Nat
  BY DataAssumption DEF InductiveInvariant, TypeOK
<1>2. /\ attempted' = attempted + 1 /\ call' = call
      /\ ListActive(call) => index' = attempted'
      /\ attempted' <= PlanLength
      /\ \/ /\ stage' = "COMPLETE" /\ active' = FALSE
            /\ attempted' = PlanLength
         \/ /\ stage' = "READ_IDENTIFIER" /\ active' = TRUE
            /\ attempted' < PlanLength
            /\ current' = Planned(attempted').id
  BY <1>1, AdvanceMoves
<1>3. /\ Request = Planned(attempted) /\ Request \in Commands
      /\ attempted < PlanLength
  BY <1>1, RequestIsPlanned DEF Position
<1>4. Request = [service |-> Request.service, id |-> Request.id]
  BY <1>3 DEF Commands
<1>5. PlanLength' = PlanLength /\ \A n : Planned(n)' = Planned(n)
  BY <1>2 DEF PlanLength, Planned
<1>6. Accepted(call)'
  BY <1>1, <1>2 DEF Position, Accepted, SizeValid, ConfigValid, ListValid,
                    ListActive, CommandValid, Distinct, LocalIdentifier
\* The new record, if there is one, is the last.
<1>7. ASSUME NEW i \in DOMAIN records'
      PROVE  \/ i \in DOMAIN records /\ records'[i] = records[i]
             \/ /\ i = Len(records) + 1
                /\ records'[i].service = Request.service
                /\ records'[i].id = Request.id
                /\ records'[i].answers = Request
  BY <1>1, <1>7
<1>8. RecordAttribution'
  BY <1>1, <1>4, <1>7 DEF RecordAttribution
<1>9. ASSUME NEW i \in DOMAIN records'
      PROVE  \E n \in 0 .. attempted' - 1 :
                Planned(n)' = [service |-> records'[i].service,
                               id |-> records'[i].id]
  <2>1. CASE i \in DOMAIN records /\ records'[i] = records[i]
    <3>1. PICK n \in 0 .. attempted - 1 :
            Planned(n) = [service |-> records[i].service, id |-> records[i].id]
      BY <1>1, <2>1 DEF Position
    <3>2. n \in 0 .. attempted' - 1
      BY <1>1, <1>2, <3>1
    <3> QED
      BY <1>5, <2>1, <3>1, <3>2
  <2>2. CASE /\ records'[i].service = Request.service
             /\ records'[i].id = Request.id
    <3>1. attempted \in 0 .. attempted' - 1
      BY <1>1, <1>2
    <3> QED
      BY <1>3, <1>4, <1>5, <2>2, <3>1
  <2> QED
    BY <1>7, <2>1, <2>2
<1>10. Position'
  <2>1. stage' # "COMPLETE" =>
            attempted' < PlanLength' /\ current' = Planned(attempted)'.id
    BY <1>2, <1>5
  <2> QED
    BY <1>2, <1>5, <1>6, <1>9, <2>1 DEF Position
<1>11. Tally'
  <2>1. attempted' = Attempted'
    BY <1>1, <1>2 DEF Tally
  <2>2. Len(records') = IF tally'.positive > MaxRecords THEN MaxRecords
                        ELSE tally'.positive
    BY <1>1 DEF Tally
  <2> QED
    BY <1>2, <1>5, <2>1, <2>2 DEF Tally
<1>12. ASSUME NEW i \in DOMAIN records', NEW j \in DOMAIN records',
              records'[i].service = records'[j].service,
              records'[i].id = records'[j].id
       PROVE  i = j
  \* An earlier record is of an earlier read of the plan.
  <2>1. ASSUME NEW k \in DOMAIN records,
               records[k].service = Request.service, records[k].id = Request.id
        PROVE  FALSE
    <3>1. PICK n \in 0 .. attempted - 1 : Planned(n) = Request
      BY <1>1, <1>4, <2>1 DEF Position
    <3>2. /\ n \in 0 .. PlanLength - 1 /\ attempted \in 0 .. PlanLength - 1
          /\ n # attempted
      BY <1>1, <1>3, <3>1, PlanIsTyped
    <3> QED
      BY <1>1, <1>3, <3>1, <3>2, PlanIsDistinct
  <2> QED
    BY <1>1, <1>7, <1>12, <2>1 DEF ReadsStayInPlan
<1>13. ReadsStayInPlan'
  <2>1. active' /\ stage' = "READ_IDENTIFIER" =>
            attempted' < PlanLength' /\ Request' = Planned(attempted)'
    <3>1. CASE stage' = "COMPLETE"
      BY <3>1
    <3>2. CASE stage' # "COMPLETE"
      <4>1. TypeOK' /\ Position' /\ stage' # "COMPLETE"
        BY <1>10, <3>2
      <4>2. (TypeOK /\ Position /\ stage # "COMPLETE"
                => Request = Planned(attempted))'
        BY RequestIsPlanned, PTL
      <4> QED
        BY <1>10, <3>2, <4>1, <4>2 DEF Position
    <3> QED
      BY <3>1, <3>2
  <2> QED
    BY <1>12, <2>1 DEF ReadsStayInPlan
<1> QED
  BY <1>8, <1>10, <1>11, <1>13 DEF InductiveInvariant

\* A counter of the tally goes up by one.
LEMMA TallyGrows ==
    ASSUME NEW what \in {"positive", "negative", "noResponse", "invalid"},
           tally \in [positive : Nat, negative : Nat, noResponse : Nat,
                     invalid : Nat],
           tally' = [tally EXCEPT ![what] = @ + 1]
    PROVE  /\ tally' \in [positive : Nat, negative : Nat, noResponse : Nat,
                          invalid : Nat]
           /\ Attempted' = Attempted + 1
           /\ tally.positive \in Nat
           /\ tally'.positive = IF what = "positive" THEN tally.positive + 1
                                ELSE tally.positive
<1>1. /\ tally.positive \in Nat /\ tally.negative \in Nat
      /\ tally.noResponse \in Nat /\ tally.invalid \in Nat
  OBVIOUS
<1>2. CASE what = "positive"
  <2>1. tally' = [tally EXCEPT !.positive = tally.positive + 1]
    BY <1>2
  <2> QED
    BY <1>1, <1>2, <2>1 DEF Attempted
<1>3. CASE what = "negative"
  <2>1. tally' = [tally EXCEPT !.negative = tally.negative + 1]
    BY <1>3
  <2> QED
    BY <1>1, <1>3, <2>1 DEF Attempted
<1>4. CASE what = "noResponse"
  <2>1. tally' = [tally EXCEPT !.noResponse = tally.noResponse + 1]
    BY <1>4
  <2> QED
    BY <1>1, <1>4, <2>1 DEF Attempted
<1>5. CASE what = "invalid"
  <2>1. tally' = [tally EXCEPT !.invalid = tally.invalid + 1]
    BY <1>5
  <2> QED
    BY <1>1, <1>5, <2>1 DEF Attempted
<1> QED
  BY <1>2, <1>3, <1>4, <1>5

LEMMA ReadKeeps ==
    ASSUME InductiveInvariant, ReadIdentifier
    PROVE  InductiveInvariant'
<1>1. TypeOK /\ Position /\ active /\ stage = "READ_IDENTIFIER"
  BY DEF InductiveInvariant, ReadIdentifier
<1>2. /\ Request \in Commands /\ scans' \in 0 .. MaxScans
      /\ MaxRecords \in Nat /\ records \in Seq(RecordType)
      /\ tally \in [positive : Nat, negative : Nat, noResponse : Nat,
                    invalid : Nat]
      /\ retries \in 0 .. MaxRetries
  BY <1>1, RequestIsPlanned, DataAssumption DEF ReadIdentifier, TypeOK
<1>3. PICK r \in Answers :
        /\ Exchange({Positive(Request)}
                        \cup (IF steady THEN {} ELSE {Negative(Request)}), r)
        /\ Accept(r)
  BY DEF ReadIdentifier
<1>4. {Positive(Request)}
            \cup (IF steady THEN {} ELSE {Negative(Request)}) \in SUBSET Answers
  BY <1>2, AnswerTypes
<1>5. /\ late' \in Seq(Answers) /\ delays' \in 0 .. MaxDelays
      /\ steady' \in BOOLEAN /\ protocol' \in Protocols
  BY <1>1, <1>3, <1>4, ExchangeKeepsWire
<1>6. CASE retries < MaxRetries /\ Retry
  <2>1. TypeOK'
    BY <1>1, <1>2, <1>5, <1>6 DEF TypeOK, Retry, MaxRetries
  <2> QED
    BY <1>1, <1>6, <2>1, QuietStep DEF Retry
<1>7. ASSUME AdvanceIdentifier, tally' \in [positive : Nat, negative : Nat,
                                           noResponse : Nat, invalid : Nat],
             records' \in Seq(RecordType)
      PROVE  TypeOK'
  <2>1. /\ attempted' = attempted + 1 /\ call' = call /\ retries' = 0
        /\ index' \in Nat /\ current' \in Ids
        /\ stage' \in {"COMPLETE", "READ_IDENTIFIER"} /\ active' \in BOOLEAN
    BY <1>1, <1>7, AdvanceMoves
  <2> QED
    BY <1>1, <1>2, <1>5, <1>7, <2>1 DEF TypeOK, Stages, MaxRetries
<1>8. CASE \E what \in {"negative", "noResponse", "invalid"} : CountMiss(what)
  <2>1. PICK what \in {"negative", "noResponse", "invalid"} : CountMiss(what)
    BY <1>8
  <2>2. /\ tally' = [tally EXCEPT ![what] = @ + 1] /\ records' = records
        /\ AdvanceIdentifier
    BY <2>1 DEF CountMiss
  <2>3. /\ tally' \in [positive : Nat, negative : Nat, noResponse : Nat,
                       invalid : Nat]
        /\ Attempted' = Attempted + 1 /\ tally'.positive = tally.positive
    BY <1>2, <2>2, TallyGrows
  <2>4. TypeOK'
    BY <1>2, <1>7, <2>2, <2>3
  <2> QED
    BY <1>1, <2>2, <2>3, <2>4, OutcomeKeeps
<1>9. CASE Matches(r) /\ RecordPositive(r) /\ AdvanceIdentifier
  <2>1. [service |-> r.service, id |-> r.id] = Request
    BY <1>2, <1>9 DEF Matches, Positive, Commands
  <2>2. /\ tally' = [tally EXCEPT !.positive = @ + 1]
        /\ records' = IF tally.positive + 1 > MaxRecords THEN records
            ELSE Append(records, [service |-> Request.service,
                                  id |-> Request.id, answers |-> Request])
    BY <1>9, <2>1 DEF RecordPositive
  <2>3. /\ tally' \in [positive : Nat, negative : Nat, noResponse : Nat,
                       invalid : Nat]
        /\ Attempted' = Attempted + 1 /\ tally'.positive = tally.positive + 1
        /\ tally.positive \in Nat
    BY <1>2, <2>2, TallyGrows
  <2>4. [service |-> Request.service, id |-> Request.id, answers |-> Request]
            \in RecordType
    BY <1>2 DEF RecordType, Commands
  <2>5. records' \in Seq(RecordType)
    BY <1>2, <2>2, <2>4
  <2>6. TypeOK'
    BY <1>7, <1>9, <2>3, <2>5
  <2>7. CASE tally.positive + 1 > MaxRecords
    BY <1>1, <1>9, <2>2, <2>3, <2>6, <2>7, OutcomeKeeps
  <2>8. CASE tally.positive + 1 <= MaxRecords
    <3>1. ~(tally.positive + 1 > MaxRecords)
      BY <1>2, <2>3, <2>8
    <3>2. records' = Append(records, [service |-> Request.service,
                                      id |-> Request.id, answers |-> Request])
      BY <2>2, <3>1
    <3> QED
      BY <1>1, <1>9, <2>3, <2>6, <2>8, <3>2, OutcomeKeeps
  <2> QED
    BY <1>2, <2>3, <2>7, <2>8
<1> QED
  BY <1>3, <1>6, <1>8, <1>9 DEF Accept, MayRetry

-----------------------------------------------------------------------------
(* What a scan of known identifiers owes to its retries                    *)

\* A UDS scan asks with service 22 only.
LEMMA UdsRequest ==
    ASSUME TypeOK, Position, call.protocol = "UDS", stage # "COMPLETE"
    PROVE  Request.service = "22"
<1>1. /\ Request = Planned(attempted) /\ attempted \in 0 .. PlanLength - 1
  BY RequestIsPlanned, PlanIsTyped DEF TypeOK, Position
<1>2. CASE ListActive(call)
  <2>1. /\ attempted + 1 \in DOMAIN call.commands
        /\ \A i \in DOMAIN call.commands : CommandValid(call, call.commands[i])
    BY <1>1, <1>2, CallIsTyped DEF PlanLength, Position, Accepted, ListValid
  <2>2. call.commands[attempted + 1].service \in {"22"}
    BY <2>1 DEF CommandValid
  <2> QED
    BY <1>1, <1>2, <2>2 DEF Planned
<1>3. CASE ~ListActive(call)
  BY <1>1, <1>3 DEF Planned
<1> QED
  BY <1>2, <1>3

\* Outstanding answers that are left alone stay as they are.
LEMMA IdleOutstanding ==
    ASSUME TypeOK, Outstanding, UNCHANGED <<wireVars, tally, attempted, call>>,
           active' => active /\ retries' = retries /\ current' = current
                        /\ index' = index,
           active' /\ stage' # "READ_IDENTIFIER" => stage # "READ_IDENTIFIER",
           active' /\ stage' = "READ_IDENTIFIER" =>
                stage = "READ_IDENTIFIER" \/ retries = 0
    PROVE  Outstanding'
<1>1. /\ late' = late /\ delays' = delays /\ protocol' = protocol /\ steady' = steady
      /\ tally' = tally /\ attempted' = attempted /\ call' = call
  BY DEF wireVars
<1>2. active' => Request' = Request
  BY <1>1 DEF Request, Planned, ListActive
<1>3. Len(late) \in Nat /\ \A i \in DOMAIN late : i \in Nat /\ i <= Len(late)
  BY DEF TypeOK
<1>4. Refreshing' = Refreshing
  BY <1>1 DEF Refreshing
<1>5. ASSUME steady, active', Refreshing, stage' = "READ_IDENTIFIER"
      PROVE  /\ retries' <= Len(late)
             /\ \A i \in DOMAIN late :
                  i + retries' > Len(late) => late[i] = Positive(Request)
  <2>1. CASE stage = "READ_IDENTIFIER"
    BY <1>5, <2>1 DEF Outstanding
  <2>2. CASE retries = 0
    BY <1>3, <1>5, <2>2
  <2> QED
    BY <1>5, <2>1, <2>2
<1>6. Positive(Request)' = Positive(Request) \/ ~active'
  BY <1>2 DEF Positive
<1> QED
  BY <1>1, <1>4, <1>5, <1>6 DEF Outstanding

LEMMA BeginOwes ==
    ASSUME TypeOK, Outstanding, Begin \/ Refuse
    PROVE  Outstanding'
<1>1. /\ late' = late /\ delays' = delays /\ protocol' = protocol /\ steady' = steady
      /\ ~active
  BY DEF Begin, Refuse, wireVars
<1>2. ASSUME NEW d, InitialiseScan(d), active' => d.protocol = protocol
      PROVE  Outstanding'
  <2>1. /\ call' = d /\ stage' = "INIT_PROTOCOL" /\ retries' = 0 /\ attempted' = 0
        /\ tally'.positive = 0
    BY <1>2 DEF InitialiseScan, EmptyTally
  <2> QED
    BY <1>1, <1>2, <2>1 DEF Outstanding
<1>3. CASE UNCHANGED scanVars /\ ~active'
  BY <1>1, <1>3, IdleOutstanding DEF scanVars, wireVars
<1>4. Begin => \E d \in Calls : d.protocol = protocol /\ InitialiseScan(d)
  BY DEF Begin
<1>5. Refuse => ~active' /\ (InitialiseScan(NoCall) \/ UNCHANGED scanVars)
  BY <1>1 DEF Refuse
<1> QED
  BY <1>2, <1>3, <1>4, <1>5

LEMMA SetupOwes ==
    ASSUME TypeOK, Outstanding, AdapterStep \/ AdapterError \/ PresenceStep
    PROVE  Outstanding'
<1>1. CASE ~steady
  BY <1>1 DEF Outstanding, AdapterStep, AdapterError, PresenceStep, wireVars, Exchange
<1>2. CASE steady
  <2>1. UNCHANGED <<wireVars, tally, attempted, call, retries, current, index>>
        /\ active /\ stage \in AdapterStages \cup PresenceStages
    BY <1>2 DEF AdapterStep, AdapterError, PresenceStep, Progress
  <2>2. stage # "READ_IDENTIFIER"
    BY <2>1 DEF AdapterStages, PresenceStages
  <2>3. retries = 0
    BY <1>2, <2>1, <2>2 DEF Outstanding
  <2> QED
    BY <2>1, <2>2, <2>3, IdleOutstanding
<1> QED
  BY <1>1, <1>2 DEF TypeOK

\* The queue of outstanding answers after an exchange with a steady ECU.
LEMMA SteadyExchange ==
    ASSUME TypeOK, steady, NEW a \in Answers, NEW r \in Answers, Exchange({a}, r)
    PROVE  /\ protocol' = protocol /\ steady' = steady
           /\ \/ late = <<>> /\ r = a /\ late' = late /\ delays' = delays
              \/ /\ late # <<>> /\ r = Head(late) /\ delays' = delays
                 /\ late' = Append(Tail(late), a)
              \/ /\ r = NoData /\ delays < MaxDelays /\ delays' = delays + 1
                 /\ late' = Append(late, a)
BY DEF Exchange

\* An answer that missed its exchange goes to the end of the queue.
LEMMA QueueGrows ==
    ASSUME NEW q \in Seq(Answers), NEW a \in Answers, NEW k \in Nat, k <= Len(q),
           \A i \in DOMAIN q : i + k > Len(q) => q[i] = a,
           NEW p, p = Append(q, a)
    PROVE  /\ Len(p) = Len(q) + 1 /\ k + 1 <= Len(p)
           /\ \A i \in DOMAIN p : p[i] = a \/ (i \in DOMAIN q /\ p[i] = q[i])
           /\ \A i \in DOMAIN p : i + (k + 1) > Len(p) => p[i] = a
<1>1. /\ Len(p) = Len(q) + 1 /\ Len(q) \in Nat /\ p[Len(q) + 1] = a
      /\ DOMAIN p = 1 .. Len(q) + 1 /\ DOMAIN q = 1 .. Len(q)
      /\ \A i \in 1 .. Len(q) : p[i] = q[i]
  OBVIOUS
<1>2. ASSUME NEW i \in DOMAIN p
      PROVE  \/ i = Len(q) + 1 /\ p[i] = a
             \/ i \in DOMAIN q /\ p[i] = q[i]
  BY <1>1
<1>3. ASSUME NEW i \in DOMAIN p, i + (k + 1) > Len(p) PROVE p[i] = a
  <2>1. i \in Nat
    BY <1>1
  <2>2. CASE i \in DOMAIN q /\ p[i] = q[i]
    <3>1. i + k > Len(q)
      BY <1>1, <1>3, <2>1
    <3> QED
      BY <2>2, <3>1
  <2> QED
    BY <1>2, <2>2
<1> QED
  BY <1>1, <1>2, <1>3

LEMMA LessIsBelow ==
    ASSUME NEW k \in Nat, NEW n \in Nat, k <= n, k # n
    PROVE  k + 1 <= n
OBVIOUS

\* When the first in the queue is delivered, the new one takes its place at
\* the end.
LEMMA QueueTurns ==
    ASSUME NEW q \in Seq(Answers), q # <<>>, NEW a \in Answers,
           NEW k \in Nat, k <= Len(q),
           \A i \in DOMAIN q : i + k > Len(q) => q[i] = a,
           NEW p, p = Append(Tail(q), a)
    PROVE  /\ Len(p) = Len(q)
           /\ \A i \in DOMAIN p : p[i] = a \/ \E j \in DOMAIN q : p[i] = q[j]
           /\ Head(q) # a => k + 1 <= Len(p)
           /\ \A i \in DOMAIN p : i + (k + 1) > Len(p) => p[i] = a
<1> DEFINE t == Tail(q)
<1>1. /\ Len(q) \in Nat \ {0} /\ DOMAIN q = 1 .. Len(q) /\ Head(q) = q[1]
      /\ t \in Seq(Answers) /\ Len(t) = Len(q) - 1
      /\ \A i \in 1 .. Len(q) - 1 : t[i] = q[i + 1]
  OBVIOUS
<1>2. p = Append(t, a)
  OBVIOUS
<1> HIDE DEF t
<1>3. /\ Len(p) = Len(t) + 1 /\ DOMAIN p = 1 .. Len(t) + 1 /\ p[Len(t) + 1] = a
      /\ \A i \in 1 .. Len(t) : p[i] = t[i]
  BY <1>1, <1>2
<1>4. /\ Len(p) = Len(q) /\ DOMAIN p = 1 .. Len(q) /\ p[Len(q)] = a
      /\ \A i \in 1 .. Len(q) - 1 : p[i] = q[i + 1]
  BY <1>1, <1>3
<1>5. ASSUME NEW i \in DOMAIN p
      PROVE  \/ i = Len(q) /\ p[i] = a
             \/ i + 1 \in DOMAIN q /\ p[i] = q[i + 1]
  BY <1>1, <1>4
<1>6. Head(q) # a => k # Len(q)
  <2> SUFFICES ASSUME k = Len(q) PROVE q[1] = a
    BY <1>1
  <2>1. 1 \in DOMAIN q /\ 1 + k > Len(q)
    BY <1>1
  <2> QED
    BY <2>1
<1>7. ASSUME NEW i \in DOMAIN p, i + (k + 1) > Len(p) PROVE p[i] = a
  <2>1. i \in Nat
    BY <1>4
  <2>2. CASE i + 1 \in DOMAIN q /\ p[i] = q[i + 1]
    <3>1. (i + 1) + k > Len(q)
      BY <1>1, <1>4, <1>7, <2>1
    <3> QED
      BY <2>2, <3>1
  <2> QED
    BY <1>5, <2>2
<1>8. ASSUME NEW i \in DOMAIN p
      PROVE  p[i] = a \/ \E j \in DOMAIN q : p[i] = q[j]
  <2>1. CASE i = Len(q) /\ p[i] = a
    BY <2>1
  <2>2. CASE i + 1 \in DOMAIN q /\ p[i] = q[i + 1]
    <3> DEFINE j == i + 1
    <3>1. j \in DOMAIN q /\ p[i] = q[j]
      BY <2>2
    <3> HIDE DEF j
    <3> QED
      BY <3>1
  <2> QED
    BY <1>5, <2>1, <2>2
<1>9. Head(q) # a => k + 1 <= Len(p)
  <2>1. k <= Len(q) /\ k \in Nat /\ Len(q) \in Nat /\ Len(p) = Len(q)
    BY <1>1, <1>4
  <2>2. k # Len(q) => k + 1 <= Len(p)
    BY <2>1, LessIsBelow
  <2> QED
    BY <1>6, <2>2
<1>10. \A i \in DOMAIN p : i + (k + 1) > Len(p) => p[i] = a
  BY <1>7
<1>11. Len(p) = Len(q)
  BY <1>4
<1> QED
  BY <1>8, <1>9, <1>10, <1>11

\* As many retries as answers may miss their exchange are enough: the read
\* either succeeds or is repeated.
LEMMA ReadOwes ==
    ASSUME MaxDelays <= MaxRetries, InductiveInvariant, Outstanding, ReadIdentifier
    PROVE  Outstanding'
<1>1. /\ TypeOK /\ Position /\ active /\ stage = "READ_IDENTIFIER"
      /\ Request \in Commands
  BY RequestIsPlanned DEF InductiveInvariant, ReadIdentifier
<1>2. PICK r \in Answers :
        /\ Exchange({Positive(Request)}
                        \cup (IF steady THEN {} ELSE {Negative(Request)}), r)
        /\ Accept(r)
  BY DEF ReadIdentifier
<1>3. CASE ~steady
  BY <1>2, <1>3 DEF Outstanding, Exchange
<1>4. CASE steady
  <2> DEFINE a == Positive(Request)
  <2>1. a \in Answers /\ Exchange({a}, r)
    BY <1>1, <1>2, <1>4, AnswerTypes
  <2>2. /\ protocol' = protocol /\ steady' = steady
        /\ \/ late = <<>> /\ r = a /\ late' = late /\ delays' = delays
           \/ /\ late # <<>> /\ r = Head(late) /\ delays' = delays
              /\ late' = Append(Tail(late), a)
           \/ /\ r = NoData /\ delays < MaxDelays /\ delays' = delays + 1
              /\ late' = Append(late, a)
    BY <1>1, <1>4, <2>1, SteadyExchange
  <2>3. /\ late \in Seq(Answers) /\ Len(late) = delays /\ delays \in 0 .. MaxDelays
        /\ retries \in 0 .. MaxRetries /\ MaxDelays \in Nat /\ attempted \in Nat
        /\ call.protocol = protocol
        /\ tally \in [positive : Nat, negative : Nat, noResponse : Nat, invalid : Nat]
    BY <1>1, <1>4, DataAssumption DEF TypeOK, Outstanding
  <2> DEFINE k == IF Refreshing THEN retries ELSE 0
  <2>4. /\ k \in Nat /\ k <= Len(late)
        /\ \A i \in DOMAIN late : i + k > Len(late) => late[i] = a
    <3>1. CASE Refreshing
      BY <1>1, <1>4, <2>3, <3>1 DEF Outstanding, MaxRetries
    <3>2. CASE ~Refreshing
      BY <2>3, <3>2
    <3> QED
      BY <3>1, <3>2
  <2> HIDE DEF a, k
  <2>5. Len(late') = delays'
    BY <2>1, <2>2, <2>3, <2>4, QueueGrows, QueueTurns
  <2>6. protocol' = "UDS" =>
          \A i \in DOMAIN late' : late'[i].kind = "positive" /\ late'[i].service = "22"
    <3> SUFFICES ASSUME protocol = "UDS", NEW i \in DOMAIN late'
                 PROVE  late'[i].kind = "positive" /\ late'[i].service = "22"
      BY <2>2
    <3>1. a.kind = "positive" /\ a.service = "22"
      BY <1>1, <2>3, UdsRequest DEF a, Positive
    <3>2. \A j \in DOMAIN late : late[j].kind = "positive" /\ late[j].service = "22"
      BY <1>4 DEF Outstanding
    <3>3. late'[i] = a \/ \E j \in DOMAIN late : late'[i] = late[j]
      <4>1. CASE late' = late
        BY <4>1
      <4>2. CASE late # <<>> /\ late' = Append(Tail(late), a)
        BY <2>1, <2>3, <2>4, <4>2, QueueTurns
      <4>3. CASE late' = Append(late, a)
        BY <2>1, <2>3, <2>4, <4>3, QueueGrows
      <4> QED
        BY <2>2, <4>1, <4>2, <4>3
    <3> QED
      BY <3>1, <3>2, <3>3
  <2>7. ASSUME Refreshing
        PROVE  \/ Matches(r) /\ RecordPositive(r) /\ AdvanceIdentifier
               \/ /\ Retry /\ retries + 1 <= Len(late')
                  /\ \A i \in DOMAIN late' :
                        i + (retries + 1) > Len(late') => late'[i] = a
    <3>1. k = retries /\ protocol = "UDS" /\ call.kind = "refresh"
      BY <2>3, <2>7 DEF k, Refreshing
    <3>2. r = NoData => retries < MaxRetries
      <4>1. r = NoData => r # a /\ (late # <<>> => r # Head(late))
        <5>1. NoData.kind = "no data" /\ a.kind = "positive"
          BY DEF a, NoData, Positive
        <5>2. late # <<>> => Head(late).kind = "positive"
          <6> SUFFICES ASSUME late # <<>> PROVE Head(late).kind = "positive"
            OBVIOUS
          <6>1. 1 \in DOMAIN late /\ Head(late) = late[1]
            BY <2>3
          <6> QED
            BY <1>4, <3>1, <6>1 DEF Outstanding
        <5> QED
          BY <5>1, <5>2
      <4>2. r = NoData => delays < MaxDelays
        BY <2>2, <4>1
      <4> QED
        BY <2>3, <2>4, <3>1, <4>2 DEF MaxRetries
    <3>3. CASE r = a
      <4>1. Matches(r) /\ r.kind = "positive" /\ r.service = Request.service
            /\ r.id = Request.id
        BY <3>3 DEF a, Matches, Positive
      <4> QED
        BY <1>2, <4>1 DEF Accept, Stale, Refused
    <3>4. CASE r = NoData
      <4>1. Retry
        <5>1. r.kind = "no data"
          BY <3>4 DEF NoData
        <5>2. ~Stale(r) /\ ~Matches(r) /\ ~Refused(r)
          <6>1. ~Stale(r) /\ ~Refused(r)
            BY <5>1 DEF Stale, Refused
          <6>2. ~Matches(r)
            <7>1. Positive(Request).kind = "positive"
              BY DEF Positive
            <7> QED
              BY <5>1, <7>1 DEF Matches
          <6> QED
            BY <6>1, <6>2
        <5>3. MayRetry(TRUE)
          <6>1. retries < MaxRetries /\ call.kind = "refresh"
            BY <3>1, <3>2, <3>4
          <6> QED
            BY <6>1 DEF MayRetry
        <5>4. IF MayRetry(TRUE) THEN Retry ELSE CountMiss("noResponse")
          BY <1>2, <5>1, <5>2 DEF Accept
        <5> QED
          BY <5>3, <5>4
      <4>2. late' = Append(late, a)
        <5>1. r # a /\ (late # <<>> => r # Head(late))
          <6>1. r.kind = "no data" /\ a.kind = "positive"
            BY <3>4 DEF a, NoData, Positive
          <6>2. late # <<>> => 1 \in DOMAIN late /\ Head(late) = late[1]
            BY <2>3
          <6> QED
            BY <1>4, <3>1, <6>1, <6>2 DEF Outstanding
        <5> QED
          BY <2>2, <5>1
      <4> QED
        BY <2>1, <2>3, <2>4, <3>1, <4>1, <4>2, QueueGrows
    <3>5. CASE r # a /\ r # NoData
      <4>1. late # <<>> /\ r = Head(late) /\ late' = Append(Tail(late), a)
        BY <2>2, <3>5
      <4>2. r.kind = "positive" /\ r.service = "22"
        <5>1. 1 \in DOMAIN late /\ r = late[1]
          BY <2>3, <4>1
        <5> QED
          BY <1>4, <3>1, <5>1 DEF Outstanding
      <4>3. Request.service = "22"
        BY <1>1, <2>3, <3>1, UdsRequest
      <4>4. Stale(r)
        <5>1. r = [kind |-> r.kind, service |-> r.service, id |-> r.id]
          BY DEF Answers
        <5> QED
          BY <3>5, <4>2, <4>3, <5>1 DEF a, Stale, Positive
      <4>5. /\ retries + 1 <= Len(late')
            /\ \A i \in DOMAIN late' : i + (retries + 1) > Len(late') => late'[i] = a
            /\ Len(late') = Len(late)
        <5>1. a \in Answers /\ late \in Seq(Answers) /\ Head(late) # a
          BY <2>1, <2>3, <3>5, <4>1
        <5>2. /\ k + 1 <= Len(late')
              /\ \A i \in DOMAIN late' : i + (k + 1) > Len(late') => late'[i] = a
              /\ Len(late') = Len(late)
          BY <2>4, <4>1, <5>1, QueueTurns
        <5> QED
          BY <3>1, <5>2
      <4>6. retries < MaxRetries
        BY <2>3, <4>5 DEF MaxRetries
      <4>7. Retry
        <5>1. MayRetry(FALSE)
          BY <4>6 DEF MayRetry
        <5> QED
          BY <1>2, <3>5, <4>2, <4>4, <5>1 DEF a, Accept, Matches, Refused
      <4> QED
        BY <4>5, <4>7
    <3> QED
      BY <3>3, <3>4, <3>5
  <2>8. /\ call' = call
        /\ active' => stage' = "READ_IDENTIFIER"
    <3>1. AdvanceIdentifier => call' = call /\ (active' => stage' = "READ_IDENTIFIER")
      BY <1>1, AdvanceMoves
    <3>2. Retry => call' = call /\ (active' => stage' = "READ_IDENTIFIER")
      BY <1>1 DEF Retry
    <3> QED
      BY <1>2, <3>1, <3>2 DEF Accept, CountMiss
  <2>9. Refreshing' = Refreshing
    BY <2>8 DEF Refreshing
  <2>10. ASSUME Refreshing PROVE tally'.positive = attempted'
    <3>1. tally.positive = attempted
      BY <1>4, <2>10 DEF Outstanding
    <3>2. CASE RecordPositive(r) /\ AdvanceIdentifier
      BY <2>3, <3>1, <3>2 DEF RecordPositive, AdvanceIdentifier
    <3>3. CASE Retry
      BY <3>1, <3>3 DEF Retry
    <3> QED
      BY <2>7, <2>10, <3>2, <3>3
  <2>11. ASSUME active', Refreshing
         PROVE  /\ retries' <= Len(late')
                /\ \A i \in DOMAIN late' :
                     i + retries' > Len(late') => late'[i] = Positive(Request)'
    <3>1. CASE AdvanceIdentifier
      <4>1. retries' = 0
        BY <3>1 DEF AdvanceIdentifier
      <4>2. late' \in Seq(Answers)
        <5>1. {Positive(Request)}
                  \cup (IF steady THEN {} ELSE {Negative(Request)}) \in SUBSET Answers
          BY <1>1, AnswerTypes
        <5> QED
          BY <1>1, <1>2, <5>1, ExchangeKeepsWire
      <4>3. Len(late') \in Nat /\ \A i \in DOMAIN late' : i \in Nat /\ i <= Len(late')
        BY <4>2
      <4> QED
        BY <4>1, <4>3
    <3>2. CASE Retry /\ ~AdvanceIdentifier
      <4>1. retries' = retries + 1 /\ Request' = Request
        BY <3>2 DEF Retry, Request, Planned, ListActive
      <4>2. Positive(Request)' = a
        BY <4>1 DEF a, Positive
      <4> QED
        BY <2>7, <2>11, <3>2, <4>1, <4>2
    <3> QED
      BY <2>7, <2>11, <3>1, <3>2
  <2> QED
    BY <2>2, <2>3, <2>5, <2>6, <2>8, <2>9, <2>10, <2>11 DEF Outstanding
<1> QED
  BY <1>1, <1>3, <1>4 DEF TypeOK

LEMMA DropOwes ==
    ASSUME TypeOK, Outstanding, Interrupt \/ DropLate \/ Rest \/ UNCHANGED vars
    PROVE  Outstanding'
<1>1. CASE DropLate
  BY <1>1 DEF DropLate, Outstanding
<1>2. CASE Interrupt
  BY <1>2, IdleOutstanding DEF Interrupt, scanVars
<1>3. CASE Rest \/ UNCHANGED vars
  BY <1>3, IdleOutstanding DEF Rest, vars, scanVars
<1> QED
  BY <1>1, <1>2, <1>3

-----------------------------------------------------------------------------
(* Theorems *)

\* The position of a scan, its counters and its records stay consistent
\* through every exchange, retry, refusal and interruption.
THEOREM DataInvariantHolds == Spec => []InductiveInvariant
<1>1. Init => InductiveInvariant
  <2> SUFFICES ASSUME Init PROVE InductiveInvariant
    OBVIOUS
  <2>1. TypeOK
    <3>1. 0 \in Ids /\ 0 \in 0 .. MaxDelays /\ 0 \in 0 .. MaxScans
          /\ 0 \in 0 .. MaxRetries
      BY DataAssumption DEF Ids, MaxRetries
    <3>2. tally \in [positive : Nat, negative : Nat, noResponse : Nat,
                     invalid : Nat]
      BY DEF Init, EmptyTally
    <3>3. records \in Seq(RecordType) /\ late \in Seq(Answers)
      BY DEF Init
    <3> QED
      BY <3>1, <3>2, <3>3 DEF Init, TypeOK, Stages, AdapterStages
  <2>2. Position
    BY DataAssumption
       DEF Init, Position, Accepted, SizeValid, ConfigValid, ListValid,
           ListActive, NoCall, PlanLength, Planned
  <2>3. Tally /\ RecordAttribution /\ ReadsStayInPlan
    BY DataAssumption DEF Init, Tally, Attempted, EmptyTally,
                          RecordAttribution, ReadsStayInPlan
  <2> QED
    BY <2>1, <2>2, <2>3 DEF InductiveInvariant
<1>2. InductiveInvariant /\ [Next]_vars => InductiveInvariant'
  BY BeginKeeps, SetupKeeps, ReadKeeps, DropKeeps DEF Next, Step
<1> QED
  BY <1>1, <1>2, PTL DEF Spec

\* A data scan is well typed; in particular no identifier leaves its 16 bits.
THEOREM DataTypeCorrect == Spec => []TypeOK
<1>1. InductiveInvariant => TypeOK
  BY DEF InductiveInvariant
<1> QED
  BY <1>1, DataInvariantHolds, PTL

\* However late answers arrive, none is filed under another identifier.
THEOREM RecordsAreAttributed == Spec => []RecordAttribution
<1>1. InductiveInvariant => RecordAttribution
  BY DEF InductiveInvariant
<1> QED
  BY <1>1, DataInvariantHolds, PTL

\* Every attempt is counted once and the record table does not overflow.
THEOREM TallyHolds == Spec => []Tally
<1>1. InductiveInvariant => Tally
  BY DEF InductiveInvariant
<1> QED
  BY <1>1, DataInvariantHolds, PTL

\* A scan reads its plan in order, without wrapping and without repetition.
THEOREM PlanIsKept == Spec => []ReadsStayInPlan
<1>1. InductiveInvariant => ReadsStayInPlan
  BY DEF InductiveInvariant
<1> QED
  BY <1>1, DataInvariantHolds, PTL

\* While no more answers miss their exchange than a read is retried for, a
\* refresh of known identifiers loses none of a willing ECU's: the retries of
\* current_transient_retries are enough, for every plan and every number of
\* scans before.
THEOREM NoKnownValueLost ==
    ASSUME MaxDelays <= MaxRetries
    PROVE  Spec => []NothingLost
<1>1. Init => Outstanding
  BY DEF Init, Outstanding, Refreshing, NoCall
<1>2. InductiveInvariant /\ Outstanding /\ [Next]_vars => Outstanding'
  BY BeginOwes, SetupOwes, ReadOwes, DropOwes DEF InductiveInvariant, Next, Step
<1>3. InductiveInvariant /\ Outstanding => NothingLost
  BY DEF InductiveInvariant, Tally, Outstanding, Refreshing, NothingLost
<1> QED
  BY <1>1, <1>2, <1>3, DataInvariantHolds, PTL DEF Spec
=============================================================================
