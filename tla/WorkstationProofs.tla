-------------------------- MODULE WorkstationProofs --------------------------
(***************************************************************************)
(* Proofs about the workstation and the engine probe it owns, for every    *)
(* list of identifiers, every set of cars and every set of values.         *)
(***************************************************************************)
EXTENDS Workstation, FiniteSetTheorems, TLAPS
-----------------------------------------------------------------------------
(* The list of requests. *)

LEMMA RequestsInOrder ==
    /\ Len(Identity) \in Nat /\ Len(Fingerprint) \in Nat
    /\ Len(Requests) = 1 + Len(Identity) + Len(Fingerprint)
    /\ Requests[1] = "vin"
    /\ \A i \in 2 .. Len(Identity) + 1 : Requests[i] = Identity[i - 1]
    /\ \A i \in 1 .. Len(Requests) : Requests[i] \in Names
<1>1. Identity \in Seq(IdentityNames) /\ Fingerprint \in Seq(FingerprintNames)
  BY ProbeAssumption
<1> DEFINE All == {"vin"} \cup IdentityNames \cup FingerprintNames
<1>2. /\ Identity \in Seq(All) /\ Fingerprint \in Seq(All) /\ <<"vin">> \in Seq(All)
      /\ Len(<<"vin">>) = 1
  BY <1>1
<1> HIDE DEF All
<1>3. /\ Len(Identity) \in Nat /\ Len(Fingerprint) \in Nat
      /\ <<"vin">> \o Identity \in Seq(All)
      /\ Len(<<"vin">> \o Identity) = 1 + Len(Identity)
  BY <1>2
<1>4. /\ Requests \in Seq(All)
      /\ Len(Requests) = 1 + Len(Identity) + Len(Fingerprint)
  BY <1>2, <1>3 DEF Requests
<1>5. \A i \in 1 .. Len(Identity) + 1 : Requests[i] = (<<"vin">> \o Identity)[i]
  BY <1>2, <1>3 DEF Requests
<1>6. Requests[1] = "vin"
  <2>1. (<<"vin">> \o Identity)[1] = <<"vin">>[1]
    BY <1>2
  <2> QED
    BY <1>3, <1>5, <2>1
<1>7. \A i \in 2 .. Len(Identity) + 1 : Requests[i] = Identity[i - 1]
  BY <1>2, <1>3, <1>5
<1>8. \A i \in 1 .. Len(Requests) : Requests[i] \in Names
  BY <1>4 DEF Names, ToSet
<1> QED
  BY <1>3, <1>4, <1>6, <1>7, <1>8

\* Everything of the standard identity comes before everything of the family.
LEMMA FamilyComesLast ==
    ASSUME NEW i \in 1 .. Len(Requests), Requests[i] \in ToSet(Fingerprint)
    PROVE  i > Len(Identity) + 1
<1>1. Identity \in Seq(IdentityNames) /\ Fingerprint \in Seq(FingerprintNames)
  BY ProbeAssumption
<1>2. Requests[i] \in FingerprintNames
  BY <1>1 DEF ToSet
<1>3. CASE i = 1
  BY <1>2, <1>3, RequestsInOrder DEF FingerprintNames
<1>4. CASE i \in 2 .. Len(Identity) + 1
  <2>1. Requests[i] \in IdentityNames
    BY <1>1, <1>4, RequestsInOrder
  <2> QED
    BY <1>2, <2>1 DEF IdentityNames, FingerprintNames
<1> QED
  BY <1>3, <1>4, RequestsInOrder

\* All of them are read once that many requests are answered.
LEMMA IdentityIsAPrefix ==
    ASSUME NEW n \in {"vin"} \cup ToSet(Identity)
    PROVE  \E i \in 1 .. Len(Identity) + 1 : Requests[i] = n
<1>1. CASE n = "vin"
  BY <1>1, RequestsInOrder
<1>2. CASE n \in ToSet(Identity)
  <2>1. PICK i \in DOMAIN Identity : Identity[i] = n
    BY <1>2 DEF ToSet
  <2>2. i \in 1 .. Len(Identity)
    <3>1. Identity \in Seq(IdentityNames)
      BY ProbeAssumption
    <3> QED
      BY <2>1, <3>1
  <2>3. i + 1 \in 2 .. Len(Identity) + 1 /\ (i + 1) - 1 = i
    BY <2>2, RequestsInOrder
  <2> QED
    BY <2>1, <2>3, RequestsInOrder
<1> QED
  BY <1>1, <1>2

LEMMA VinIsAName == "vin" \in Names
<1>1. 1 \in 1 .. Len(Requests)
  BY RequestsInOrder
<1> QED
  BY <1>1, RequestsInOrder

-----------------------------------------------------------------------------
(* What is concluded from the texts. *)

\* A match of any strength rests on a text that names a CRD3 unit.
LEMMA MatchHasAText ==
    ASSUME NEW seen \in SUBSET Compared, NEW named
    PROVE  /\ HardwareMatch(seen, named) \in Matches
           /\ HardwareMatch(seen, named) # "none" => seen \cap named # {}
<1> DEFINE numbers == seen \cap Numbers
           hits == numbers \cap named
<1>1. ~(Cardinality({}) >= 2)
  BY FS_EmptySet
<1>2. Cardinality(numbers) >= 2 /\ hits = numbers => hits # {}
  BY <1>1
<1>3. hits \subseteq seen \cap named
  OBVIOUS
<1> QED
  BY <1>2, <1>3, Zenon DEF HardwareMatch, Matches

LEMMA SyncedEvidence ==
    ASSUME NEW p \in ProbeType, NEW e \in EvidenceType, vehicle \in Vehicles,
           e.profile = "OM651" =>
               "vin" \in p.usable /\ vehicle.engine = "OM651"
    PROVE  /\ Synced(p, e) \in EvidenceType
           /\ Synced(p, e).vin = IF "vin" \in p.usable THEN vehicle.vin ELSE ""
           /\ Synced(p, e).profile = "OM651" =>
                "vin" \in p.usable /\ vehicle.engine = "OM651"
           /\ Synced(p, e).allowed =>
                /\ SpeaksForCrd3(vehicle)
                /\ p.usable \cap ({"vin"} \cup Compared) # {}
<1> DEFINE seen == p.usable \cap Compared
           vin == IF "vin" \in p.usable THEN vehicle.vin ELSE ""
           profile == IF vin # "" THEN ProfileFor(vehicle)
                      ELSE IF e.profile = "unset" THEN "generic" ELSE e.profile
           match == HardwareMatch(seen, vehicle.crd3)
           allowed == \/ profile = "OM651"
                      \/ match # "none"
                      \/ "name" \in seen \cap vehicle.crd3
           attempted == Attempted(p)
           supplier == "supplier" \in p.usable
<1>1. vehicle.vin # "" /\ vehicle.engine \in Engines
  BY ProbeAssumption
<1>2. profile \in Profiles
  BY <1>1 DEF EvidenceType, ProfileFor, Profiles, Engines
<1>3. profile = "OM651" => "vin" \in p.usable /\ vehicle.engine = "OM651"
  BY <1>1 DEF ProfileFor
<1>4. match \in Matches /\ (match # "none" => seen \cap vehicle.crd3 # {})
  BY MatchHasAText
<1>5. vin \in {""} \cup {v.vin : v \in Vehicles}
  OBVIOUS
<1>6. attempted \in BOOLEAN /\ supplier \in BOOLEAN /\ allowed \in BOOLEAN
  BY DEF Attempted
<1>7. allowed => /\ SpeaksForCrd3(vehicle)
                 /\ p.usable \cap ({"vin"} \cup Compared) # {}
  <2>1. CASE profile = "OM651"
    BY <1>3, <2>1 DEF SpeaksForCrd3
  <2>2. CASE seen \cap vehicle.crd3 # {}
    BY <2>2 DEF SpeaksForCrd3
  <2> QED
    BY <1>4, <2>1, <2>2
<1>8. Synced(p, e) =
        [vin |-> vin, profile |-> profile, match |-> match, allowed |-> allowed,
         attempted |-> attempted, supplier |-> supplier]
  BY Zenon DEF Synced
<1> HIDE DEF seen, vin, profile, match, allowed, attempted, supplier
<1>9. Synced(p, e) \in EvidenceType
  <2>1. ASSUME NEW a \in BOOLEAN, NEW b \in BOOLEAN, NEW c \in BOOLEAN,
               NEW v \in {""} \cup {w.vin : w \in Vehicles},
               NEW pr \in Profiles, NEW m \in Matches
        PROVE  [vin |-> v, profile |-> pr, match |-> m, allowed |-> a,
                attempted |-> b, supplier |-> c] \in EvidenceType
    BY <2>1 DEF EvidenceType
  <2>2. [vin |-> vin, profile |-> profile, match |-> match, allowed |-> allowed,
         attempted |-> attempted, supplier |-> supplier] \in EvidenceType
    BY <1>2, <1>4, <1>5, <1>6, <2>1
  <2> QED
    BY <1>8, <2>2
<1>10. /\ Synced(p, e).vin = vin /\ Synced(p, e).profile = profile
       /\ Synced(p, e).allowed = allowed
  BY <1>8
<1> QED
  <2> HIDE DEF Synced
  <2>1. vin = IF "vin" \in p.usable THEN vehicle.vin ELSE ""
    BY DEF vin
  <2>2. /\ profile = "OM651" => "vin" \in p.usable /\ vehicle.engine = "OM651"
        /\ allowed => /\ SpeaksForCrd3(vehicle)
                      /\ p.usable \cap ({"vin"} \cup Compared) # {}
    BY <1>3, <1>7
  <2> QED
    BY <1>9, <1>10, <2>1, <2>2

-----------------------------------------------------------------------------
(* Link's machine. *)

\* ProbePosition of a probe p; it may have read `free` identifiers behind the
\* VIN before the car has to speak for a CRD3 unit.
Positioned(p, free) ==
    /\ p.stage \in {"CONFIGURE_CHANNEL", "TESTER_PRESENT"} =>
        p.did = 1 /\ p.count = Len(Requests)
    /\ p.stage = "READ_DID" => p.did <= p.count
    /\ \A i \in 1 .. p.did - 1 : p.status[Requests[i]] # "none"
    /\ p.stage = "READ_DID" /\ p.did > free + 1 =>
        SpeaksForCrd3(vehicle) /\ p.usable \cap ({"vin"} \cup Compared) # {}

LEMMA FreshIsPositioned ==
    FreshProbe \in ProbeType /\ Positioned(FreshProbe, Len(Identity))
<1>1. 1 \in 1 .. Len(Requests) + 1 /\ Len(Requests) \in 0 .. Len(Requests)
      /\ Len(Requests) \in Nat
  BY RequestsInOrder
<1> QED
  BY <1>1 DEF FreshProbe, ProbeType, Positioned, Stages, Statuses

LEMMA ReadAdvances ==
    ASSUME NEW p \in ProbeType, Positioned(p, Len(Identity)), p.stage = "READ_DID",
           NEW reply \in Replies
    PROVE  /\ Advance(p, reply) \in ProbeType
           /\ Positioned(Advance(p, reply), Len(Identity) + 1)
<1> DEFINE n == Requests[p.did]
           status == [p.status EXCEPT ![n] = StatusOf(reply)]
           usable == IF reply = "usable" THEN p.usable \cup {n} ELSE p.usable
           stage == IF p.did = p.count THEN "READ_DTC" ELSE p.stage
           q == [p EXCEPT !.status = status, !.usable = usable,
                          !.did = p.did + 1, !.stage = stage]
<1>1. /\ p.did \in 1 .. Len(Requests) /\ p.count \in 0 .. Len(Requests)
      /\ p.did <= p.count /\ Len(Requests) \in Nat /\ Len(Identity) \in Nat
      /\ p.usable \in SUBSET Names /\ p.status \in [Names -> Statuses]
      /\ p.dtc \in Statuses
  BY RequestsInOrder DEF ProbeType, Positioned
<1>2. n \in Names
  BY <1>1, RequestsInOrder
<1>3. StatusOf(reply) \in Statuses \ {"none"}
  BY DEF StatusOf, Statuses, Replies
<1>4. Advance(p, reply) = q
  BY DEF Advance, ProbeType
<1>5. /\ q.stage = stage /\ q.did = p.did + 1 /\ q.count = p.count
      /\ q.status = status /\ q.usable = usable
  BY DEF ProbeType
<1>6. /\ status \in [Names -> Statuses] /\ status[n] # "none"
      /\ \A m \in Names : p.status[m] # "none" => status[m] # "none"
  BY <1>1, <1>2, <1>3
<1>7. usable \in SUBSET Names /\ p.usable \subseteq usable
  BY <1>1, <1>2
<1>8. stage \in Stages /\ p.did + 1 \in 1 .. Len(Requests) + 1
  BY <1>1 DEF Stages
<1>9. q \in ProbeType
  <2> HIDE DEF n, status, usable, stage
  <2> QED
    BY <1>1, <1>6, <1>7, <1>8 DEF ProbeType
<1>10. Positioned(q, Len(Identity) + 1)
  <2>1. q.stage = "READ_DID" => p.did + 1 <= p.count
    BY <1>1, <1>5
  <2>2. ASSUME NEW i \in 1 .. (p.did + 1) - 1 PROVE status[Requests[i]] # "none"
    <3>1. i \in 1 .. Len(Requests) /\ Requests[i] \in Names
      BY <1>1, RequestsInOrder
    <3>2. CASE i = p.did
      BY <1>6, <3>2
    <3>3. CASE i \in 1 .. p.did - 1
      <4>1. p.status[Requests[i]] # "none"
        BY <3>3 DEF Positioned
      <4> QED
        BY <1>6, <3>1, <4>1
    <3> QED
      BY <1>1, <3>2, <3>3
  <2>3. p.did + 1 > Len(Identity) + 2 => p.did > Len(Identity) + 1
    BY <1>1
  <2>4. stage \notin {"CONFIGURE_CHANNEL", "TESTER_PRESENT"}
    OBVIOUS
  <2> HIDE DEF n, status, usable, stage, q
  <2> QED
    BY <1>1, <1>5, <1>7, <2>1, <2>2, <2>3, <2>4 DEF Positioned
<1> QED
  BY <1>4, <1>9, <1>10

LEMMA AdvanceKeeps ==
    ASSUME NEW p \in ProbeType, Positioned(p, Len(Identity)), NEW reply \in Replies
    PROVE  /\ Advance(p, reply) \in ProbeType
           /\ Positioned(Advance(p, reply), Len(Identity) + 1)
<1>1. CASE p.stage = "READ_DID"
  BY <1>1, ReadAdvances
<1>2. CASE p.stage = "CONFIGURE_CHANNEL"
  <2>1. PICK s \in {"TESTER_PRESENT", "FAILED"} :
            Advance(p, reply) = [p EXCEPT !.stage = s]
    BY <1>2 DEF Advance
  <2> QED
    BY <1>2, <2>1 DEF ProbeType, Positioned, Stages
<1>3. CASE p.stage = "TESTER_PRESENT"
  <2>1. PICK s \in {"READ_DID", "FAILED"} :
            Advance(p, reply) = [p EXCEPT !.stage = s]
    BY <1>3 DEF Advance
  <2> QED
    BY <1>3, <2>1, RequestsInOrder DEF ProbeType, Positioned, Stages
<1>4. CASE p.stage \notin {"READ_DID", "CONFIGURE_CHANNEL", "TESTER_PRESENT"}
  <2>1. StatusOf(reply) \in Statuses
    BY DEF StatusOf, Statuses, Replies
  <2>2. Advance(p, reply) = [p EXCEPT !.dtc = StatusOf(reply), !.stage = "COMPLETE"]
    BY <1>4 DEF Advance
  <2> QED
    BY <2>1, <2>2 DEF ProbeType, Positioned, Stages
<1> QED
  BY <1>1, <1>2, <1>3, <1>4

\* The probe decides exactly when the standard identity is behind it.
LEMMA GatedKeeps ==
    ASSUME NEW p \in ProbeType, Positioned(p, Len(Identity) + 1), NEW e,
           e.allowed => /\ SpeaksForCrd3(vehicle)
                        /\ p.usable \cap ({"vin"} \cup Compared) # {}
    PROVE  /\ Gated(p, e) \in ProbeType
           /\ Positioned(Gated(p, e), Len(Identity))
           /\ Gated(p, e).usable = p.usable
<1>0. /\ Len(Identity) \in Nat /\ Len(Fingerprint) \in Nat /\ Len(Requests) \in Nat
      /\ Len(Identity) + 1 <= Len(Requests)
      /\ p.did \in 1 .. Len(Requests) + 1
  BY RequestsInOrder DEF ProbeType
<1>1. p.stage = "READ_DID" => ResultOf(p) = "OK"
  BY DEF ResultOf
<1>2. CASE p.stage = "READ_DID" /\ p.did = Len(Identity) + 2 /\ ~e.allowed
  <2>1. Gated(p, e) = [p EXCEPT !.count = Len(Identity) + 1, !.stage = "READ_DTC"]
    BY <1>1, <1>2 DEF Gated
  <2> DEFINE q == [p EXCEPT !.count = Len(Identity) + 1, !.stage = "READ_DTC"]
  <2>2. Len(Identity) + 1 \in 0 .. Len(Requests) /\ "READ_DTC" \in Stages
    BY <1>0 DEF Stages
  <2>3. q \in ProbeType
    BY <2>2 DEF ProbeType
  <2>4. /\ q.stage = "READ_DTC" /\ q.did = p.did /\ q.status = p.status
        /\ q.usable = p.usable
    BY DEF ProbeType
  <2> HIDE DEF q
  <2>5. Positioned(q, Len(Identity))
    BY <2>4 DEF Positioned
  <2> QED
    BY <2>1, <2>3, <2>4, <2>5 DEF q
<1>3. CASE ~(p.stage = "READ_DID" /\ p.did = Len(Identity) + 2 /\ ~e.allowed)
  <2>1. Gated(p, e) = p
    BY <1>1, <1>3 DEF Gated
  <2>2. p.stage = "READ_DID" /\ p.did > Len(Identity) + 1 =>
            \/ p.did > (Len(Identity) + 1) + 1
            \/ e.allowed
    BY <1>0, <1>3
  <2> QED
    BY <2>1, <2>2 DEF Positioned
<1> QED
  BY <1>2, <1>3

-----------------------------------------------------------------------------
(* The probe and what is concluded, while the workstation runs it. *)

ProbeInvariant ==
    /\ vehicle \in Vehicles /\ probe \in ProbeType /\ evidence \in EvidenceType
    /\ ProbePosition /\ EvidenceIsOwn

LEMMA PositionIsPositioned ==
    ProbePosition <=> Positioned(probe, Len(Identity))
BY DEF ProbePosition, Positioned

\* A scan that never began has concluded nothing, of whichever car.
LEMMA NothingConcluded ==
    /\ NoEvidence \in EvidenceType
    /\ NoEvidence.vin = "" /\ NoEvidence.profile # "OM651"
BY DEF NoEvidence, EvidenceType, Profiles, Matches

LEMMA ClearedKeeps ==
    ASSUME Cleared, vehicle' \in Vehicles
    PROVE  ProbeInvariant' /\ evidence'.vin = ""
<1>1. probe' \in ProbeType /\ evidence' \in EvidenceType
  BY FreshIsPositioned, NothingConcluded DEF Cleared
<1>2. ProbePosition'
  <2>1. probe'.did = 1 /\ probe'.count = Len(Requests) /\ probe'.usable = {}
        /\ probe'.stage = "CONFIGURE_CHANNEL"
    BY DEF Cleared, FreshProbe
  <2> QED
    BY <2>1 DEF ProbePosition
<1>3. EvidenceIsOwn' /\ evidence'.vin = ""
  BY NothingConcluded DEF Cleared, EvidenceIsOwn
<1> QED
  BY <1>1, <1>2, <1>3 DEF ProbeInvariant

LEMMA BegunKeeps ==
    ASSUME ProbeInvariant, Begun, UNCHANGED vehicle
    PROVE  ProbeInvariant' /\ evidence'.vin = ""
<1>1. /\ FreshProbe \in ProbeType /\ Positioned(FreshProbe, Len(Identity))
      /\ FreshProbe.usable = {} /\ vehicle \in Vehicles
  BY FreshIsPositioned DEF FreshProbe, ProbeInvariant
<1>2. /\ Synced(FreshProbe, NoEvidence) \in EvidenceType
      /\ Synced(FreshProbe, NoEvidence).vin = ""
      /\ Synced(FreshProbe, NoEvidence).profile # "OM651"
  BY <1>1, NothingConcluded, SyncedEvidence
<1>3. probe' = FreshProbe /\ evidence' = Synced(FreshProbe, NoEvidence)
  BY DEF Begun
<1>4. ProbePosition'
  BY <1>1, <1>3 DEF ProbePosition, Positioned
<1>5. EvidenceIsOwn'
  BY <1>2, <1>3 DEF EvidenceIsOwn
<1> QED
  BY <1>1, <1>2, <1>3, <1>4, <1>5 DEF ProbeInvariant

LEMMA AcceptedKeeps ==
    ASSUME ProbeInvariant, NEW reply \in Replies, Accepted(reply), UNCHANGED vehicle
    PROVE  ProbeInvariant'
<1> DEFINE p == Advance(probe, reply)
           e == Synced(p, evidence)
           q == Gated(p, e)
<1>1. /\ probe \in ProbeType /\ Positioned(probe, Len(Identity))
      /\ vehicle \in Vehicles /\ evidence \in EvidenceType
      /\ evidence.profile = "OM651" =>
            "vin" \in probe.usable /\ vehicle.engine = "OM651"
  BY PositionIsPositioned DEF ProbeInvariant, EvidenceIsOwn
<1>2. p \in ProbeType /\ Positioned(p, Len(Identity) + 1)
  BY <1>1, AdvanceKeeps
<1>3. probe.usable \subseteq p.usable
  BY <1>1 DEF Advance, ProbeType
<1>4. /\ e \in EvidenceType
      /\ e.allowed => /\ SpeaksForCrd3(vehicle)
                      /\ p.usable \cap ({"vin"} \cup Compared) # {}
  <2>1. evidence.profile = "OM651" =>
            "vin" \in p.usable /\ vehicle.engine = "OM651"
    BY <1>1, <1>3
  <2> HIDE DEF p
  <2> QED
    BY <1>1, <1>2, <2>1, SyncedEvidence
<1>5. /\ q \in ProbeType /\ Positioned(q, Len(Identity))
      /\ q.usable = p.usable
  <2> HIDE DEF p, e
  <2> QED
    BY <1>2, <1>4, GatedKeeps
<1>6. /\ Synced(q, e) \in EvidenceType
      /\ Synced(q, e).vin # "" => Synced(q, e).vin = vehicle.vin
      /\ Synced(q, e).profile = "OM651" =>
            "vin" \in q.usable /\ vehicle.engine = "OM651"
  <2>1. evidence.profile = "OM651" =>
            "vin" \in p.usable /\ vehicle.engine = "OM651"
    BY <1>1, <1>3
  <2> HIDE DEF p, q
  <2>2. e.profile = "OM651" => "vin" \in q.usable /\ vehicle.engine = "OM651"
    BY <1>1, <1>2, <1>5, <2>1, SyncedEvidence
  <2> HIDE DEF e
  <2> QED
    BY <1>1, <1>4, <1>5, <2>2, SyncedEvidence
<1>7. probe' = q /\ evidence' = Synced(q, e)
  BY DEF Accepted
<1> HIDE DEF p, e, q
<1>8. ProbePosition'
  BY <1>5, <1>7 DEF ProbePosition, Positioned, SpeaksForCrd3
<1>9. EvidenceIsOwn'
  BY <1>6, <1>7 DEF EvidenceIsOwn
<1> QED
  BY <1>1, <1>5, <1>6, <1>7, <1>8, <1>9 DEF ProbeInvariant

LEMMA StepKeepsProbe ==
    ASSUME ProbeInvariant, [Next]_vars PROVE ProbeInvariant'
<1>1. CASE UNCHANGED <<vehicle, probe, evidence>>
  BY <1>1 DEF ProbeInvariant, ProbePosition, EvidenceIsOwn, SpeaksForCrd3
<1>2. CASE Connect
  BY <1>2, ClearedKeeps DEF Connect
<1>3. CASE Disconnect
  BY <1>3, ClearedKeeps DEF Disconnect, ProbeInvariant
<1>4. CASE Begin
  BY <1>4, BegunKeeps DEF Begin
<1>5. CASE \E reply \in Replies : AcceptEngine(reply)
  BY <1>5, AcceptedKeeps DEF AcceptEngine
<1>6. CASE \/ RequestFullSweep \/ AcceptModules \/ CommandRefused \/ Abort
           \/ Finished \/ ProgressShown \/ Toggle \/ PreferenceChanged
           \/ UNCHANGED vars
  <2>1. UNCHANGED <<vehicle, probe, evidence>>
    BY <1>6 DEF RequestFullSweep, AcceptModules, CommandRefused, Abort, Finished,
        ProgressShown, Toggle, PreferenceChanged, probeVars, vars
  <2> QED
    BY <1>1, <2>1
<1> QED
  BY <1>2, <1>3, <1>4, <1>5, <1>6 DEF Next

-----------------------------------------------------------------------------
(* The wire and the machine that owns it. *)

WireInvariant ==
    /\ connected \in BOOLEAN /\ sweep \in BOOLEAN /\ dirty \in BOOLEAN
    /\ ext \in {"idle", "running", "done", "refused"}
    /\ engine \in [started : BOOLEAN, active : BOOLEAN, complete : BOOLEAN,
                   failed : BOOLEAN]
    /\ modules \in [active : BOOLEAN, complete : BOOLEAN, failed : BOOLEAN,
                    full : BOOLEAN]
    /\ WireOwner /\ HandOver

LEMMA NoScanKeeps ==
    ASSUME WireInvariant, Connect \/ Disconnect PROVE WireInvariant'
<1>1. /\ engine' = NoEngineScan /\ modules' = NoModuleScan /\ dirty' = FALSE
      /\ ext' \in {"idle", "refused"} /\ connected' \in BOOLEAN /\ sweep' = sweep
  BY DEF Connect, Disconnect, WireInvariant
<1> QED
  BY <1>1 DEF WireInvariant, WireOwner, HandOver, NoEngineScan, NoModuleScan

LEMMA BeginKeeps == ASSUME WireInvariant, Begin PROVE WireInvariant'
BY DEF Begin, WireInvariant, WireOwner, HandOver, NoEngineScan, NoModuleScan

LEMMA AcceptEngineKeeps ==
    ASSUME WireInvariant, NEW reply \in Replies, AcceptEngine(reply)
    PROVE  WireInvariant'
<1>1. dirty' \in BOOLEAN /\ connected' = connected /\ sweep' = sweep
  BY DEF AcceptEngine
<1>2. CASE UNCHANGED <<ext, engine, modules>>
  BY <1>1, <1>2 DEF WireInvariant, WireOwner, HandOver
<1>3. CASE HandsOver(EngineResult(reply))
  <2>1. /\ ext = "running" /\ engine.active /\ ext' = ext
        /\ engine' \in [started : BOOLEAN, active : BOOLEAN, complete : BOOLEAN,
                        failed : BOOLEAN]
        /\ ~engine'.active /\ engine'.complete = ~engine'.failed
        /\ engine'.started = engine.started
        /\ modules' = [modules EXCEPT !.active = TRUE]
    BY <1>3 DEF AcceptEngine, HandsOver, WireInvariant
  <2> QED
    BY <1>1, <2>1 DEF WireInvariant, WireOwner, HandOver
<1> QED
  BY <1>2, <1>3 DEF AcceptEngine

LEMMA AcceptModulesKeeps ==
    ASSUME WireInvariant, AcceptModules PROVE WireInvariant'
<1>1. dirty' \in BOOLEAN /\ connected' = connected /\ sweep' = sweep /\ engine' = engine
      /\ ext = "running" /\ modules.active
  BY DEF AcceptModules, WireInvariant
<1>2. CASE UNCHANGED <<ext, modules>>
  BY <1>1, <1>2 DEF WireInvariant, WireOwner, HandOver
<1>3. ASSUME NEW ok \in BOOLEAN,
             modules' = [modules EXCEPT !.active = FALSE, !.complete = ok,
                                        !.failed = ~ok],
             ext' = "done"
      PROVE  WireInvariant'
  BY <1>1, <1>3 DEF WireInvariant, WireOwner, HandOver
<1> QED
  BY <1>2, <1>3 DEF AcceptModules

LEMMA StopKeeps ==
    ASSUME WireInvariant, CommandRefused \/ Abort PROVE WireInvariant'
<1>1. CASE CommandRefused
  BY <1>1 DEF CommandRefused, WireInvariant, WireOwner, HandOver
<1>2. CASE Abort
  BY <1>2 DEF Abort, WireInvariant, WireOwner, HandOver
<1> QED
  BY <1>1, <1>2

LEMMA FinishedKeeps == ASSUME WireInvariant, Finished PROVE WireInvariant'
<1>1. CASE ext = "done"
  BY <1>1 DEF Finished, WireInvariant, WireOwner, HandOver
<1>2. CASE ext # "done"
  <2>1. FailedUnlessDone /\ ext = "refused" /\ ext' = "idle"
        /\ UNCHANGED <<connected, sweep, dirty>>
    BY <1>2 DEF Finished
  <2> QED
    BY <2>1 DEF FailedUnlessDone, WireInvariant, WireOwner, HandOver
<1> QED
  BY <1>1, <1>2

LEMMA StepKeepsWire ==
    ASSUME WireInvariant, [Next]_vars PROVE WireInvariant'
<1>1. CASE UNCHANGED <<connected, ext, engine, modules>>
           /\ sweep' \in BOOLEAN /\ dirty' \in BOOLEAN
  BY <1>1 DEF WireInvariant, WireOwner, HandOver
<1>2. CASE RequestFullSweep \/ ProgressShown \/ Toggle \/ PreferenceChanged
           \/ UNCHANGED vars
  BY <1>1, <1>2
  DEF RequestFullSweep, ProgressShown, Toggle, PreferenceChanged, vars, scanVars, WireInvariant
<1> QED
  BY <1>2, NoScanKeeps, BeginKeeps, AcceptEngineKeeps, AcceptModulesKeeps,
     StopKeeps, FinishedKeeps DEF Next

-----------------------------------------------------------------------------
(* The selection. *)

ChoiceInvariant ==
    /\ selection \in [vehicle : {""} \cup Vins, pids : SUBSET Pids]
    /\ graphs \subseteq Pids
    /\ disk \in [Vins -> SUBSET Pids]
    /\ access \in Accesses
    /\ SelectionIsOwn /\ SelectionConsistent

LEMMA PartsMakeTheWhole ==
    InductiveInvariant <=> ProbeInvariant /\ WireInvariant /\ ChoiceInvariant
BY DEF InductiveInvariant, TypeOK, ProbeInvariant, WireInvariant, ChoiceInvariant

\* No car has the empty VIN, which stands for none.
LEMMA VinsAreNames == "" \notin Vins /\ (vehicle \in Vehicles => vehicle.vin \in Vins)
BY ProbeAssumption DEF Vins

LEMMA DeselectedKeeps ==
    ASSUME ChoiceInvariant, Deselected, UNCHANGED disk, access' = "whole",
           evidence'.vin = ""
    PROVE  ChoiceInvariant'
BY DEF Accesses, ChoiceInvariant, Deselected, NoSelection, SelectionIsOwn, SelectionConsistent

LEMMA LoadedKeeps ==
    ASSUME ChoiceInvariant, ProbeInvariant, EvidenceIsOwn', Loaded(evidence'.vin),
           UNCHANGED <<vehicle, disk>>
    PROVE  ChoiceInvariant'
<1> DEFINE vin == evidence'.vin
<1>1. vin # "" => vin = vehicle.vin /\ vin \in Vins
  BY VinsAreNames DEF EvidenceIsOwn, ProbeInvariant
<1>2. CASE vin = "" \/ vin = selection.vehicle
  BY <1>2 DEF Loaded, ChoiceInvariant, SelectionIsOwn, SelectionConsistent
<1>3. CASE vin # "" /\ vin # selection.vehicle
  <2>1. PICK read \in SUBSET disk[vin] :
            /\ selection' = [vehicle |-> vin, pids |-> read] /\ graphs' = read
            /\ access' = IF read = disk[vin] THEN "whole" ELSE "partial"
    BY <1>3 DEF Loaded
  <2>2. read \in SUBSET Pids
    <3>1. vin \in Vins /\ disk \in [Vins -> SUBSET Pids]
      BY <1>1, <1>3 DEF ChoiceInvariant
    <3> QED
      BY <3>1, <2>1
  <2> QED
    BY <1>1, <1>3, <2>1, <2>2
    DEF Accesses, ChoiceInvariant, SelectionIsOwn, SelectionConsistent
<1> QED
  BY <1>2, <1>3

\* Whatever the file system does, a save leaves the file as it was, or puts
\* the choice in its vehicle's group and may lose other groups.
LEMMA SavedShape ==
    ASSUME NEW chosen \in [vehicle : {""} \cup Vins, pids : SUBSET Pids],
           disk \in [Vins -> SUBSET Pids], Saved(chosen)
    PROVE  /\ disk' \in [Vins -> SUBSET Pids] /\ access' \in Accesses \ {"partial"}
           /\ access' = "unwritten" => disk' = disk
           /\ access' # "unwritten" /\ chosen.vehicle # "" =>
                disk'[chosen.vehicle] = chosen.pids
           /\ \A vin \in Vins \ {chosen.vehicle} :
                \/ disk'[vin] = disk[vin]
                \/ access' = "blind" /\ disk'[vin] \subseteq disk[vin]
<1>1. CASE disk' = disk /\ access' = "unwritten"
  BY <1>1 DEF Accesses
<1>2. ASSUME disk' \in {d \in [Vins -> SUBSET Pids] : \A vin \in Vins :
                          IF vin = chosen.vehicle THEN d[vin] = chosen.pids
                          ELSE d[vin] \subseteq disk[vin]},
             access' = IF \A vin \in Vins \ {chosen.vehicle} : disk'[vin] = disk[vin]
                       THEN "whole" ELSE "blind"
      PROVE  /\ disk' \in [Vins -> SUBSET Pids]
             /\ access' \in {"whole", "blind"}
             /\ chosen.vehicle # "" => disk'[chosen.vehicle] = chosen.pids
             /\ \A vin \in Vins \ {chosen.vehicle} :
                  \/ disk'[vin] = disk[vin]
                  \/ access' = "blind" /\ disk'[vin] \subseteq disk[vin]
  <2>1. /\ disk' \in [Vins -> SUBSET Pids]
        /\ \A vin \in Vins : IF vin = chosen.vehicle THEN disk'[vin] = chosen.pids
                             ELSE disk'[vin] \subseteq disk[vin]
    BY <1>2
  <2>2. access' \in {"whole", "blind"}
    BY <1>2
  <2>3. chosen.vehicle # "" => disk'[chosen.vehicle] = chosen.pids
    BY <2>1
  <2>4. ASSUME NEW vin \in Vins \ {chosen.vehicle}, disk'[vin] # disk[vin]
        PROVE  access' = "blind" /\ disk'[vin] \subseteq disk[vin]
    BY <1>2, <2>1, <2>4
  <2> QED
    BY <2>1, <2>2, <2>3, <2>4
<1> QED
  BY <1>1, <1>2 DEF Saved, Accesses

\* A step of the user saves the selection it leaves.
LEMMA UserSteps ==
    ASSUME ChoiceInvariant, Toggle \/ PreferenceChanged
    PROVE  /\ UNCHANGED <<vehicle, evidence>> /\ Saved(selection')
           /\ selection' \in [vehicle : {""} \cup Vins, pids : SUBSET Pids]
           /\ selection'.vehicle = selection.vehicle /\ graphs' = selection'.pids
<1>1. CASE Toggle
  <2>1. PICK pid \in Pids : Toggled(pid)
    BY <1>1 DEF Toggle
  <2> DEFINE pids == IF pid \in selection.pids THEN selection.pids \ {pid}
                     ELSE selection.pids \cup {pid}
  <2>2. selection' = [vehicle |-> selection.vehicle, pids |-> pids]
        /\ pids \in SUBSET Pids
    BY <2>1 DEF Toggled, ChoiceInvariant
  <2> HIDE DEF pids
  <2>3. UNCHANGED <<vehicle, evidence>>
    BY <1>1 DEF Toggle, probeVars
  <2>4. Saved(selection') /\ graphs' = selection'.pids
    BY <2>1 DEF Toggled
  <2>5. /\ selection' \in [vehicle : {""} \cup Vins, pids : SUBSET Pids]
        /\ selection'.vehicle = selection.vehicle
    BY <2>2 DEF ChoiceInvariant
  <2> QED
    BY <2>3, <2>4, <2>5
<1>2. CASE PreferenceChanged
  BY <1>2 DEF PreferenceChanged, probeVars, ChoiceInvariant, SelectionConsistent
<1> QED
  BY <1>1, <1>2

LEMMA UserKeeps ==
    ASSUME ChoiceInvariant, Toggle \/ PreferenceChanged PROVE ChoiceInvariant'
<1>1. /\ UNCHANGED <<vehicle, evidence>> /\ Saved(selection')
      /\ selection' \in [vehicle : {""} \cup Vins, pids : SUBSET Pids]
      /\ selection'.vehicle = selection.vehicle /\ graphs' = selection'.pids
  BY UserSteps
<1>2. /\ disk' \in [Vins -> SUBSET Pids] /\ access' \in Accesses \ {"partial"}
      /\ access' # "unwritten" /\ selection'.vehicle # "" =>
            disk'[selection'.vehicle] = selection'.pids
  BY <1>1, SavedShape DEF ChoiceInvariant
<1> QED
  BY <1>1, <1>2 DEF ChoiceInvariant, SelectionIsOwn, SelectionConsistent

LEMMA StepKeepsChoice ==
    ASSUME ProbeInvariant, ChoiceInvariant, [Next]_vars PROVE ChoiceInvariant'
<1>1. CASE UNCHANGED choiceVars /\ UNCHANGED vehicle
           /\ (evidence'.vin = "" \/ evidence' = evidence)
  BY <1>1 DEF choiceVars, ChoiceInvariant, SelectionIsOwn, SelectionConsistent
<1>2. CASE Connect
  BY <1>2, ClearedKeeps, DeselectedKeeps DEF Connect
<1>3. CASE Disconnect
  BY <1>1, <1>3, ClearedKeeps DEF Disconnect, ProbeInvariant
<1>4. CASE Begin
  BY <1>1, <1>4, BegunKeeps DEF Begin
<1>5. ASSUME NEW reply \in Replies, AcceptEngine(reply) PROVE ChoiceInvariant'
  <2>1. EvidenceIsOwn'
    BY <1>5, AcceptedKeeps DEF AcceptEngine, ProbeInvariant
  <2> QED
    BY <1>5, <2>1, LoadedKeeps DEF AcceptEngine
<1>6. CASE Toggle \/ PreferenceChanged
  BY <1>6, UserKeeps
<1>7. CASE \/ RequestFullSweep \/ AcceptModules \/ CommandRefused \/ Abort
           \/ Finished \/ ProgressShown \/ UNCHANGED vars
  <2>1. UNCHANGED <<vehicle, probe, evidence>> /\ UNCHANGED choiceVars
    BY <1>7 DEF RequestFullSweep, AcceptModules, CommandRefused, Abort, Finished,
        ProgressShown, probeVars, vars, choiceVars
  <2> QED
    BY <1>1, <2>1
<1> QED
  BY <1>2, <1>3, <1>4, <1>5, <1>6, <1>7 DEF Next

-----------------------------------------------------------------------------
(* Theorems *)

LEMMA WorkstationStepKeeps ==
    ASSUME InductiveInvariant, [Next]_vars PROVE InductiveInvariant'
<1>1. ProbeInvariant' /\ WireInvariant' /\ ChoiceInvariant'
  BY StepKeepsProbe, StepKeepsWire, StepKeepsChoice, PartsMakeTheWhole
<1> QED
  BY <1>1 DEF InductiveInvariant, TypeOK, ProbeInvariant, WireInvariant, ChoiceInvariant

LEMMA WorkstationStarts == ASSUME Init PROVE InductiveInvariant
<1>1. ProbeInvariant
  <2>1. probe = FreshProbe /\ evidence = NoEvidence /\ vehicle \in Vehicles
    BY DEF Init
  <2>2. ProbePosition
    BY <2>1, FreshIsPositioned, PositionIsPositioned
  <2>3. EvidenceIsOwn
    BY <2>1, NothingConcluded DEF EvidenceIsOwn
  <2> QED
    BY <2>1, <2>2, <2>3, FreshIsPositioned, NothingConcluded DEF ProbeInvariant
<1>2. WireInvariant
  BY DEF Init, WireInvariant, WireOwner, HandOver, NoEngineScan, NoModuleScan
<1>3. ChoiceInvariant
  BY NothingConcluded
  DEF Init, Accesses, ChoiceInvariant, SelectionIsOwn, SelectionConsistent, NoSelection
<1> QED
  BY <1>1, <1>2, <1>3, PartsMakeTheWhole

\* Whatever the user, the shell and the car do, in any order: the probe, the
\* two scans' flags and the selection stay those of one scan of one car.
THEOREM WorkstationInvariantHolds == Spec => []InductiveInvariant
<1>1. Init => InductiveInvariant
  BY WorkstationStarts
<1>2. InductiveInvariant /\ [Next]_vars => InductiveInvariant'
  BY WorkstationStepKeeps
<1> QED
  BY <1>1, <1>2, PTL DEF Spec

LEMMA PositionGates == ASSUME InductiveInvariant PROVE FingerprintGated
<1> SUFFICES ASSUME probe.stage = "READ_DID",
                    Requests[probe.did] \in ToSet(Fingerprint)
             PROVE  /\ SpeaksForCrd3(vehicle)
                    /\ \A n \in {"vin"} \cup ToSet(Identity) :
                            probe.status[n] # "none"
                    /\ \E n \in {"vin"} \cup Compared : n \in probe.usable
  BY DEF FingerprintGated
<1>1. /\ probe.did \in 1 .. Len(Requests)
      /\ Len(Requests) \in Nat /\ Len(Identity) \in Nat
  <2>1. /\ probe.did \in 1 .. Len(Requests) + 1 /\ probe.count \in 0 .. Len(Requests)
        /\ probe.did <= probe.count
    BY DEF InductiveInvariant, TypeOK, ProbeType, ProbePosition
  <2> QED
    BY <2>1, RequestsInOrder
<1>2. probe.did > Len(Identity) + 1
  BY <1>1, FamilyComesLast
<1>3. SpeaksForCrd3(vehicle) /\ probe.usable \cap ({"vin"} \cup Compared) # {}
  BY <1>2 DEF InductiveInvariant, ProbePosition
<1>4. ASSUME NEW n \in {"vin"} \cup ToSet(Identity) PROVE probe.status[n] # "none"
  <2>1. PICK i \in 1 .. Len(Identity) + 1 : Requests[i] = n
    BY IdentityIsAPrefix
  <2>2. i \in 1 .. probe.did - 1
    BY <1>1, <1>2, <2>1
  <2> QED
    BY <2>1, <2>2 DEF InductiveInvariant, ProbePosition
<1> QED
  BY <1>3, <1>4

\* An identifier of the CRD3 family is sent only to a car whose own texts, read
\* in this scan, speak for a CRD3 unit, after all of the standard identity; for
\* every list of identifiers, not only those of the run.
THEOREM FamilyIsGated == Spec => []FingerprintGated
<1>1. InductiveInvariant => FingerprintGated
  BY PositionGates
<1> QED
  BY <1>1, WorkstationInvariantHolds, PTL

\* Exactly one machine owns the wire while the extension runs, and the flags of
\* neither outlive it.
THEOREM WireIsHandedOver == Spec => []HandOver
<1>1. InductiveInvariant => HandOver
  BY DEF InductiveInvariant
<1> QED
  BY <1>1, WorkstationInvariantHolds, PTL

\* What is polled and drawn is what is stored for the vehicle, unless the last
\* access to the file failed, and then it is nothing that was not.
THEOREM SelectionAgrees == Spec => []SelectionConsistent
<1>1. InductiveInvariant => SelectionConsistent
  BY DEF InductiveInvariant
<1> QED
  BY <1>1, WorkstationInvariantHolds, PTL

LEMMA StepConfinesPrefs ==
    ASSUME InductiveInvariant, [Next]_vars, NEW vin \in Vins, disk'[vin] # disk[vin]
    PROVE  vehicle.vin = vin \/ (access' = "blind" /\ disk'[vin] \subseteq disk[vin])
<1>1. Toggle \/ PreferenceChanged
  BY DEF Next, vars, choiceVars, Connect, Disconnect, RequestFullSweep, Begin,
     AcceptEngine, AcceptModules, CommandRefused, Abort, Finished, ProgressShown
<1>2. ChoiceInvariant
  BY PartsMakeTheWhole
<1>3. /\ Saved(selection') /\ selection'.vehicle = selection.vehicle
      /\ selection' \in [vehicle : {""} \cup Vins, pids : SUBSET Pids]
  BY <1>1, <1>2, UserSteps
<1>4. CASE vin = selection.vehicle
  BY <1>2, <1>4, VinsAreNames DEF ChoiceInvariant, SelectionIsOwn
<1>5. CASE vin # selection.vehicle
  <2>1. disk'[vin] = disk[vin] \/ (access' = "blind" /\ disk'[vin] \subseteq disk[vin])
    BY <1>2, <1>3, <1>5, SavedShape DEF ChoiceInvariant
  <2> QED
    BY <2>1
<1> QED
  BY <1>4, <1>5

\* A stored selection changes only while its own vehicle is, or was last, the
\* one plugged in; a save over a file that did not load may lose it, and no
\* failure puts anything else in its place.
THEOREM PreferencesAreConfined == Spec => PrefsConfined
<1>1. InductiveInvariant /\ [Next]_vars =>
        [\A vin \in Vins : disk'[vin] # disk[vin] =>
            \/ vehicle.vin = vin
            \/ access' = "blind" /\ disk'[vin] \subseteq disk[vin]]_vars
  BY StepConfinesPrefs
<1> QED
  BY <1>1, WorkstationInvariantHolds, PTL DEF Spec, PrefsConfined
=============================================================================
