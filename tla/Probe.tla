-------------------------------- MODULE Probe --------------------------------
(***************************************************************************)
(* The probe of the engine control unit (src/mercedes/probe.c) over Link's *)
(* generic ECU probe: VIN, the standard identity, then, only where that    *)
(* speaks for a CRD3 unit, the identifiers of the CRD3 family, then the    *)
(* fault memory.                                                           *)
(*                                                                         *)
(* `probe` is Link's machine (external), `evidence` what this repository   *)
(* derives from it after every response.  Of a text only its being usable  *)
(* and its speaking for a CRD3 unit are kept.                              *)
(***************************************************************************)
EXTENDS Naturals, Sequences, FiniteSets, SequencesExt

CONSTANTS
    Identity,       \* mercedes_probe_identity_dids, by what they hold
    Fingerprint,    \* mercedes_probe_crd3_dids
    Vehicles        \* cars the tool may be plugged into

\* A car is its VIN, the engine family that VIN stands for, and the identity
\* texts of its control unit that name a CRD3 unit.
IdentityNames ==
    {"serial", "part", "software", "version", "hardware", "name"}
FingerprintNames == {"session", "supplier", "erotan", "full", "partial"}
Engines == {"OM651", "M271", "M274", "none"}

ASSUME ProbeAssumption ==
    /\ Identity \in Seq(IdentityNames) /\ IsInjective(Identity)
    /\ Fingerprint \in Seq(FingerprintNames) /\ IsInjective(Fingerprint)
    /\ \A v \in Vehicles :
        /\ DOMAIN v = {"vin", "engine", "crd3"}
        /\ v.engine \in Engines /\ v.crd3 \subseteq IdentityNames
        /\ v.vin # ""
    /\ \A v, w \in Vehicles : v.vin = w.vin => v = w

VARIABLES vehicle, probe, evidence
probeVars == <<probe, evidence>>

\* mercedes_probe_requests
Requests == <<"vin">> \o Identity \o Fingerprint
Names == ToSet(Requests)
\* The identity texts that the probe compares.
Compared == {"part", "software", "hardware", "name"} \cap ToSet(Identity)
Numbers == Compared \ {"name"}

Statuses == {"none", "available", "silent", "negative", "invalid"}
Stages ==
    {"CONFIGURE_CHANNEL", "TESTER_PRESENT", "READ_DID", "READ_DTC", "COMPLETE",
     "FAILED"}
Matches == {"none", "family", "corroborated", "strong"}
Profiles == {"unset", "generic"} \cup (Engines \ {"none"})

ProbeType ==
    [stage : Stages, did : 1 .. Len(Requests) + 1, count : 0 .. Len(Requests),
     status : [Names -> Statuses], usable : SUBSET Names, dtc : Statuses]
EvidenceType ==
    [vin : {""} \cup {v.vin : v \in Vehicles}, profile : Profiles,
     match : Matches, allowed : BOOLEAN, attempted : BOOLEAN,
     supplier : BOOLEAN]

-----------------------------------------------------------------------------
(* Link's machine.                                                         *)

FreshProbe ==
    [stage |-> "CONFIGURE_CHANNEL", did |-> 1, count |-> Len(Requests),
     status |-> [n \in Names |-> "none"], usable |-> {}, dtc |-> "none"]

\* "usable": a positive answer whose text has the form asked for.
Replies == {"usable", "unusable", "negative", "silent", "malformed"}
StatusOf(reply) ==
    CASE reply \in {"usable", "unusable"} -> "available"
      [] reply = "negative" -> "negative"
      [] reply = "silent" -> "silent"
      [] OTHER -> "invalid"

\* Setting up the channel takes four commands, taken here as one.
Advance(p, reply) ==
    CASE p.stage = "CONFIGURE_CHANNEL" ->
            [p EXCEPT !.stage =
                IF reply = "usable" THEN "TESTER_PRESENT" ELSE "FAILED"]
      [] p.stage = "TESTER_PRESENT" ->
            [p EXCEPT !.stage =
                IF reply \in {"usable", "negative"} THEN "READ_DID" ELSE "FAILED"]
      [] p.stage = "READ_DID" ->
            LET n == Requests[p.did] IN
            [p EXCEPT !.status[n] = StatusOf(reply),
                      !.usable = IF reply = "usable" THEN @ \cup {n} ELSE @,
                      !.did = @ + 1,
                      !.stage = IF p.did = p.count THEN "READ_DTC" ELSE @]
      [] OTHER ->
            [p EXCEPT !.dtc = StatusOf(reply), !.stage = "COMPLETE"]

ResultOf(p) ==
    CASE p.stage = "COMPLETE" -> "COMPLETE"
      [] p.stage = "FAILED" -> "ERROR"
      [] OTHER -> "OK"

-----------------------------------------------------------------------------
(* What is concluded.                                                      *)

NoEvidence ==
    [vin |-> "", profile |-> "unset", match |-> "none", allowed |-> FALSE,
     attempted |-> FALSE, supplier |-> FALSE]

\* mblink_mercedes_profile_for_vin.  Slip: a family without a profile of its
\* own is not replaced by the generic one.
ProfileForFamily(v) == v.engine
ProfileFor(v) == IF v.engine = "none" THEN "generic" ELSE v.engine

\* mblink_mercedes_crd3_match_hardware_profile: the numbers and the name read
\* (available) against those that name a CRD3 unit (matching).
HardwareMatch(available, matching) ==
    LET numbers == available \cap Numbers
        hits == numbers \cap matching IN
    CASE Cardinality(numbers) >= 2 /\ hits = numbers -> "strong"
      [] hits # {} -> "corroborated"
      [] "name" \in available \cap matching -> "family"
      [] OTHER -> "none"

Attempted(p) ==
    \/ p.did > Len(Identity) + 2
    \/ \E n \in ToSet(Fingerprint) : p.status[n] # "none"

\* mercedes_probe_sync_evidence; only identified_profile outlives a call.
Synced(p, e) ==
    LET seen == p.usable \cap Compared
        vin == IF "vin" \in p.usable THEN vehicle.vin ELSE ""
        profile == IF vin # "" THEN ProfileFor(vehicle)
                   ELSE IF e.profile = "unset" THEN "generic" ELSE e.profile
        match == HardwareMatch(seen, vehicle.crd3) IN
    [vin |-> vin, profile |-> profile, match |-> match,
     allowed |-> \/ profile = "OM651"
                 \/ match # "none"
                 \/ "name" \in seen \cap vehicle.crd3,
     attempted |-> Attempted(p), supplier |-> "supplier" \in p.usable]

\* The CRD3 identifiers are left out when nothing speaks for them.
\* Slip: the check comes one request late.
GatedLate(p, e) ==
    IF ResultOf(p) = "OK" /\ p.stage = "READ_DID" /\ p.did = Len(Identity) + 3
       /\ ~e.allowed
    THEN [p EXCEPT !.count = Len(Identity) + 1, !.stage = "READ_DTC"]
    ELSE p
Gated(p, e) ==
    IF ResultOf(p) = "OK" /\ p.stage = "READ_DID" /\ p.did = Len(Identity) + 2
       /\ ~e.allowed
    THEN [p EXCEPT !.count = Len(Identity) + 1, !.stage = "READ_DTC"]
    ELSE p

\* mblink_mercedes_ecu_probe_begin
Begun ==
    /\ probe' = FreshProbe
    /\ evidence' = Synced(FreshProbe, NoEvidence)

\* mblink_mercedes_ecu_probe_accept
Accepted(reply) ==
    LET p == Advance(probe, reply)
        e == Synced(p, evidence)
        q == Gated(p, e) IN
    /\ probe' = q
    /\ evidence' = Synced(q, e)

\* mblink_mercedes_engine_scan_accept has an end of its own for each result.
EngineResult(reply) == ResultOf(Advance(probe, reply))
=============================================================================
