----------------------- MODULE ModuleScanCoverageProofs -----------------------
(***************************************************************************)
(* Proofs about the course of a module scan: it only moves forward, it     *)
(* leaves out no more routes and modules than its interruptions pay for,   *)
(* and the late probe of the transmission touches nothing else.            *)
(***************************************************************************)
EXTENDS ModuleScanEvidenceProofs, FiniteSetTheorems, SequenceTheorems, WellFoundedInduction
-----------------------------------------------------------------------------
(* The steps of a scan, by what they do to its course *)

Configuration ==
    \/ InitProtocol11 \/ InitHeaders \/ InitAutoFormat \/ InitFlowControl
    \/ InitTimeout \/ SwitchProtocol29 \/ SwitchHeadersOff29 \/ SetHeader
    \/ ResetReceive \/ SetFilter \/ SetMask \/ SetReceive
    \/ SetReceiveForSession \/ VinSetTimeout
    \/ DtcSetProtocol \/ DtcSetHeader \/ DtcSetReceive
    \/ DtcSetReceiveForIdentity
    \/ CachedIdentitySetTimeout \/ CachedIdentityRestoreTimeout

LEMMA KindsOfStep ==
    ASSUME Next
    PROVE  \/ Configuration \/ Probe \/ RestoreTimeout \/ ModuleRequests
           \/ AdapterRejects \/ Interruption \/ BeginLateTransmission \/ Rest
BY DEF Next, Step, Configuration, Probe, ModuleRequests

\* Setting the adapter up moves nothing.
ConfigurationShape ==
    /\ UNCHANGED <<scope, target, found, entry, dtcIndex, recoveries, recovered,
                   single, heard, asked>>
    /\ stage \notin Ended /\ stage' \notin Ended
    /\ InFaultPass' <=> InFaultPass
    /\ scope # "CACHED" => (BehindDiscovery' <=> BehindDiscovery)
    /\ stage' \in {"CACHED_IDENTITY_SET_TIMEOUT", "CACHED_IDENTITY"} =>
          \/ /\ stage \in {"CACHED_IDENTITY_SET_TIMEOUT", "CACHED_IDENTITY"}
             /\ kwpCaptured' = kwpCaptured
          \/ kwpCaptured' = (entry[Module].identity # "none")

LEMMA ConfigurationIsShaped ==
    ASSUME InductiveInvariant, Configuration
    PROVE  ConfigurationShape
<1>1. Position
  BY DEF InductiveInvariant
<1>2. CASE InitProtocol11 \/ InitHeaders \/ InitAutoFormat \/ InitFlowControl
  <2>1. /\ stage \in InitStages /\ stage' \in InitStages
        /\ UNCHANGED <<scope, routeVars, moduleVars, dtcIndex, resumeVars, heard, asked>>
    BY <1>2 DEF InitProtocol11, InitHeaders, InitAutoFormat, InitFlowControl, Setup,
       InitStages
  <2> QED
    BY <2>1 DEF ConfigurationShape, InFaultPass, BehindDiscovery, InitStages, DtcStages,
       DtcSetupStages, DtcRequestStages, Ended, routeVars, moduleVars, resumeVars
<1>3. CASE InitTimeout
  <2>1. /\ stage = "INIT_TIMEOUT" /\ stage' = AfterInit /\ resumePending' = FALSE
        /\ UNCHANGED <<scope, target, found, entry, dtcIndex, resumeStage, recoveries,
                       recovered, single, heard, asked>>
    BY <1>3 DEF InitTimeout, routeVars, moduleVars
  <2>2. AfterInit \in {"DTC_SET_PROTOCOL", "SWITCH_PROTOCOL_29", "DISCOVERY_SET_HEADER"}
    BY <1>1, <2>1 DEF Position, InitStages
  <2>3. scope # "CACHED" =>
          (AfterInit = "DTC_SET_PROTOCOL" <=>
             resumePending /\ resumeStage = "DTC_SET_PROTOCOL")
    BY DEF AfterInit
  <2> QED
    BY <2>1, <2>2, <2>3 DEF ConfigurationShape, InFaultPass, BehindDiscovery, DtcStages,
       DtcSetupStages, DtcRequestStages, Ended
<1>4. CASE \/ SwitchProtocol29 \/ SwitchHeadersOff29 \/ SetHeader
           \/ ResetReceive \/ SetFilter \/ SetMask \/ SetReceive
           \/ SetReceiveForSession \/ VinSetTimeout
  <2>1. /\ stage \in DiscoveryStages /\ stage' \in DiscoveryStages
        /\ UNCHANGED <<scope, target, moduleVars, dtcIndex, resumeVars, heard, asked>>
    BY <1>4 DEF SwitchProtocol29, SwitchHeadersOff29, SetHeader, ResetReceive, SetFilter,
       SetMask, SetReceive, SetReceiveForSession, VinSetTimeout, Setup, StartIdentity,
       DiscoveryStages, RouteSetupStages, ProbeStages, TimeoutStages, routeVars
  <2> QED
    BY <2>1 DEF ConfigurationShape, InFaultPass, BehindDiscovery, DiscoveryStages,
       RouteSetupStages, ProbeStages, TimeoutStages, DtcStages, DtcSetupStages,
       DtcRequestStages, Ended, moduleVars, resumeVars
<1>5. CASE \/ DtcSetProtocol \/ DtcSetHeader \/ DtcSetReceive
           \/ DtcSetReceiveForIdentity
           \/ CachedIdentitySetTimeout \/ CachedIdentityRestoreTimeout
  <2>1. /\ stage \in DtcStages /\ stage' \in DtcStages
        /\ UNCHANGED <<scope, target, moduleVars, dtcIndex, resumeVars, heard, asked>>
    BY <1>5 DEF DtcSetProtocol, DtcSetHeader, DtcSetReceive, DtcSetReceiveForIdentity,
       CachedIdentitySetTimeout, CachedIdentityRestoreTimeout, Setup, SessionOrValidate,
       DtcStages, DtcSetupStages, DtcRequestStages, routeVars
  <2>2. stage' \in {"CACHED_IDENTITY_SET_TIMEOUT", "CACHED_IDENTITY"} =>
          \/ /\ stage \in {"CACHED_IDENTITY_SET_TIMEOUT", "CACHED_IDENTITY"}
             /\ kwpCaptured' = kwpCaptured
          \/ kwpCaptured' = (entry[Module].identity # "none")
    BY <1>5 DEF DtcSetProtocol, DtcSetHeader, DtcSetReceive, DtcSetReceiveForIdentity,
       CachedIdentitySetTimeout, CachedIdentityRestoreTimeout, Setup, SessionOrValidate,
       routeVars
  <2> QED
    BY <2>1, <2>2 DEF ConfigurationShape, InFaultPass, BehindDiscovery, DtcStages,
       DtcSetupStages, DtcRequestStages, Ended, moduleVars, resumeVars
<1> QED
  BY <1>2, <1>3, <1>4, <1>5 DEF Configuration

\* A step of discovery stays on the route or leaves one it has asked.
Stays ==
    /\ UNCHANGED <<target, dtcIndex>>
    /\ stage' \in ProbeStages \cup TimeoutStages
Leaves ==
    /\ AskedNow /\ HasNextRoute
    /\ target' = target + 1 /\ dtcIndex' = dtcIndex
    /\ stage' \in {"DISCOVERY_SET_HEADER", "SWITCH_PROTOCOL_29", "INIT_PROTOCOL_11"}
Finishes ==
    /\ AskedNow /\ ~HasNextRoute
    /\ FinishDiscovery

DiscoveryShape ==
    /\ stage \in DiscoveryStages /\ scope # "CACHED" /\ ~resumePending
    /\ UNCHANGED <<scope, resumeVars>>
    /\ asked \subseteq asked' /\ heard \subseteq heard'
    /\ \E reply \in Answers : TableChange(reply)
    /\ Stays \/ Leaves \/ Finishes

LEMMA DiscoveryIsShaped ==
    ASSUME InductiveInvariant, EvidenceInvariant, Probe \/ RestoreTimeout
    PROVE  DiscoveryShape
<1>1. TypeOK /\ Position
  BY DEF InductiveInvariant
<1>2. stage \in DiscoveryStages /\ UNCHANGED <<scope, resumeVars>>
  BY DEF Probe, ExtendedSession, UdsIdentity, KwpIdentity, SparePart, Software,
         Hardware, TesterPresent, DtcFallback, VinFallback, VariantFallback,
         UnchangedByProbe, RestoreTimeout, DiscoveryStages, ProbeStages, TimeoutStages
<1>3. scope # "CACHED" /\ ~resumePending
  BY <1>1, <1>2 DEF Position, InitStages, Ended, DiscoveryStages, RouteSetupStages,
     ProbeStages, TimeoutStages
<1>4. ASSUME NextRoute, AskedNow
      PROVE  Leaves \/ Finishes
  BY <1>4 DEF NextRoute, Leaves, Finishes
<1>5. CASE RestoreTimeout
  <2>1. /\ NextRoute /\ UNCHANGED <<moduleVars, asked, heard>>
        /\ stage = "DISCOVERY_RESTORE_TIMEOUT"
    BY <1>5 DEF RestoreTimeout
  <2>2. AskedNow
    BY <2>1 DEF EvidenceInvariant, LaterStages, TimeoutStages, Asked, AskedNow
  <2>3. \E reply \in Answers : TableChange(reply)
    BY <2>1 DEF TableChange, Answers
  <2> QED
    BY <1>2, <1>3, <1>4, <2>1, <2>2, <2>3 DEF DiscoveryShape
<1>6. CASE Probe
  <2>1. PICK reply \in Answers : EvidenceShape(reply)
    BY <1>1, <1>6, ProbeEvidence
  <2>2. stage \in ProbeStages
    BY <1>6 DEF Probe, ExtendedSession, UdsIdentity, KwpIdentity, SparePart, Software,
         Hardware, TesterPresent, DtcFallback, VinFallback, VariantFallback, ProbeStages
  <2>3. stage # "DISCOVERY_EXTENDED_SESSION" => AskedNow
    BY <2>1, <2>2 DEF EvidenceShape, EvidenceInvariant, LaterStages, ProbeStages,
       Asked, AskedNow
  <2>4. heard \subseteq heard'
    BY <2>1, HeardIsAddressed DEF EvidenceShape
  <2>5. CASE StaysWith(reply)
    BY <1>2, <1>3, <2>1, <2>4, <2>5
    DEF StaysWith, Stays, DiscoveryShape, EvidenceShape, TimeoutStages
  <2>6. CASE AdvanceCandidate /\ longTimeout
    BY <1>2, <1>3, <2>1, <2>4, <2>6
    DEF AdvanceCandidate, Stays, DiscoveryShape, EvidenceShape, TimeoutStages
  <2>7. CASE AdvanceCandidate /\ ~longTimeout
    <3>1. NextRoute
      BY <2>7 DEF AdvanceCandidate
    <3>2. stage # "DISCOVERY_EXTENDED_SESSION"
      BY <2>1, <3>1, NextRouteLeads DEF EvidenceShape
    <3> QED
      BY <1>2, <1>3, <1>4, <2>1, <2>3, <2>4, <3>1, <3>2
      DEF DiscoveryShape, EvidenceShape
  <2> QED
    BY <2>1, <2>5, <2>6, <2>7 DEF EvidenceShape
<1> QED
  BY <1>5, <1>6

-----------------------------------------------------------------------------
(* Saved profiles and the late probe *)

LEMMA ConfigurationKeepsProfile ==
    ASSUME ProfileInvariant, ConfigurationShape
    PROVE  ProfileInvariant'
<1>1. Module' = Module /\ Found' = Found /\ entry' = entry
  BY DEF ConfigurationShape, Module, Found
<1>2. single' => scope' = "CACHED" /\ (stage' \notin Ended => Module' = Transmission)
  BY <1>1 DEF ConfigurationShape, ProfileInvariant
<1>3. \A r \in Routes :
        entry'[r].identity = "saved" => scope' = "CACHED" /\ r \in Found'
  BY <1>1 DEF ConfigurationShape, ProfileInvariant
<1>4. ASSUME stage' \in {"CACHED_IDENTITY_SET_TIMEOUT", "CACHED_IDENTITY"},
             entry[Module].identity # "none"
      PROVE  kwpCaptured'
  <2>1. CASE kwpCaptured' = kwpCaptured
              /\ stage \in {"CACHED_IDENTITY_SET_TIMEOUT", "CACHED_IDENTITY"}
    <3>1. kwpCaptured
      BY <1>4, <2>1 DEF ProfileInvariant
    <3> QED
      BY <2>1, <3>1
  <2>2. CASE kwpCaptured' = (entry[Module].identity # "none")
    BY <1>4, <2>2
  <2> QED
    BY <1>4, <2>1, <2>2 DEF ConfigurationShape
<1> QED
  BY <1>1, <1>2, <1>3, <1>4 DEF ProfileInvariant

LEMMA DiscoveryKeepsProfile ==
    ASSUME InductiveInvariant, ProfileInvariant, DiscoveryShape
    PROVE  ProfileInvariant'
<1>1. /\ scope # "CACHED" /\ scope' = scope /\ single' = single /\ TypeOK
      /\ ~single
  BY DEF DiscoveryShape, resumeVars, InductiveInvariant, ProfileInvariant
<1>2. PICK reply : TableChange(reply)
  BY DEF DiscoveryShape
<1>3. \A r \in Routes : entry'[r].identity # "saved"
  BY <1>1, <1>2, TableChangeIsLocal DEF Justified, ProfileInvariant
<1>4. stage' \notin {"CACHED_IDENTITY_SET_TIMEOUT", "CACHED_IDENTITY"}
  BY DEF DiscoveryShape, Stays, Leaves, Finishes, FinishDiscovery, ProbeStages,
         TimeoutStages
<1> QED
  BY <1>1, <1>3, <1>4 DEF ProfileInvariant

LEMMA ModuleRequestKeepsProfile ==
    ASSUME InductiveInvariant, ProfileInvariant, ModuleRequests
    PROVE  ProfileInvariant'
<1>1. /\ stage \in DtcRequestStages
      /\ IF stage = "DTC_READ"
         THEN dtcIndex' = dtcIndex + 1 /\ stage' = AfterModule
         ELSE dtcIndex' = dtcIndex /\ stage' \in DtcStages
      /\ stage' \in {"CACHED_IDENTITY_SET_TIMEOUT", "CACHED_IDENTITY"}
           => stage = "CACHED_IDENTITY"
      /\ kwpCaptured => kwpCaptured'
      /\ UNCHANGED <<scope, found, resumeVars>>
  BY ModuleRequestShape
<1>2. \/ entry' = entry
      \/ \E e \in Entries : /\ entry' = [entry EXCEPT ![Module] = e]
                            /\ ModuleRequestUpdates(e)
  BY ModuleRequestShape
<1>3. Module \in Routes /\ entry \in [Routes -> Entries] /\ Module \in Found
  BY <1>1, FaultPassAddresses DEF InductiveInvariant, TypeOK
<1>4. stage # "DTC_READ" => Module' = Module
  BY <1>1 DEF Module
<1>5. Found' = Found
  BY <1>1 DEF Found
<1>6. single' => scope' = "CACHED" /\ (stage' \notin Ended => Module' = Transmission)
  <2>1. ASSUME single, stage = "DTC_READ"
        PROVE  stage' = "COMPLETE"
    BY <1>1, <2>1 DEF AfterModule
  <2>2. stage \notin Ended
    BY <1>1 DEF DtcRequestStages, Ended
  <2> QED
    BY <1>1, <1>4, <2>1, <2>2 DEF ProfileInvariant, resumeVars, Ended
<1>7. \A r \in Routes : entry'[r].identity = "saved" => entry[r].identity = "saved"
  BY <1>2, <1>3 DEF ModuleRequestUpdates
<1>8. stage' \in {"CACHED_IDENTITY_SET_TIMEOUT", "CACHED_IDENTITY"} =>
        (entry'[Module'].identity # "none" => kwpCaptured')
  <2>1. SUFFICES ASSUME stage = "CACHED_IDENTITY", entry'[Module].identity # "none"
                 PROVE  kwpCaptured'
    BY <1>1, <1>4
  <2>2. entry[Module].identity # "none" => kwpCaptured
    BY <2>1 DEF ProfileInvariant
  <2>3. entry'[Module].identity = entry[Module].identity \/ kwpCaptured'
    BY <1>2, <1>3 DEF ModuleRequestUpdates
  <2> QED
    BY <1>1, <2>1, <2>2, <2>3
<1> QED
  BY <1>1, <1>5, <1>6, <1>7, <1>8 DEF ProfileInvariant

LEMMA InterruptionKeepsProfile ==
    ASSUME ProfileInvariant, Interruption
    PROVE  ProfileInvariant'
<1>1. /\ UNCHANGED <<scope, found, entry, single>> /\ stage \notin Ended
      /\ stage' \in {"INIT_PROTOCOL_11", "COMPLETE"}
  BY DEF Interruption, RetryRoute, SkipModule, SkipRoute, Interrupted, CanResume,
         ResumeAt, GiveUp, moduleVars
<1>2. single /\ stage' \notin Ended => dtcIndex' = dtcIndex
  <2>1. ASSUME single
        PROVE  InFaultPass
    BY <2>1 DEF ProfileInvariant, InFaultPass
  <2> QED
    BY <1>1, <2>1 DEF Interruption, RetryRoute, SkipModule, SkipRoute, GiveUp, Ended
<1>3. Found' = Found /\ (dtcIndex' = dtcIndex => Module' = Module)
  BY <1>1 DEF Found, Module
<1> QED
  BY <1>1, <1>2, <1>3 DEF ProfileInvariant

\* The late probe appends the transmission to the table, or finds it there.
LEMMA LateTransmissionShape ==
    ASSUME TypeOK, BeginLateTransmission
    PROVE  /\ Module' = Transmission /\ Transmission \in Routes
           /\ Found \subseteq Found' /\ Found' \subseteq Found \cup {Transmission}
           /\ \A i \in DOMAIN found : found'[i] = found[i]
           /\ \A r \in Routes \ {Transmission} : entry'[r] = entry[r]
           /\ \/ entry'[Transmission] = entry[Transmission]
              \/ entry'[Transmission] = BlankEntry("KWP") /\ Transmission \notin Found
<1>1. Transmission \in Routes /\ found \in Seq(Routes) /\ entry \in [Routes -> Entries]
  BY ConstantsAssumption DEF BeginLateTransmission, TypeOK
<1>2. dtcIndex' = CHOOSE i \in DOMAIN found' : found'[i] = Transmission
  BY DEF BeginLateTransmission
<1>3. CASE Transmission \in Found
  <2>1. found' = found /\ entry' = entry
    BY <1>3 DEF BeginLateTransmission
  <2>2. \E i \in DOMAIN found' : found'[i] = Transmission
    BY <1>3, <2>1 DEF Found
  <2> QED
    BY <1>1, <1>2, <2>1, <2>2 DEF Found, Module
<1>4. CASE Transmission \notin Found
  <2>1. /\ found' = Append(found, Transmission)
        /\ entry' = [entry EXCEPT ![Transmission] = BlankEntry("KWP")]
    BY <1>4 DEF BeginLateTransmission
  <2>2. /\ DOMAIN found' = 1 .. Len(found) + 1 /\ DOMAIN found = 1 .. Len(found)
        /\ \A i \in 1 .. Len(found) : found'[i] = found[i]
        /\ found'[Len(found) + 1] = Transmission /\ Len(found) \in Nat
    BY <1>1, <2>1
  <2>3. Len(found) + 1 \in DOMAIN found'
    BY <2>2
  <2>4. Module' = Transmission
    BY <1>2, <2>2, <2>3 DEF Module
  <2>5. Found \subseteq Found' /\ Found' \subseteq Found \cup {Transmission}
    BY <2>2 DEF Found
  <2> DEFINE blank == BlankEntry("KWP")
  <2> HIDE DEF blank
  <2>6. /\ \A r \in Routes \ {Transmission} : entry'[r] = entry[r]
        /\ entry'[Transmission] = blank
    BY <1>1, <2>1 DEF blank
  <2> QED
    BY <1>1, <1>4, <2>2, <2>4, <2>5, <2>6 DEF blank
<1> QED
  BY <1>3, <1>4

LEMMA BlankIsUnidentified ==
    ASSUME NEW p
    PROVE  BlankEntry(p).identity = "none" /\ BlankEntry(p).dtc = "not attempted"
BY DEF BlankEntry

LEMMA LateTransmissionKeepsProfile ==
    ASSUME TypeOK, ProfileInvariant, BeginLateTransmission
    PROVE  ProfileInvariant'
<1>1. scope' = "CACHED" /\ stage' = "INIT_PROTOCOL_11" /\ Module' = Transmission
  BY LateTransmissionShape DEF BeginLateTransmission
<1>2. \A r \in Routes : entry'[r].identity = "saved" => r \in Found'
  BY LateTransmissionShape, BlankIsUnidentified DEF ProfileInvariant
<1> QED
  BY <1>1, <1>2 DEF ProfileInvariant

LEMMA InitHasProfile ==
    ASSUME Init
    PROVE  ProfileInvariant
<1>1. stage = "INIT_PROTOCOL_11" /\ single = FALSE
  BY DEF Init
<1>2. CASE BeginDiscovery
  <2>1. entry = [r \in Routes |-> BlankEntry("UDS")]
    BY <1>2 DEF BeginDiscovery
  <2>2. \A r \in Routes : entry[r].identity # "saved"
    BY <2>1, BlankIsUnidentified
  <2> QED
    BY <1>1, <2>2 DEF ProfileInvariant
<1>3. CASE BeginCached
  <2>1. PICK protocol, identified, resolved :
          identified \in SUBSET Found /\ entry = SavedEntry(protocol, identified, resolved)
    BY <1>3 DEF BeginCached
  <2>2. ASSUME NEW r \in Routes, entry[r].identity = "saved"
        PROVE  r \in Found
    <3> DEFINE e == [BlankEntry(protocol[r]) EXCEPT
                       !.identity = IF r \in identified THEN "saved" ELSE "none",
                       !.family = r \in resolved]
    <3>1. entry[r] = [e EXCEPT !.protocol = EntryProtocol(r, e)]
      BY <2>1 DEF SavedEntry
    <3>2. [e EXCEPT !.protocol = EntryProtocol(r, e)].identity
            = IF r \in identified THEN "saved" ELSE "none"
      BY DEF BlankEntry
    <3> QED
      BY <2>1, <2>2, <3>1, <3>2
  <2>3. scope = "CACHED"
    BY <1>3 DEF BeginCached
  <2> QED
    BY <1>1, <2>2, <2>3 DEF ProfileInvariant
<1> QED
  BY <1>2, <1>3 DEF Init

LEMMA StepKeepsProfile ==
    ASSUME InductiveInvariant, EvidenceInvariant, ProfileInvariant, [Next]_vars
    PROVE  ProfileInvariant'
<1>1. CASE Configuration
  BY <1>1, ConfigurationIsShaped, ConfigurationKeepsProfile
<1>2. CASE Probe \/ RestoreTimeout
  BY <1>2, DiscoveryIsShaped, DiscoveryKeepsProfile
<1>3. CASE ModuleRequests
  BY <1>3, ModuleRequestKeepsProfile
<1>4. CASE AdapterRejects
  <2>1. UNCHANGED <<scope, found, entry, single>> /\ stage' = "FAILED" /\ Found' = Found
    BY <1>4 DEF AdapterRejects, moduleVars, resumeVars, Found
  <2> QED
    BY <2>1 DEF ProfileInvariant, Ended
<1>5. CASE Interruption
  BY <1>5, InterruptionKeepsProfile
<1>6. CASE BeginLateTransmission
  BY <1>6, LateTransmissionKeepsProfile DEF InductiveInvariant
<1>7. CASE Rest \/ UNCHANGED vars
  <2>1. /\ UNCHANGED <<stage, scope, found, entry, single, kwpCaptured, dtcIndex>>
        /\ Found' = Found /\ Module' = Module
    BY <1>7 DEF Rest, vars, routeVars, moduleVars, resumeVars, Found, Module
  <2> QED
    BY <2>1 DEF ProfileInvariant
<1> QED
  BY <1>1, <1>2, <1>3, <1>4, <1>5, <1>6, <1>7, KindsOfStep

\* Only a reconnect from a profile has saved identities, each of a recorded
\* module, and a late probe is on the transmission (begin_cached,
\* begin_late_transmission).
THEOREM ProfileInvariantHolds == Spec => []ProfileInvariant
<1>1. Init => ProfileInvariant
  BY InitHasProfile
<1>2. InductiveInvariant /\ EvidenceInvariant /\ ProfileInvariant /\ [Next]_vars
        => ProfileInvariant'
  BY StepKeepsProfile
<1> QED
  BY <1>1, <1>2, InductiveInvariantHolds, EvidenceInvariantHolds, PTL DEF Spec

LEMMA StepRetainsIdentity ==
    ASSUME InductiveInvariant, EvidenceInvariant, ProfileInvariant, Next,
           NEW r \in Routes, entry[r].identity = "saved"
    PROVE  entry'[r].identity = "saved"
<1>1. scope = "CACHED" /\ r \in Found /\ TypeOK
  BY DEF ProfileInvariant, InductiveInvariant
<1>2. CASE Configuration
  BY <1>2, ConfigurationIsShaped DEF ConfigurationShape
<1>3. CASE Probe \/ RestoreTimeout
  BY <1>1, <1>3, DiscoveryIsShaped DEF DiscoveryShape
<1>4. CASE ModuleRequests
  <2>1. \/ entry' = entry
        \/ \E e \in Entries : /\ entry' = [entry EXCEPT ![Module] = e]
                              /\ ModuleRequestUpdates(e)
    BY <1>4, ModuleRequestShape
  <2>2. stage = "CACHED_IDENTITY" /\ ~kwpCaptured => entry[Module].identity = "none"
    BY DEF ProfileInvariant
  <2> QED
    BY <1>1, <2>1, <2>2 DEF ModuleRequestUpdates, TypeOK
<1>5. CASE AdapterRejects \/ Interruption \/ Rest
  BY <1>5 DEF AdapterRejects, Interruption, RetryRoute, SkipModule, SkipRoute,
     Interrupted, Rest, vars, moduleVars
<1>6. CASE BeginLateTransmission
  BY <1>1, <1>6, LateTransmissionShape
<1> QED
  BY <1>2, <1>3, <1>4, <1>5, <1>6, KindsOfStep

\* A saved identity survives every reconnect, resume and late probe.
THEOREM SavedIdentitiesSurvive == Spec => SavedIdentityRetained
<1>1. InductiveInvariant /\ EvidenceInvariant /\ ProfileInvariant /\ [Next]_vars =>
        [\A r \in Routes : entry[r].identity = "saved"
                              => entry'[r].identity = "saved"]_vars
  BY StepRetainsIdentity
<1> QED
  BY <1>1, InductiveInvariantHolds, EvidenceInvariantHolds, ProfileInvariantHolds, PTL
  DEF Spec, SavedIdentityRetained

LEMMA LateStepIsLocal ==
    ASSUME InductiveInvariant, EvidenceInvariant, ProfileInvariant, Next, single'
    PROVE  /\ \A r \in Routes \ {Transmission} : entry'[r] = entry[r]
           /\ \A i \in DOMAIN found : found'[i] = found[i]
<1>1. TypeOK
  BY DEF InductiveInvariant
<1>2. CASE Configuration
  BY <1>2, ConfigurationIsShaped DEF ConfigurationShape
<1>3. CASE Probe \/ RestoreTimeout
  BY <1>3, DiscoveryIsShaped DEF DiscoveryShape, resumeVars, ProfileInvariant
<1>4. CASE ModuleRequests
  <2>1. /\ \/ entry' = entry
           \/ \E e \in Entries : entry' = [entry EXCEPT ![Module] = e]
        /\ UNCHANGED <<found, resumeVars>> /\ stage \in DtcRequestStages
    BY <1>4, ModuleRequestShape
  <2>2. Module = Transmission
    BY <2>1 DEF ProfileInvariant, resumeVars, DtcRequestStages, Ended
  <2> QED
    BY <1>1, <2>1, <2>2 DEF TypeOK
<1>5. CASE AdapterRejects \/ Interruption \/ Rest
  BY <1>5 DEF AdapterRejects, Interruption, RetryRoute, SkipModule, SkipRoute,
     Interrupted, Rest, vars, moduleVars
<1>6. CASE BeginLateTransmission
  BY <1>1, <1>6, LateTransmissionShape
<1> QED
  BY <1>2, <1>3, <1>4, <1>5, <1>6, KindsOfStep

\* The late probe replaces neither the other modules nor their faults.
THEOREM LateProbesAreLocal == Spec => LateProbeIsLocal
<1>1. InductiveInvariant /\ EvidenceInvariant /\ ProfileInvariant /\ [Next]_vars =>
        [single' =>
            /\ \A r \in Routes \ {Transmission} : entry'[r] = entry[r]
            /\ \A i \in DOMAIN found : found'[i] = found[i]]_vars
  BY LateStepIsLocal
<1> QED
  BY <1>1, InductiveInvariantHolds, EvidenceInvariantHolds, ProfileInvariantHolds, PTL
  DEF Spec, LateProbeIsLocal

-----------------------------------------------------------------------------
(* The way forward *)

LEMMA DiscoveryIsNoFaultPass ==
    ASSUME DiscoveryShape
    PROVE  /\ ~InFaultPass /\ ~BehindDiscovery /\ stage \notin Ended
           /\ Stays \/ Leaves => ~InFaultPass' /\ ~BehindDiscovery'
           /\ Finishes => InFaultPass' /\ BehindDiscovery'
BY DEF DiscoveryShape, InFaultPass, BehindDiscovery, Stays, Leaves, Finishes,
       FinishDiscovery, resumeVars, DiscoveryStages, RouteSetupStages, ProbeStages,
       TimeoutStages, DtcStages, DtcSetupStages, DtcRequestStages, Ended

\* Outside the saved-profile scope a scan that goes on is behind discovery
\* exactly when it is in the fault pass.
LEMMA FaultPassIsBehindDiscovery ==
    ASSUME scope # "CACHED", stage \notin Ended
    PROVE  InFaultPass <=> BehindDiscovery
BY DEF InFaultPass, BehindDiscovery, Ended

LEMMA StepMovesForward ==
    ASSUME InductiveInvariant, EvidenceInvariant, Next
    PROVE  /\ target' \in {target, target + 1}
           /\ InFaultPass => InFaultPass'
           /\ InFaultPass /\ single' = single => dtcIndex' \in {dtcIndex, dtcIndex + 1}
           /\ ~InFaultPass' => dtcIndex' = dtcIndex
<1>1. CASE Configuration
  BY <1>1, ConfigurationIsShaped DEF ConfigurationShape
<1>2. CASE Probe \/ RestoreTimeout
  <2>1. DiscoveryShape
    BY <1>2, DiscoveryIsShaped
  <2> QED
    BY <2>1, DiscoveryIsNoFaultPass
    DEF DiscoveryShape, Stays, Leaves, Finishes, FinishDiscovery
<1>3. CASE ModuleRequests
  <2>1. /\ stage \in DtcRequestStages /\ stage' \in DtcStages \cup {"COMPLETE"}
        /\ target' = target /\ dtcIndex' \in {dtcIndex, dtcIndex + 1}
    BY <1>3, ModuleRequestShape, FaultPassStays
  <2> QED
    BY <2>1 DEF InFaultPass, Ended
<1>4. CASE AdapterRejects
  BY <1>4 DEF AdapterRejects, InFaultPass, Ended, routeVars
<1>5. CASE RetryRoute
  BY <1>5 DEF RetryRoute, Interrupted, ResumeAt, InFaultPass
<1>6. CASE SkipModule
  BY <1>6 DEF SkipModule, Interrupted, ResumeAt, GiveUp, InFaultPass, Ended
<1>7. CASE SkipRoute
  BY <1>7 DEF SkipRoute, Interrupted, ResumeAt, GiveUp, InFaultPass, Ended
<1>8. CASE BeginLateTransmission
  BY <1>8 DEF BeginLateTransmission, InFaultPass
<1>9. CASE Rest
  BY <1>9 DEF Rest, vars, routeVars, resumeVars, InFaultPass
<1> QED
  BY <1>1, <1>2, <1>3, <1>4, <1>5, <1>6, <1>7, <1>8, <1>9, KindsOfStep
  DEF Interruption

\* Neither a resume nor a skip takes the scan back: not to an earlier route,
\* not out of the fault pass, not to an earlier module.
THEOREM OnlyForward == Spec => NoBacktrack
<1>1. InductiveInvariant /\ EvidenceInvariant /\ [Next]_vars =>
        [/\ target' \in {target, target + 1}
         /\ InFaultPass => InFaultPass'
         /\ InFaultPass /\ single' = single => dtcIndex' \in {dtcIndex, dtcIndex + 1}
         /\ ~InFaultPass' => dtcIndex' = dtcIndex]_vars
  BY StepMovesForward
<1> QED
  BY <1>1, InductiveInvariantHolds, EvidenceInvariantHolds, PTL DEF Spec, NoBacktrack

-----------------------------------------------------------------------------
(* What an interruption may cost *)

\* PaidFor, of any set, last recovered route and number of recoveries.
Paid(missed, last, n) ==
    2 * Cardinality(missed)
        + (IF last \in missed \cup {NoRoute} THEN 0 ELSE 1) <= n

LEMMA PaidLess ==
    ASSUME NEW m, IsFiniteSet(m), NEW k \in SUBSET m, NEW last,
           NEW n \in Nat, Paid(m, last, n)
    PROVE  Paid(k, last, n)
<1>1. /\ Cardinality(k) \in Nat /\ Cardinality(m) \in Nat
      /\ Cardinality(k) <= Cardinality(m)
      /\ Cardinality(k) = Cardinality(m) => k = m
  BY FS_Subset, FS_CardinalityType
<1>2. CASE k = m
  BY <1>2
<1>3. CASE k # m
  <2>1. Cardinality(k) + 1 <= Cardinality(m)
    BY <1>1, <1>3
  <2> QED
    BY <1>1, <2>1 DEF Paid
<1> QED
  BY <1>2, <1>3

\* The first interruption on a route pays for half of it.
LEMMA PaidRetry ==
    ASSUME NEW m, IsFiniteSet(m), NEW last, NEW next, NEW n \in Nat,
           Paid(m, last, n)
    PROVE  Paid(m, next, n + 1)
<1>1. Cardinality(m) \in Nat
  BY FS_CardinalityType
<1> QED
  BY <1>1 DEF Paid

\* The second one pays for the route it skips.
LEMMA PaidSkip ==
    ASSUME NEW m, IsFiniteSet(m), NEW last, last # NoRoute, NEW n \in Nat,
           NEW k \in SUBSET (m \cup {last}), Paid(m, last, n)
    PROVE  Paid(k, last, n + 1)
<1>1. Cardinality(m) \in Nat
  BY FS_CardinalityType
<1>2. /\ IsFiniteSet(m \cup {last})
      /\ Cardinality(m \cup {last}) = IF last \in m THEN Cardinality(m)
                                      ELSE Cardinality(m) + 1
  BY FS_AddElement
<1>3. Paid(m \cup {last}, last, n + 1)
  BY <1>1, <1>2 DEF Paid
<1> QED
  BY <1>2, <1>3, PaidLess

LEMMA ImageIsFinite ==
    ASSUME NEW f, NEW n \in Int
    PROVE  IsFiniteSet({f[i] : i \in 1 .. n})
<1> DEFINE g == [i \in 1 .. n |-> f[i]]
<1>1. g \in Surjection(1 .. n, {f[i] : i \in 1 .. n})
  BY DEF Surjection
<1>2. IsFiniteSet(1 .. n)
  BY FS_Interval
<1> QED
  BY <1>1, <1>2, FS_Surjection

\* Both passes leave out finitely many.
LEMMA MissedAreFinite ==
    ASSUME TypeOK
    PROVE  /\ scope # "CACHED" => IsFiniteSet(MissedRoutes)
           /\ IsFiniteSet(MissedModules)
<1>1. ASSUME scope # "CACHED"
      PROVE  IsFiniteSet(MissedRoutes)
  <2> DEFINE p == Plan[scope]
  <2>1. p \in Seq(Routes) /\ target \in 1 .. Len(p)
    BY <1>1, CandidateType
  <2>2. Len(p) \in Int /\ DOMAIN p = 1 .. Len(p) /\ target - 1 \in Int
    BY <2>1
  <2> HIDE DEF p
  <2>3. IsFiniteSet({p[i] : i \in DOMAIN p}) /\ IsFiniteSet({p[i] : i \in 1 .. target - 1})
    BY <2>2, ImageIsFinite
  <2>4. IsFiniteSet(PassedRoutes)
    BY <2>3 DEF p, PassedRoutes, PlannedRoutes
  <2>5. MissedRoutes \in SUBSET PassedRoutes
    BY DEF MissedRoutes
  <2> QED
    BY <2>4, <2>5, FS_Subset
<1>2. IsFiniteSet(MissedModules)
  <2>1. Len(found) \in Int /\ DOMAIN found = 1 .. Len(found) /\ dtcIndex - 1 \in Int
    BY FoundType DEF TypeOK
  <2>2. IsFiniteSet(Found)
    BY <2>1, ImageIsFinite DEF Found
  <2>3. Found \ {Transmission} \in SUBSET Found
    OBVIOUS
  <2>4. IsFiniteSet(Found \ {Transmission})
    BY <2>2, <2>3, FS_Subset
  <2>5. IsFiniteSet({found[i] : i \in 1 .. dtcIndex - 1})
    BY <2>1, ImageIsFinite
  <2>6. IsFiniteSet(PassedModules)
    BY <2>2, <2>4, <2>5 DEF PassedModules
  <2>7. MissedModules \in SUBSET PassedModules
    BY DEF MissedModules
  <2> QED
    BY <2>6, <2>7, FS_Subset
<1> QED
  BY <1>1, <1>2

\* PaidFor at both ends of a step.
LEMMA PaidForIsPaid ==
    /\ PaidFor(MissedRoutes) <=> Paid(MissedRoutes, recovered, recoveries)
    /\ PaidFor(MissedModules) <=> Paid(MissedModules, recovered, recoveries)
    /\ PaidFor(MissedRoutes)' <=> Paid(MissedRoutes', recovered', recoveries')
    /\ PaidFor(MissedModules)' <=> Paid(MissedModules', recovered', recoveries')
BY DEF PaidFor, Paid

\* A route is left behind.
LEMMA RouteIsPassed ==
    ASSUME TypeOK, scope # "CACHED", scope' = scope, ~BehindDiscovery,
           \/ target' = target + 1 /\ ~BehindDiscovery'
           \/ ~HasNextRoute /\ BehindDiscovery'
    PROVE  PassedRoutes' = PassedRoutes \cup {Candidate}
<1> DEFINE p == Plan[scope]
<1>1. p \in Seq(Routes) /\ target \in 1 .. Len(p) /\ p' = p
  BY CandidateType
<1>2. DOMAIN p = 1 .. Len(p) /\ Len(p) \in Nat
  BY <1>1
<1> HIDE DEF p
<1>3. PassedRoutes = {p[i] : i \in 1 .. target - 1} /\ Candidate = p[target]
  BY DEF PassedRoutes, Candidate, p
<1>4. CASE target' = target + 1 /\ ~BehindDiscovery'
  <2>1. PassedRoutes' = {p[i] : i \in 1 .. target' - 1}
    BY <1>4 DEF PassedRoutes, p
  <2>2. PassedRoutes' = {p[i] : i \in 1 .. target}
    BY <1>1, <1>4, <2>1
  <2> QED
    BY <1>1, <1>3, <2>2
<1>5. CASE ~HasNextRoute /\ BehindDiscovery'
  <2>1. PassedRoutes' = {p[i] : i \in DOMAIN p}
    BY <1>5 DEF PassedRoutes, PlannedRoutes, p
  <2>2. target = Len(p)
    BY <1>1, <1>2, <1>5 DEF HasNextRoute, p
  <2> QED
    BY <1>1, <1>2, <1>3, <2>1, <2>2
<1> QED
  BY <1>4, <1>5

\* A module is left behind.
LEMMA ModuleIsPassed ==
    ASSUME TypeOK, ProfileInvariant, stage \notin Ended, dtcIndex <= Len(found),
           found' = found, single' = single, dtcIndex' = dtcIndex + 1,
           IF single \/ dtcIndex >= Len(found) THEN stage' = "COMPLETE"
                                               ELSE stage' # "COMPLETE"
    PROVE  PassedModules' = PassedModules \cup {Module}
<1>1. /\ DOMAIN found = 1 .. Len(found) /\ Len(found) \in Nat /\ Found' = Found
      /\ dtcIndex \in Nat \ {0} /\ stage # "COMPLETE"
  BY FoundType DEF TypeOK, Found, Ended
<1>2. CASE single
  <2>1. PassedModules' = Found /\ PassedModules = Found \ {Transmission}
    BY <1>1, <1>2 DEF PassedModules
  <2>2. Module = Transmission /\ Module \in Found
    BY <1>1, <1>2 DEF ProfileInvariant, Module, Found
  <2> QED
    BY <2>1, <2>2
<1>3. CASE ~single
  <2>1. PassedModules = {found[i] : i \in 1 .. dtcIndex - 1}
    BY <1>1, <1>3 DEF PassedModules
  <2>2. PassedModules' = {found[i] : i \in 1 .. dtcIndex}
    <3>1. CASE dtcIndex >= Len(found)
      <4>1. stage' = "COMPLETE"
        BY <3>1
      <4>2. PassedModules' = Found
        BY <1>1, <4>1 DEF PassedModules
      <4>3. dtcIndex <= Len(found)
        OBVIOUS
      <4>4. \A a, b \in Nat : a >= b /\ a <= b => a = b
        BY SMT
      <4>5. dtcIndex = Len(found)
        BY <1>1, <3>1, <4>3, <4>4, Zenon
      <4> QED
        BY <1>1, <4>2, <4>5 DEF Found
    <3>2. CASE ~(dtcIndex >= Len(found))
      <4>1. PassedModules' = {found[i] : i \in 1 .. dtcIndex' - 1}
        BY <1>3, <3>2 DEF PassedModules
      <4> QED
        BY <1>1, <4>1
    <3> QED
      BY <3>1, <3>2
  <2> QED
    BY <1>1, <2>1, <2>2 DEF Module
<1> QED
  BY <1>2, <1>3

LEMMA NothingBeforeOne == 1 .. 1 - 1 = {}
OBVIOUS

\* Where the fault pass starts nothing is missed.
LEMMA NothingIsMissed ==
    ASSUME ~single', dtcIndex' = 1,
           stage' = "COMPLETE" => \A r \in Found' : entry'[r].dtc # "not attempted"
    PROVE  MissedModules' = {}
<1>1. CASE stage' = "COMPLETE"
  BY <1>1 DEF MissedModules, PassedModules
<1>2. CASE stage' # "COMPLETE"
  <2>1. PassedModules' = {found'[i] : i \in 1 .. dtcIndex' - 1}
    BY <1>2 DEF PassedModules
  <2>2. 1 .. dtcIndex' - 1 = {}
    BY NothingBeforeOne, Zenon
  <2> QED
    BY <2>1, <2>2 DEF MissedModules
<1> QED
  BY <1>1, <1>2

CoursePaid ==
    /\ scope # "CACHED" /\ stage # "FAILED" => PaidFor(MissedRoutes)
    /\ stage # "FAILED" => PaidFor(MissedModules)

\* Setting the adapter up leaves nothing out.
LEMMA ConfigurationMisses ==
    ASSUME ConfigurationShape
    PROVE  /\ scope # "CACHED" => MissedRoutes' = MissedRoutes
           /\ MissedModules' = MissedModules
<1>1. /\ Found' = Found /\ PlannedRoutes' = PlannedRoutes
      /\ stage # "FAILED" /\ stage # "COMPLETE" /\ stage' # "COMPLETE"
  BY DEF ConfigurationShape, Found, PlannedRoutes, Ended
<1>2. scope # "CACHED" => PassedRoutes' = PassedRoutes
  BY <1>1 DEF ConfigurationShape, PassedRoutes
<1>3. scope # "CACHED" => MissedRoutes' = MissedRoutes
  BY <1>2 DEF ConfigurationShape, MissedRoutes, Asked
<1>4. PassedModules' = PassedModules
  BY <1>1 DEF ConfigurationShape, PassedModules
<1>5. MissedModules' = MissedModules
  BY <1>4 DEF ConfigurationShape, MissedModules
<1> QED
  BY <1>3, <1>5

LEMMA ConfigurationKeepsCourse ==
    ASSUME CoverageInvariant, ConfigurationShape
    PROVE  CoursePaid'
<1>1. /\ recovered' = recovered /\ recoveries' = recoveries /\ scope' = scope
      /\ stage # "FAILED"
  BY DEF ConfigurationShape, Ended
<1> QED
  BY <1>1, ConfigurationMisses, PaidForIsPaid DEF CoverageInvariant, CoursePaid

LEMMA DiscoveryKeepsCourse ==
    ASSUME InductiveInvariant, ProfileInvariant, CoverageInvariant, DiscoveryShape
    PROVE  CoursePaid'
<1>1. TypeOK /\ recoveries \in Nat
  BY ConstantsAssumption DEF InductiveInvariant, TypeOK
<1>2. /\ scope # "CACHED" /\ scope' = scope /\ ~single' /\ stage # "FAILED"
      /\ recovered' = recovered /\ recoveries' = recoveries
      /\ ~BehindDiscovery /\ dtcIndex = 1
  BY DiscoveryIsNoFaultPass
  DEF DiscoveryShape, resumeVars, ProfileInvariant, CoverageInvariant, Ended
<1>3. MissedRoutes' \subseteq MissedRoutes
  <2>1. CASE Stays
    <3>1. PassedRoutes' = PassedRoutes
      BY <1>2, <2>1, DiscoveryIsNoFaultPass DEF Stays, PassedRoutes
    <3> QED
      BY <3>1 DEF DiscoveryShape, MissedRoutes, Asked
  <2>2. CASE Leaves \/ Finishes
    <3>1. PassedRoutes' \subseteq PassedRoutes \cup {Candidate}
      BY <1>1, <1>2, <2>2, DiscoveryIsNoFaultPass, RouteIsPassed DEF Leaves, Finishes
    <3>2. AskedNow
      BY <2>2 DEF Leaves, Finishes
    <3> QED
      BY <3>1, <3>2 DEF DiscoveryShape, MissedRoutes, Asked, AskedNow
  <2> QED
    BY <2>1, <2>2 DEF DiscoveryShape
<1>4. MissedModules' = {}
  <2>1. CASE Stays \/ Leaves
    <3>1. dtcIndex' = 1 /\ stage' # "COMPLETE"
      BY <1>2, <2>1 DEF Stays, Leaves, ProbeStages, TimeoutStages
    <3> QED
      BY <1>2, <3>1, NothingIsMissed
  <2>2. CASE Finishes
    <3>1. /\ dtcIndex' = 1
          /\ stage' = "COMPLETE" => \A r \in Found' : entry'[r].dtc # "not attempted"
      BY <2>2 DEF Finishes, FinishDiscovery
    <3> QED
      BY <1>2, <3>1, NothingIsMissed
  <2> QED
    BY <2>1, <2>2 DEF DiscoveryShape
<1>5. IsFiniteSet(MissedRoutes) /\ IsFiniteSet(MissedModules)
  BY <1>1, <1>2, MissedAreFinite
<1>6. /\ Paid(MissedRoutes, recovered, recoveries)
      /\ Paid(MissedModules, recovered, recoveries)
  BY <1>2, PaidForIsPaid DEF CoverageInvariant
<1>7. Paid(MissedRoutes', recovered, recoveries)
  BY <1>1, <1>3, <1>5, <1>6, PaidLess
<1>8. Paid({}, recovered, recoveries)
  BY <1>1, <1>5, <1>6, PaidLess
<1> QED
  BY <1>2, <1>4, <1>7, <1>8, PaidForIsPaid DEF CoursePaid

LEMMA ModuleRequestKeepsCourse ==
    ASSUME InductiveInvariant, ProfileInvariant, CoverageInvariant, ModuleRequests
    PROVE  CoursePaid'
<1>1. TypeOK /\ recoveries \in Nat
  BY ConstantsAssumption DEF InductiveInvariant, TypeOK
<1>2. /\ stage \in DtcRequestStages
      /\ IF stage = "DTC_READ"
         THEN dtcIndex' = dtcIndex + 1 /\ stage' = AfterModule
         ELSE dtcIndex' = dtcIndex /\ stage' \in DtcStages
      /\ UNCHANGED <<scope, target, found, asked, resumeVars>>
  BY ModuleRequestShape
<1>3. \/ entry' = entry /\ stage # "DTC_READ"
      \/ \E e \in Entries : /\ entry' = [entry EXCEPT ![Module] = e]
                            /\ ModuleRequestUpdates(e)
  BY ModuleRequestShape
<1>4. /\ Module \in Routes /\ Found \subseteq Routes /\ entry \in [Routes -> Entries]
      /\ dtcIndex <= Len(found) /\ stage \notin Ended
  BY <1>1, <1>2, FaultPassAddresses, FoundType
  DEF TypeOK, InductiveInvariant, Position, DtcStages, DtcRequestStages, Ended
<1>5. single' = single /\ recovered' = recovered /\ recoveries' = recoveries
  BY <1>2 DEF resumeVars
<1>6. scope # "CACHED" => MissedRoutes' = MissedRoutes
  <2>1. BehindDiscovery
    BY <1>2 DEF BehindDiscovery, DtcStages
  <2>2. BehindDiscovery'
    BY FaultPassStays DEF BehindDiscovery
  <2>3. PassedRoutes' = PassedRoutes
    BY <1>2, <2>1, <2>2 DEF PassedRoutes, PlannedRoutes
  <2> QED
    BY <1>2, <2>3 DEF MissedRoutes, Asked
<1>7. Found' = Found /\ PassedModules \subseteq Routes
  <2>1. \A i \in 1 .. dtcIndex - 1 : found[i] \in Found
    BY <1>1, <1>4, FoundType DEF TypeOK, Found
  <2> QED
    BY <1>2, <1>4, <2>1 DEF PassedModules, Found
<1>8. MissedModules' \subseteq MissedModules
  <2>1. CASE stage # "DTC_READ"
    <3>1. stage' # "COMPLETE" /\ stage # "COMPLETE" /\ dtcIndex' = dtcIndex
      BY <1>2, <1>4, <2>1 DEF DtcStages, DtcSetupStages, DtcRequestStages, Ended
    <3>2. PassedModules' = PassedModules
      BY <1>2, <1>5, <1>7, <3>1 DEF PassedModules
    <3>3. \A r \in Routes : entry'[r].dtc = "not attempted" => entry[r].dtc = "not attempted"
      BY <1>3, <1>4 DEF ModuleRequestUpdates
    <3> QED
      BY <1>7, <3>2, <3>3 DEF MissedModules
  <2>2. CASE stage = "DTC_READ"
    <3>1. PassedModules' \subseteq PassedModules \cup {Module}
      BY <1>1, <1>2, <1>4, <1>5, <2>2, ModuleIsPassed DEF AfterModule
    <3>2. /\ entry'[Module].dtc # "not attempted"
          /\ \A r \in Routes \ {Module} : entry'[r] = entry[r]
      BY <1>3, <1>4, <2>2 DEF ModuleRequestUpdates
    <3> QED
      BY <1>7, <3>1, <3>2 DEF MissedModules
  <2> QED
    BY <2>1, <2>2
<1>9. IsFiniteSet(MissedModules) /\ stage # "FAILED"
  BY <1>1, <1>4, MissedAreFinite DEF Ended
<1>10. Paid(MissedModules', recovered, recoveries)
  BY <1>1, <1>8, <1>9, PaidLess, PaidForIsPaid DEF CoverageInvariant
<1> QED
  BY <1>2, <1>5, <1>6, <1>9, <1>10, PaidForIsPaid DEF CoursePaid, CoverageInvariant

\* The first interruption on a route moves nothing.
LEMMA RetryMisses ==
    ASSUME RetryRoute
    PROVE  /\ scope # "CACHED" => MissedRoutes' = MissedRoutes
           /\ MissedModules' = MissedModules
<1>1. /\ stage \notin Ended /\ stage' = "INIT_PROTOCOL_11"
      /\ UNCHANGED <<scope, target, found, entry, dtcIndex, single, asked>>
      /\ resumePending' = TRUE
      /\ resumeStage' = IF InFaultPass THEN "DTC_SET_PROTOCOL" ELSE RouteStart(Candidate)
  BY DEF RetryRoute, CanResume, Interrupted, ResumeAt, moduleVars
<1>2. stage # "COMPLETE" /\ stage' # "COMPLETE"
  BY <1>1 DEF Ended
<1>3. scope # "CACHED" => (BehindDiscovery' <=> BehindDiscovery)
  <2>1. RouteStart(Candidate) # "DTC_SET_PROTOCOL"
    BY DEF RouteStart
  <2>2. BehindDiscovery' <=> InFaultPass
    BY <1>1, <2>1 DEF BehindDiscovery, DtcStages, DtcSetupStages, DtcRequestStages
  <2> QED
    BY <1>1, <2>2, FaultPassIsBehindDiscovery
<1>4. Found' = Found /\ PlannedRoutes' = PlannedRoutes
  BY <1>1 DEF Found, PlannedRoutes
<1>5. scope # "CACHED" => MissedRoutes' = MissedRoutes
  <2>1. scope # "CACHED" => PassedRoutes' = PassedRoutes
    BY <1>1, <1>3, <1>4 DEF PassedRoutes
  <2> QED
    BY <1>1, <2>1 DEF MissedRoutes, Asked
<1>6. MissedModules' = MissedModules
  <2>1. PassedModules' = PassedModules
    BY <1>1, <1>2, <1>4 DEF PassedModules
  <2> QED
    BY <1>1, <2>1 DEF MissedModules
<1> QED
  BY <1>5, <1>6

\* And it pays for half of the route.
LEMMA RetryKeepsCourse ==
    ASSUME InductiveInvariant, CoverageInvariant, RetryRoute
    PROVE  CoursePaid'
<1>1. TypeOK /\ recoveries \in Nat
  BY ConstantsAssumption DEF InductiveInvariant, TypeOK
<1>2. /\ stage \notin Ended /\ recoveries' = recoveries + 1 /\ scope' = scope
  BY DEF RetryRoute, CanResume, Interrupted
<1>3. stage # "FAILED"
  BY <1>2 DEF Ended
<1>4. ASSUME scope # "CACHED"
      PROVE  Paid(MissedRoutes, recovered', recoveries + 1)
  <2>1. IsFiniteSet(MissedRoutes)
    BY <1>1, <1>4, MissedAreFinite
  <2>2. Paid(MissedRoutes, recovered, recoveries)
    BY <1>3, <1>4, PaidForIsPaid DEF CoverageInvariant
  <2> QED
    BY <1>1, <2>1, <2>2, PaidRetry
<1>5. Paid(MissedModules, recovered', recoveries + 1)
  <2>1. IsFiniteSet(MissedModules)
    BY <1>1, MissedAreFinite
  <2>2. Paid(MissedModules, recovered, recoveries)
    BY <1>3, PaidForIsPaid DEF CoverageInvariant
  <2> QED
    BY <1>1, <2>1, <2>2, PaidRetry
<1> QED
  BY <1>2, <1>4, <1>5, RetryMisses, PaidForIsPaid DEF CoursePaid

\* The second one pays for the module it leaves out.
LEMMA SkipModuleKeepsCourse ==
    ASSUME InductiveInvariant, ProfileInvariant, CoverageInvariant, SkipModule
    PROVE  CoursePaid'
<1>1. TypeOK /\ recoveries \in Nat
  BY ConstantsAssumption DEF InductiveInvariant, TypeOK
<1>2. /\ stage \notin Ended /\ recoveries' = recoveries + 1
      /\ recovered = Module /\ recovered' = Module /\ dtcIndex' = dtcIndex + 1
      /\ InFaultPass /\ dtcIndex <= Len(found)
      /\ UNCHANGED <<scope, target, found, entry, single, asked>>
  BY DEF SkipModule, CanResume, Interrupted, InterruptedRoute, moduleVars
<1>3. IF single \/ dtcIndex >= Len(found)
      THEN stage' = "COMPLETE"
      ELSE /\ stage' = "INIT_PROTOCOL_11"
           /\ resumePending' = TRUE /\ resumeStage' = "DTC_SET_PROTOCOL"
  BY DEF SkipModule, GiveUp, ResumeAt
<1>4. stage # "FAILED" /\ stage # "COMPLETE"
  BY <1>2 DEF Ended
<1>5. Found' = Found /\ PlannedRoutes' = PlannedRoutes /\ Found \subseteq Routes
  BY <1>1, <1>2, FoundType DEF Found, PlannedRoutes, TypeOK
<1>6. Module \in Routes /\ Module # NoRoute
  <2>1. dtcIndex \in 1 .. Len(found)
    BY <1>1, <1>2, FoundType DEF TypeOK
  <2> QED
    BY <1>1, <2>1, ConstantsAssumption DEF Module, TypeOK
<1>7. scope # "CACHED" => MissedRoutes' = MissedRoutes
  <2>1. scope # "CACHED" => BehindDiscovery /\ BehindDiscovery'
    BY <1>2, <1>3, FaultPassIsBehindDiscovery DEF BehindDiscovery
  <2>2. scope # "CACHED" => PassedRoutes' = PassedRoutes
    BY <1>5, <2>1 DEF PassedRoutes
  <2> QED
    BY <1>2, <2>2 DEF MissedRoutes, Asked
<1>8. MissedModules' \subseteq MissedModules \cup {Module}
  <2>1. PassedModules' \subseteq PassedModules \cup {Module}
    BY <1>1, <1>2, <1>3, ModuleIsPassed
  <2> QED
    BY <1>2, <2>1 DEF MissedModules
<1>9. ASSUME scope # "CACHED"
      PROVE  Paid(MissedRoutes, recovered', recoveries + 1)
  <2>1. IsFiniteSet(MissedRoutes)
    BY <1>1, <1>9, MissedAreFinite
  <2>2. Paid(MissedRoutes, recovered, recoveries)
    BY <1>4, <1>9, PaidForIsPaid DEF CoverageInvariant
  <2> QED
    BY <1>1, <2>1, <2>2, PaidRetry
<1>10. Paid(MissedModules', recovered', recoveries + 1)
  <2>1. IsFiniteSet(MissedModules)
    BY <1>1, MissedAreFinite
  <2>2. Paid(MissedModules, Module, recoveries)
    BY <1>2, <1>4, PaidForIsPaid DEF CoverageInvariant
  <2>3. Paid(MissedModules', Module, recoveries + 1)
    BY <1>1, <1>6, <1>8, <2>1, <2>2, PaidSkip
  <2> QED
    BY <1>2, <2>3
<1> QED
  BY <1>2, <1>7, <1>9, <1>10, PaidForIsPaid DEF CoursePaid

\* Or for the route it leaves out.
LEMMA SkipRouteKeepsCourse ==
    ASSUME InductiveInvariant, ProfileInvariant, CoverageInvariant, SkipRoute
    PROVE  CoursePaid'
<1>1. TypeOK /\ recoveries \in Nat
  BY ConstantsAssumption DEF InductiveInvariant, TypeOK
<1>2. /\ stage \notin Ended /\ recoveries' = recoveries + 1
      /\ recovered = Candidate /\ recovered' = Candidate
      /\ ~InFaultPass
      /\ UNCHANGED <<scope, found, entry, single, asked>>
  BY DEF SkipRoute, CanResume, Interrupted, InterruptedRoute, moduleVars
<1>3. \/ /\ target' = target + 1 /\ dtcIndex' = dtcIndex
         /\ stage' = "INIT_PROTOCOL_11"
         /\ resumeStage' = RouteStart(Plan[scope][target + 1])
      \/ /\ ~HasNextRoute /\ target' = target /\ dtcIndex' = 1
         /\ \/ /\ stage' = "INIT_PROTOCOL_11"
               /\ resumePending' = TRUE /\ resumeStage' = "DTC_SET_PROTOCOL"
            \/ /\ stage' = "COMPLETE"
               /\ \A r \in Found : entry[r].dtc # "not attempted"
  BY DEF SkipRoute, GiveUp, ResumeAt
<1>4. stage # "FAILED" /\ stage # "COMPLETE"
  BY <1>2 DEF Ended
<1>5. scope # "CACHED" /\ ~single /\ ~single' /\ dtcIndex' = 1
  BY <1>2, <1>3 DEF InFaultPass, ProfileInvariant, CoverageInvariant
<1>6. ~BehindDiscovery
  BY <1>2, <1>5, FaultPassIsBehindDiscovery
<1>7. \/ target' = target + 1 /\ ~BehindDiscovery'
      \/ ~HasNextRoute /\ BehindDiscovery'
  <2>1. RouteStart(Plan[scope][target + 1]) # "DTC_SET_PROTOCOL"
    BY DEF RouteStart
  <2> QED
    BY <1>3, <2>1 DEF BehindDiscovery, DtcStages, DtcSetupStages, DtcRequestStages
<1>8. MissedRoutes' \subseteq MissedRoutes \cup {Candidate}
  <2>1. PassedRoutes' \subseteq PassedRoutes \cup {Candidate}
    BY <1>1, <1>2, <1>5, <1>6, <1>7, RouteIsPassed
  <2> QED
    BY <1>2, <2>1 DEF MissedRoutes, Asked
<1>9. MissedModules' = {}
  <2>1. Found' = Found
    BY <1>2 DEF Found
  <2>2. stage' = "COMPLETE" => \A r \in Found' : entry'[r].dtc # "not attempted"
    BY <1>2, <1>3, <2>1
  <2> QED
    BY <1>5, <2>2, NothingIsMissed
<1>10. Candidate # NoRoute
  BY <1>1, <1>5, CandidateType, ConstantsAssumption
<1>11. IsFiniteSet(MissedRoutes) /\ IsFiniteSet(MissedModules)
  BY <1>1, <1>5, MissedAreFinite
<1>12. /\ Paid(MissedRoutes, Candidate, recoveries)
       /\ Paid(MissedModules, Candidate, recoveries)
  BY <1>2, <1>4, <1>5, PaidForIsPaid DEF CoverageInvariant
<1>13. Paid(MissedRoutes', Candidate, recoveries + 1)
  BY <1>1, <1>8, <1>10, <1>11, <1>12, PaidSkip
<1>14. Paid({}, Candidate, recoveries + 1)
  <2>1. {} \in SUBSET (MissedModules \cup {Candidate})
    OBVIOUS
  <2> QED
    BY <1>1, <1>10, <1>11, <1>12, <2>1, PaidSkip
<1> QED
  BY <1>2, <1>9, <1>13, <1>14, PaidForIsPaid DEF CoursePaid

LEMMA LateTransmissionKeepsCourse ==
    ASSUME InductiveInvariant, CoverageInvariant, BeginLateTransmission
    PROVE  CoursePaid'
<1>1. TypeOK /\ recoveries \in Nat
  BY ConstantsAssumption DEF InductiveInvariant, TypeOK
<1>2. /\ scope' = "CACHED" /\ stage = "COMPLETE" /\ stage' = "INIT_PROTOCOL_11" /\ single'
      /\ recovered' = recovered /\ recoveries' = recoveries
  BY DEF BeginLateTransmission
<1>3. /\ Found \subseteq Routes /\ Found' \subseteq Found \cup {Transmission}
      /\ \A r \in Routes \ {Transmission} : entry'[r] = entry[r]
  BY <1>1, LateTransmissionShape, FoundType DEF TypeOK, Found
<1>4. PassedModules = Found /\ PassedModules' = Found' \ {Transmission}
  BY <1>2 DEF PassedModules
<1>5. MissedModules' \subseteq MissedModules
  BY <1>3, <1>4 DEF MissedModules
<1>6. IsFiniteSet(MissedModules)
  BY <1>1, MissedAreFinite
<1>7. Paid(MissedModules', recovered, recoveries)
  BY <1>1, <1>2, <1>5, <1>6, PaidLess, PaidForIsPaid DEF CoverageInvariant
<1> QED
  BY <1>2, <1>7, PaidForIsPaid DEF CoursePaid

LEMMA InitHasCoverage ==
    ASSUME Init
    PROVE  CoverageInvariant
<1>1. /\ stage = "INIT_PROTOCOL_11" /\ target = 1 /\ dtcIndex = 1 /\ single = FALSE
      /\ resumePending = FALSE /\ recoveries = 0 /\ recovered = NoRoute
  BY DEF Init
<1>2. 1 .. target - 1 = {} /\ 1 .. dtcIndex - 1 = {}
  BY <1>1, NothingBeforeOne, Zenon
<1>3. ~BehindDiscovery
  BY <1>1 DEF BehindDiscovery, DtcStages, DtcSetupStages, DtcRequestStages
<1>4. PassedRoutes = {} /\ PassedModules = {}
  BY <1>1, <1>2, <1>3 DEF PassedRoutes, PassedModules
<1>5. MissedRoutes = {} /\ MissedModules = {}
  BY <1>4 DEF MissedRoutes, MissedModules
<1>6. Paid({}, NoRoute, 0)
  BY FS_EmptySet DEF Paid
<1> QED
  BY <1>1, <1>5, <1>6, PaidForIsPaid DEF CoverageInvariant

LEMMA StepKeepsCourse ==
    ASSUME InductiveInvariant, EvidenceInvariant, ProfileInvariant, CoverageInvariant,
           [Next]_vars
    PROVE  CoursePaid'
<1>1. CASE Configuration
  BY <1>1, ConfigurationIsShaped, ConfigurationKeepsCourse
<1>2. CASE Probe \/ RestoreTimeout
  BY <1>2, DiscoveryIsShaped, DiscoveryKeepsCourse
<1>3. CASE ModuleRequests
  BY <1>3, ModuleRequestKeepsCourse
<1>4. CASE AdapterRejects
  <2>1. stage' = "FAILED"
    BY <1>4 DEF AdapterRejects
  <2> QED
    BY <2>1 DEF CoursePaid
<1>5. CASE Interruption
  BY <1>5, RetryKeepsCourse, SkipModuleKeepsCourse, SkipRouteKeepsCourse DEF Interruption
<1>6. CASE BeginLateTransmission
  BY <1>6, LateTransmissionKeepsCourse
<1>7. CASE Rest \/ UNCHANGED vars
  <2>1. UNCHANGED vars
    BY <1>7 DEF Rest
  <2>2. UNCHANGED <<stage, scope, target, found, entry, dtcIndex, asked, resumeVars>>
    BY <2>1 DEF vars, routeVars, moduleVars
  <2>3. UNCHANGED <<resumePending, resumeStage, recoveries, recovered, single>>
    BY <2>2 DEF resumeVars
  <2>4. Found' = Found /\ PlannedRoutes' = PlannedRoutes
        /\ (BehindDiscovery' <=> BehindDiscovery)
    BY <2>2, <2>3 DEF Found, PlannedRoutes, BehindDiscovery
  <2>5. PassedRoutes' = PassedRoutes /\ PassedModules' = PassedModules
    BY <2>2, <2>3, <2>4 DEF PassedRoutes, PassedModules
  <2>6. MissedRoutes' = MissedRoutes /\ MissedModules' = MissedModules
    BY <2>2, <2>5 DEF MissedRoutes, MissedModules, Asked
  <2> QED
    BY <2>2, <2>3, <2>6, PaidForIsPaid DEF CoursePaid, CoverageInvariant
<1> QED
  BY <1>1, <1>2, <1>3, <1>4, <1>5, <1>6, <1>7, KindsOfStep

LEMMA StepKeepsCoverage ==
    ASSUME InductiveInvariant, EvidenceInvariant, ProfileInvariant, CoverageInvariant,
           [Next]_vars
    PROVE  CoverageInvariant'
<1>1. CoursePaid'
  BY StepKeepsCourse
<1>2. ~InFaultPass' => dtcIndex' = 1
  <2>1. CASE Next
    BY <2>1, StepMovesForward DEF CoverageInvariant
  <2>2. CASE UNCHANGED vars
    BY <2>2 DEF vars, resumeVars, InFaultPass, CoverageInvariant
  <2> QED
    BY <2>1, <2>2
<1> QED
  BY <1>1, <1>2 DEF CoursePaid, CoverageInvariant

\* A scan leaves out no more routes and modules than its interruptions pay
\* for, at every moment of its course.
THEOREM CoverageInvariantHolds == Spec => []CoverageInvariant
<1>1. Init => CoverageInvariant
  BY InitHasCoverage
<1>2. InductiveInvariant /\ EvidenceInvariant /\ ProfileInvariant /\ CoverageInvariant
        /\ [Next]_vars => CoverageInvariant'
  BY StepKeepsCoverage
<1> QED
  BY <1>1, <1>2, InductiveInvariantHolds, EvidenceInvariantHolds,
     ProfileInvariantHolds, PTL DEF Spec

LEMMA PaidBounds ==
    ASSUME NEW m, IsFiniteSet(m), NEW last, NEW n \in Nat, Paid(m, last, n)
    PROVE  2 * Cardinality(m) <= n
<1>1. Cardinality(m) \in Nat
  BY FS_CardinalityType
<1> QED
  BY <1>1 DEF Paid

LEMMA CoverageFollows ==
    ASSUME InductiveInvariant, CoverageInvariant
    PROVE  RouteCoverage /\ FaultCoverage
<1>1. TypeOK /\ recoveries \in Nat
  BY ConstantsAssumption DEF InductiveInvariant, TypeOK
<1>2. ASSUME scope # "CACHED", stage \in DtcStages \cup {"COMPLETE"}
      PROVE  2 * Cardinality({r \in PlannedRoutes : ~Asked(r)}) <= recoveries
  <2>1. MissedRoutes = {r \in PlannedRoutes : ~Asked(r)}
    BY <1>2 DEF MissedRoutes, PassedRoutes, BehindDiscovery
  <2>2. stage # "FAILED"
    BY <1>2 DEF DtcStages, DtcSetupStages, DtcRequestStages
  <2>3. Paid(MissedRoutes, recovered, recoveries) /\ IsFiniteSet(MissedRoutes)
    BY <1>1, <1>2, <2>2, MissedAreFinite, PaidForIsPaid DEF CoverageInvariant
  <2>4. 2 * Cardinality(MissedRoutes) <= recoveries
    BY <1>1, <2>3, PaidBounds
  <2> QED
    BY <2>1, <2>4
<1>3. ASSUME stage = "COMPLETE"
      PROVE  2 * Cardinality({r \in Found : entry[r].dtc = "not attempted"}) <= recoveries
  <2>1. MissedModules = {r \in Found : entry[r].dtc = "not attempted"}
    BY <1>3 DEF MissedModules, PassedModules
  <2>2. Paid(MissedModules, recovered, recoveries) /\ IsFiniteSet(MissedModules)
    BY <1>1, <1>3, MissedAreFinite, PaidForIsPaid DEF CoverageInvariant
  <2>3. 2 * Cardinality(MissedModules) <= recoveries
    BY <1>1, <2>2, PaidBounds
  <2> QED
    BY <2>1, <2>3
<1> QED
  BY <1>2, <1>3 DEF RouteCoverage, FaultCoverage

\* Every planned route is asked for its identity before the fault pass, except
\* one for each two interruptions.
THEOREM RoutesAreCovered == Spec => []RouteCoverage
<1>1. InductiveInvariant /\ CoverageInvariant => RouteCoverage
  BY CoverageFollows
<1> QED
  BY <1>1, InductiveInvariantHolds, CoverageInvariantHolds, PTL

\* Every recorded module's faults are asked for before the scan completes,
\* except one for each two interruptions.
THEOREM FaultsAreCovered == Spec => []FaultCoverage
<1>1. InductiveInvariant /\ CoverageInvariant => FaultCoverage
  BY CoverageFollows
<1> QED
  BY <1>1, InductiveInvariantHolds, CoverageInvariantHolds, PTL
-----------------------------------------------------------------------------
(* A scan is a survey *)

\* What is left of a sequence from position i on.
LEMMA QueueParts ==
    ASSUME NEW R, NEW s \in Seq(R), NEW i \in 1 .. Len(s)
    PROVE  /\ Head(SubSeq(s, i, Len(s))) = s[i]
           /\ Tail(SubSeq(s, i, Len(s))) = SubSeq(s, i + 1, Len(s))
           /\ SubSeq(s, i + 1, Len(s)) = <<>> <=> i = Len(s)
<1>1. i \in Int /\ Len(s) \in Nat /\ i <= Len(s)
  OBVIOUS
<1>2. CASE i = Len(s)
  <2>1. SubSeq(s, i + 1, Len(s)) = <<>>
    BY <1>1, <1>2, SubSeqEmpty
  <2> QED
    BY <1>1, <1>2, <2>1, HeadTailOfSubSeq
<1>3. CASE i < Len(s)
  <2>1. Len(SubSeq(s, i + 1, Len(s))) = Len(s) - i
    BY <1>1, <1>3, SubSeqProperties
  <2> DEFINE rest == SubSeq(s, i + 1, Len(s))
  <2>2. Len(rest) # 0
    BY <1>1, <1>3, <2>1
  <2> HIDE DEF rest
  <2>3. rest # <<>>
    BY <2>2
  <2> QED
    BY <1>1, <1>3, <2>3, HeadTailOfSubSeq DEF rest
<1> QED
  BY <1>1, <1>2, <1>3

\* Discovery, in terms of the survey.
LEMMA RoutesPhase ==
    ASSUME InductiveInvariant, stage \notin Ended, ~InFaultPass
    PROVE  /\ scope # "CACHED" /\ Candidate \in Routes
           /\ SurveyPhase = "routes" /\ SurveyMissed = MissedRoutes
           /\ S!Current = Candidate
           /\ Tail(SurveyQueue) = SubSeq(Plan[scope], target + 1, Len(Plan[scope]))
           /\ Tail(SurveyQueue) = <<>> <=> ~HasNextRoute
<1>1. scope # "CACHED" /\ TypeOK
  BY DEF InFaultPass, InductiveInvariant
<1>2. /\ Plan[scope] \in Seq(Routes) /\ target \in 1 .. Len(Plan[scope])
      /\ Candidate \in Routes
  BY <1>1, CandidateType
<1>3. SurveyQueue = SubSeq(Plan[scope], target, Len(Plan[scope]))
  BY DEF SurveyQueue
<1>4. target = Len(Plan[scope]) <=> ~HasNextRoute
  BY <1>2 DEF HasNextRoute
<1>5. SurveyPhase = "routes" /\ SurveyMissed = MissedRoutes
  BY DEF SurveyPhase, SurveyMissed, Ended
<1> QED
  BY <1>1, <1>2, <1>3, <1>4, <1>5, QueueParts DEF S!Current, Candidate

\* A fault pass that goes on has a module in hand.
LEMMA FaultPassHasModule ==
    ASSUME InductiveInvariant, stage \notin Ended, InFaultPass
    PROVE  dtcIndex \in 1 .. Len(found) /\ Module \in Found /\ Module \in Routes
<1>1. TypeOK /\ Position
  BY DEF InductiveInvariant
<1>2. dtcIndex <= Len(found)
  <2>1. CASE stage \in DtcStages
    BY <1>1, <2>1 DEF Position
  <2>2. CASE stage \in InitStages
    BY <1>1, <2>2 DEF Position, InFaultPass, AfterInit, InitStages, DtcStages,
       DtcSetupStages, DtcRequestStages
  <2>3. CASE stage \in DiscoveryStages
    BY <1>1, <2>3 DEF Position, InFaultPass, InitStages, DiscoveryStages, RouteSetupStages,
       ProbeStages, TimeoutStages, DtcStages, DtcSetupStages, DtcRequestStages, Ended
  <2> QED
    BY <1>1, <2>1, <2>2, <2>3 DEF TypeOK, Stages
<1>3. dtcIndex \in 1 .. Len(found)
  BY <1>1, <1>2, FoundType DEF TypeOK
<1> QED
  BY <1>1, <1>3, FoundType DEF TypeOK, Module, Found

\* The fault pass, in terms of the survey.
LEMMA ModulesPhase ==
    ASSUME InductiveInvariant, ProfileInvariant, stage \notin Ended, InFaultPass
    PROVE  /\ SurveyPhase = "modules" /\ SurveyMissed = MissedModules
           /\ S!Current = Module
           /\ Tail(SurveyQueue) = IF single THEN <<>>
                                  ELSE SubSeq(found, dtcIndex + 1, Len(found))
           /\ Tail(SurveyQueue) = <<>> <=> single \/ dtcIndex >= Len(found)
<1>1. found \in Seq(Routes) /\ dtcIndex \in 1 .. Len(found)
  BY FaultPassHasModule DEF InductiveInvariant, TypeOK
<1>2. SurveyPhase = "modules" /\ SurveyMissed = MissedModules
  BY DEF SurveyPhase, SurveyMissed, Ended
<1>3. CASE single
  <2>1. SurveyQueue = <<Transmission>> /\ Module = Transmission
    BY <1>3 DEF SurveyQueue, ProfileInvariant
  <2>2. Head(<<Transmission>>) = Transmission /\ Tail(<<Transmission>>) = <<>>
    OBVIOUS
  <2> QED
    BY <1>2, <1>3, <2>1, <2>2 DEF S!Current
<1>4. CASE ~single
  <2>1. SurveyQueue = SubSeq(found, dtcIndex, Len(found))
    BY <1>4 DEF SurveyQueue
  <2>2. dtcIndex = Len(found) <=> dtcIndex >= Len(found)
    BY <1>1
  <2> QED
    BY <1>1, <1>2, <1>4, <2>1, <2>2, QueueParts DEF S!Current, Module
<1> QED
  BY <1>3, <1>4

\* What a step of discovery does for the survey.
LEMMA DiscoveryServes ==
    ASSUME InductiveInvariant, DiscoveryShape, Probe \/ RestoreTimeout
    PROVE  /\ AskedRoutes' \in {AskedRoutes, AskedRoutes \cup {Candidate}}
           /\ \/ found' = found
              \/ Candidate \notin S!Recorded /\ found' = Append(found, Candidate)
           /\ ReadModules' \in {ReadModules, ReadModules \cup {Candidate}}
<1>1. TypeOK /\ scope # "CACHED" /\ Candidate \in Routes
  BY CandidateType DEF InductiveInvariant, DiscoveryShape
<1>2. asked' = asked \/ \E p \in Protocols : asked' = asked \cup {<<Candidate, p>>}
  BY DEF Probe, ExtendedSession, UdsIdentity, KwpIdentity, SparePart, Software, Hardware,
         TesterPresent, DtcFallback, VinFallback, VariantFallback, RestoreTimeout, Protocols
<1>3. AskedRoutes' \in {AskedRoutes, AskedRoutes \cup {Candidate}}
  <2>1. CASE asked' = asked
    BY <2>1 DEF AskedRoutes, Asked
  <2>2. ASSUME NEW p \in Protocols, asked' = asked \cup {<<Candidate, p>>}
        PROVE  AskedRoutes' = AskedRoutes \cup {Candidate}
    BY <1>1, <2>2 DEF AskedRoutes, Asked
  <2> QED
    BY <1>2, <2>1, <2>2
<1>4. PICK reply : TableChange(reply)
  BY DEF DiscoveryShape
<1>5. /\ \A r \in Routes \ {Candidate} : entry'[r] = entry[r]
      /\ entry'[Candidate] = entry[Candidate] \/ Justified(entry'[Candidate], reply)
      /\ Found \subseteq Found' /\ Found' \subseteq Found \cup {Candidate}
      /\ \/ found' = found
         \/ Candidate \notin Found /\ found' = Append(found, Candidate)
  BY <1>1, <1>4, TableChangeIsLocal
<1>6. Found \subseteq Routes
  BY <1>1, FoundType DEF TypeOK, Found
<1>7. /\ ReadModules \subseteq ReadModules'
      /\ ReadModules' \subseteq ReadModules \cup {Candidate}
  BY <1>1, <1>5, <1>6 DEF ReadModules, Justified
<1> QED
  BY <1>3, <1>5, <1>7 DEF S!Recorded, Found

LEMMA PassedAreRoutes ==
    ASSUME InductiveInvariant, scope # "CACHED", ~BehindDiscovery
    PROVE  PassedRoutes \subseteq Routes
<1> DEFINE p == Plan[scope]
<1>1. p \in Seq(Routes) /\ target \in 1 .. Len(p)
  BY CandidateType DEF InductiveInvariant
<1>2. PassedRoutes = {p[i] : i \in 1 .. target - 1}
  BY DEF PassedRoutes
<1> HIDE DEF p
<1>3. ASSUME NEW i \in 1 .. target - 1
      PROVE  p[i] \in Routes
  <2>1. i \in 1 .. Len(p)
    BY <1>1
  <2> QED
    BY <1>1, <2>1, ElementOfSeq
<1> QED
  BY <1>2, <1>3

LEMMA PassedAreFound ==
    ASSUME InductiveInvariant, stage \notin Ended, InFaultPass
    PROVE  PassedModules \subseteq Found
<1>1. /\ DOMAIN found = 1 .. Len(found) /\ Len(found) \in Nat
      /\ dtcIndex \in 1 .. Len(found)
  BY FaultPassHasModule, FoundType DEF InductiveInvariant, TypeOK
<1>2. \A i \in 1 .. dtcIndex - 1 : found[i] \in Found
  BY <1>1 DEF Found
<1> QED
  BY <1>2 DEF PassedModules

\* The survey counts as FiniteSets does.
LEMMA SurveyCounts ==
    ASSUME NEW m
    PROVE  S!Cardinality(m) = Cardinality(m)
BY DEF S!Cardinality, Cardinality, S!IsFiniteSet, IsFiniteSet

\* A count up to a natural number is one.
LEMMA CountIsNatural ==
    ASSUME NEW m \in Nat, NEW n \in 0 .. m
    PROVE  n \in Nat
OBVIOUS

\* Leaving a route is paid for.
LEMMA RouteIsLeft ==
    ASSUME InductiveInvariant, InductiveInvariant', ProfileInvariant, CoverageInvariant',
           stage \notin Ended, ~InFaultPass, stage' # "FAILED",
           scope' = scope, single' = single, asked \subseteq asked',
           \/ /\ HasNextRoute /\ target' = target + 1
              /\ stage' \notin Ended /\ ~InFaultPass'
           \/ /\ ~HasNextRoute /\ dtcIndex' = 1 /\ InFaultPass'
              /\ stage' = "COMPLETE" <=> \A r \in Found' : entry'[r].dtc # "not attempted"
    PROVE  S!Leave
<1>1. /\ scope # "CACHED" /\ Candidate \in Routes
      /\ SurveyPhase = "routes" /\ SurveyMissed = MissedRoutes
      /\ S!Current = Candidate
      /\ Tail(SurveyQueue) = SubSeq(Plan[scope], target + 1, Len(Plan[scope]))
      /\ Tail(SurveyQueue) = <<>> <=> ~HasNextRoute
  BY RoutesPhase
<1>2. TypeOK /\ ~BehindDiscovery /\ ~single /\ recoveries' \in Nat
  <2>1. TypeOK /\ TypeOK'
    BY DEF InductiveInvariant
  <2>2. recoveries' \in 0 .. MaxRecoveries /\ MaxRecoveries \in Nat
    BY <2>1, ConstantsAssumption DEF TypeOK
  <2>3. ~BehindDiscovery /\ ~single
    BY <1>1, FaultPassIsBehindDiscovery DEF ProfileInvariant
  <2>4. recoveries' \in Nat
    BY <2>2, CountIsNatural, Zenon
  <2> QED
    BY <2>1, <2>3, <2>4, Zenon
<1>3. BehindDiscovery' <=> InFaultPass'
  BY <1>1 DEF BehindDiscovery, InFaultPass, Ended
<1>4. PassedRoutes' = PassedRoutes \cup {Candidate}
  BY <1>1, <1>2, <1>3, RouteIsPassed
<1>5. S!Unserved = MissedRoutes'
  <2>1. S!Unserved = (MissedRoutes \cup {Candidate}) \ AskedRoutes'
    BY <1>1 DEF S!Unserved, S!Served
  <2>2. PassedRoutes' \subseteq Routes
    BY <1>1, <1>2, <1>4, PassedAreRoutes
  <2>3. \A r \in Routes : Asked(r) => Asked(r)'
    BY DEF Asked
  <2> QED
    BY <1>4, <2>1, <2>2, <2>3 DEF MissedRoutes, AskedRoutes
<1>6. 2 * Cardinality(S!Unserved) <= recoveries'
  <2>1. IsFiniteSet(MissedRoutes \cup {Candidate})
    BY <1>1, <1>2, MissedAreFinite, FS_AddElement
  <2>2. S!Unserved \in SUBSET (MissedRoutes \cup {Candidate})
    BY <1>1 DEF S!Unserved
  <2>3. IsFiniteSet(MissedRoutes')
    BY <1>5, <2>1, <2>2, FS_Subset
  <2>4. Paid(MissedRoutes', recovered', recoveries')
    BY <1>1, PaidForIsPaid DEF CoverageInvariant
  <2> QED
    BY <1>2, <1>5, <2>3, <2>4, PaidBounds
<1>7. CASE HasNextRoute
  <2>1. target' = target + 1 /\ stage' \notin Ended /\ ~InFaultPass'
    BY <1>7
  <2>2. SurveyQueue' = Tail(SurveyQueue)
    BY <1>1, <2>1 DEF SurveyQueue
  <2>3. SurveyPhase' = SurveyPhase /\ SurveyMissed' = MissedRoutes'
    BY <1>1, <2>1 DEF SurveyPhase, SurveyMissed, Ended
  <2>4. S!LeaveForNext
    BY <1>1, <1>5, <1>7, <2>2, <2>3 DEF S!LeaveForNext
  <2> QED
    BY <1>6, <2>4, SurveyCounts DEF S!Leave
<1>8. CASE ~HasNextRoute
  <2>1. /\ dtcIndex' = 1 /\ InFaultPass'
        /\ stage' = "COMPLETE" <=> \A r \in Found' : entry'[r].dtc # "not attempted"
    BY <1>8
  <2>2. SurveyMissed' = {}
    BY <1>2, <2>1, NothingIsMissed DEF SurveyMissed
  <2>3. stage' = "COMPLETE" <=> S!Recorded' \subseteq ReadModules'
    BY <2>1 DEF S!Recorded, Found, ReadModules
  <2>4. CASE stage' = "COMPLETE"
    <3>1. SurveyPhase' = "over" /\ SurveyQueue' = <<>>
      BY <2>4 DEF SurveyPhase, SurveyQueue, Ended
    <3> QED
      BY <1>1, <1>6, <1>8, <2>2, <2>3, <2>4, <3>1, SurveyCounts DEF S!Leave, S!LeaveLastRoute
  <2>5. CASE stage' # "COMPLETE"
    <3>1. SurveyPhase' = "modules"
      BY <2>1, <2>5 DEF SurveyPhase
    <3>2. found' \in Seq(Routes)
      BY DEF InductiveInvariant, TypeOK
    <3>3. SurveyQueue' = SubSeq(found', 1, Len(found'))
      BY <1>2, <2>1, <2>5 DEF SurveyQueue, Ended
    <3>4. SurveyQueue' = found'
      BY <3>2, <3>3, SubSeqFull
    <3> QED
      BY <1>1, <1>6, <1>8, <2>2, <2>3, <2>5, <3>1, <3>4, SurveyCounts DEF S!Leave, S!LeaveLastRoute
  <2> QED
    BY <2>4, <2>5
<1> QED
  BY <1>7, <1>8

\* Leaving a module is paid for.
LEMMA ModuleIsLeft ==
    ASSUME InductiveInvariant, InductiveInvariant', ProfileInvariant, CoverageInvariant',
           stage \notin Ended, InFaultPass, found' = found, single' = single,
           dtcIndex' = dtcIndex + 1, ReadModules \subseteq ReadModules',
           IF single \/ dtcIndex >= Len(found) THEN stage' = "COMPLETE"
           ELSE stage' \notin Ended /\ InFaultPass'
    PROVE  S!Leave
<1>1. /\ SurveyPhase = "modules" /\ SurveyMissed = MissedModules
      /\ S!Current = Module
      /\ Tail(SurveyQueue) = IF single THEN <<>>
                             ELSE SubSeq(found, dtcIndex + 1, Len(found))
      /\ Tail(SurveyQueue) = <<>> <=> single \/ dtcIndex >= Len(found)
  BY ModulesPhase
<1>2. /\ TypeOK /\ dtcIndex \in 1 .. Len(found) /\ Module \in Found
      /\ Found' = Found /\ recoveries' \in Nat
  <2>1. TypeOK /\ TypeOK'
    BY DEF InductiveInvariant
  <2>2. recoveries' \in 0 .. MaxRecoveries /\ MaxRecoveries \in Nat
    BY <2>1, ConstantsAssumption DEF TypeOK
  <2> QED
    BY <2>1, <2>2, FaultPassHasModule DEF Found
<1>3. PassedModules' = PassedModules \cup {Module}
  <2>1. dtcIndex <= Len(found)
    BY <1>2, FoundType DEF TypeOK
  <2>2. IF single \/ dtcIndex >= Len(found) THEN stage' = "COMPLETE"
                                            ELSE stage' # "COMPLETE"
    BY DEF Ended
  <2> QED
    BY <1>2, <2>1, <2>2, ModuleIsPassed
<1>4. PassedModules \subseteq Found
  BY PassedAreFound
<1>5. S!Unserved = MissedModules'
  <2>1. S!Unserved = (MissedModules \cup {Module}) \ ReadModules'
    BY <1>1 DEF S!Unserved, S!Served
  <2>2. \A r \in Found : /\ r \in ReadModules <=> entry[r].dtc # "not attempted"
                         /\ r \in ReadModules' <=> entry'[r].dtc # "not attempted"
    BY <1>2 DEF ReadModules
  <2> QED
    BY <1>2, <1>3, <1>4, <2>1, <2>2 DEF MissedModules
<1>6. 2 * Cardinality(S!Unserved) <= recoveries'
  <2>1. IsFiniteSet(MissedModules \cup {Module})
    BY <1>2, MissedAreFinite, FS_AddElement
  <2>2. S!Unserved \in SUBSET (MissedModules \cup {Module})
    BY <1>1 DEF S!Unserved
  <2>3. IsFiniteSet(MissedModules')
    BY <1>5, <2>1, <2>2, FS_Subset
  <2>4. stage' # "FAILED"
    BY DEF Ended
  <2>5. Paid(MissedModules', recovered', recoveries')
    BY <2>4, PaidForIsPaid DEF CoverageInvariant
  <2> QED
    BY <1>2, <1>5, <2>3, <2>5, PaidBounds
<1>7. CASE single \/ dtcIndex >= Len(found)
  <2>1. /\ SurveyPhase' = "over" /\ SurveyQueue' = <<>>
        /\ SurveyMissed' = MissedModules'
    BY <1>7 DEF SurveyPhase, SurveyQueue, SurveyMissed, Ended
  <2>2. S!LeaveLastModule
    BY <1>1, <1>5, <1>7, <2>1 DEF S!LeaveLastModule
  <2> QED
    BY <1>6, <2>2, SurveyCounts DEF S!Leave
<1>8. CASE ~(single \/ dtcIndex >= Len(found))
  <2>1. SurveyPhase' = SurveyPhase /\ SurveyMissed' = MissedModules'
    BY <1>1, <1>8 DEF SurveyPhase, SurveyMissed, Ended
  <2>2. SurveyQueue' = Tail(SurveyQueue)
    BY <1>1, <1>8 DEF SurveyQueue
  <2>3. S!LeaveForNext
    BY <1>1, <1>5, <1>8, <2>1, <2>2 DEF S!LeaveForNext
  <2> QED
    BY <1>6, <2>3, SurveyCounts DEF S!Leave
<1> QED
  BY <1>7, <1>8

LEMMA ConfigurationIsNoStep ==
    ASSUME ConfigurationShape
    PROVE  UNCHANGED S!survey
<1>1. /\ UNCHANGED <<scope, target, found, entry, dtcIndex, recoveries, single, asked>>
      /\ stage \notin Ended /\ stage' \notin Ended
      /\ InFaultPass' <=> InFaultPass
      /\ Found' = Found
  BY DEF ConfigurationShape, Found
<1>2. SurveyPhase' = SurveyPhase /\ SurveyQueue' = SurveyQueue
  BY <1>1 DEF SurveyPhase, SurveyQueue, Ended
<1>3. SurveyMissed' = SurveyMissed
  <2>1. ~InFaultPass => scope # "CACHED"
    BY DEF InFaultPass
  <2> QED
    BY <1>1, <2>1, ConfigurationMisses DEF SurveyMissed, Ended
<1>4. AskedRoutes' = AskedRoutes /\ ReadModules' = ReadModules
  BY <1>1 DEF AskedRoutes, Asked, ReadModules
<1> QED
  BY <1>1, <1>2, <1>3, <1>4 DEF S!survey

LEMMA DiscoveryAsks ==
    ASSUME InductiveInvariant, InductiveInvariant', ProfileInvariant, CoverageInvariant',
           DiscoveryShape, Probe \/ RestoreTimeout
    PROVE  S!AskRoute
<1>1. /\ scope # "CACHED" /\ scope' = scope /\ single' = single
      /\ recoveries' = recoveries /\ asked \subseteq asked'
      /\ stage \notin Ended /\ ~InFaultPass /\ ~BehindDiscovery
  BY DiscoveryIsNoFaultPass DEF DiscoveryShape, resumeVars
<1>2. /\ SurveyPhase = "routes" /\ SurveyMissed = MissedRoutes
      /\ S!Current = Candidate /\ Candidate \in Routes
  BY <1>1, RoutesPhase
<1>3. S!Stay \/ (Candidate \in AskedRoutes' /\ S!Leave)
  <2>1. CASE Stays
    <3>1. /\ target' = target /\ ~InFaultPass' /\ ~BehindDiscovery' /\ stage' \notin Ended
      BY <2>1, DiscoveryIsNoFaultPass DEF Stays, ProbeStages, TimeoutStages, Ended
    <3>2. SurveyPhase' = SurveyPhase /\ SurveyQueue' = SurveyQueue
      BY <1>1, <1>2, <3>1 DEF SurveyPhase, SurveyQueue, Ended
    <3>3. PassedRoutes' = PassedRoutes
      BY <1>1, <3>1 DEF PassedRoutes
    <3>4. SurveyMissed' = MissedRoutes'
      BY <3>1 DEF SurveyMissed, Ended
    <3>5. MissedRoutes' = MissedRoutes \ AskedRoutes'
      BY <1>1, <3>3, PassedAreRoutes DEF MissedRoutes, AskedRoutes, Asked
    <3> QED
      BY <1>2, <3>2, <3>4, <3>5 DEF S!Stay, S!Served
  <2>2. CASE Leaves \/ Finishes
    <3>1. Candidate \in AskedRoutes'
      BY <1>2, <2>2 DEF Leaves, Finishes, AskedNow, AskedRoutes, Asked
    <3>2. CASE Leaves
      <4>1. /\ HasNextRoute /\ target' = target + 1
            /\ stage' \notin Ended /\ ~InFaultPass'
        BY <3>2, DiscoveryIsNoFaultPass DEF Leaves, Ended
      <4>2. stage' # "FAILED"
        BY <4>1 DEF Ended
      <4> QED
        BY <1>1, <3>1, <4>1, <4>2, RouteIsLeft
    <3>3. CASE Finishes
      <4>1. /\ ~HasNextRoute /\ dtcIndex' = 1 /\ InFaultPass' /\ stage' # "FAILED"
            /\ stage' = "COMPLETE" <=> \A r \in Found' : entry'[r].dtc # "not attempted"
        BY <3>3, DiscoveryIsNoFaultPass DEF Finishes, FinishDiscovery
      <4> QED
        BY <1>1, <3>1, <4>1, RouteIsLeft
    <3> QED
      BY <2>2, <3>2, <3>3
  <2> QED
    BY <2>1, <2>2 DEF DiscoveryShape
<1>4. /\ AskedRoutes' \in {AskedRoutes, AskedRoutes \cup {Candidate}}
      /\ \/ found' = found
         \/ Candidate \notin S!Recorded /\ found' = Append(found, Candidate)
      /\ ReadModules' \in {ReadModules, ReadModules \cup {Candidate}}
  BY DiscoveryServes
<1> QED
  BY <1>1, <1>2, <1>3, <1>4 DEF S!AskRoute

LEMMA ModuleRequestReads ==
    ASSUME InductiveInvariant, InductiveInvariant', ProfileInvariant, CoverageInvariant',
           ModuleRequests
    PROVE  S!ReadModule
<1>1. /\ stage \in DtcRequestStages
      /\ IF stage = "DTC_READ"
         THEN dtcIndex' = dtcIndex + 1 /\ stage' = AfterModule
         ELSE dtcIndex' = dtcIndex /\ stage' \in DtcStages
      /\ UNCHANGED <<scope, found, asked, resumeVars>>
  BY ModuleRequestShape
<1>2. \/ entry' = entry /\ stage # "DTC_READ"
      \/ \E e \in Entries : /\ entry' = [entry EXCEPT ![Module] = e]
                            /\ ModuleRequestUpdates(e)
  BY ModuleRequestShape
<1>3. /\ stage \notin Ended /\ InFaultPass /\ single' = single /\ recoveries' = recoveries
      /\ Found' = Found
  BY <1>1 DEF DtcRequestStages, DtcStages, Ended, InFaultPass, resumeVars, Found
<1>4. /\ SurveyPhase = "modules" /\ SurveyMissed = MissedModules
      /\ S!Current = Module
  BY <1>3, ModulesPhase
<1>5. /\ entry \in [Routes -> Entries] /\ Module \in Found /\ Module \in Routes
      /\ Found \subseteq Routes
  BY <1>3, FaultPassHasModule, FoundType DEF InductiveInvariant, TypeOK, Found
<1>6. /\ \A r \in Routes \ {Module} : entry'[r] = entry[r]
      /\ entry'[Module].dtc = "not attempted" =>
            entry[Module].dtc = "not attempted" /\ stage # "DTC_READ"
  BY <1>2, <1>5 DEF ModuleRequestUpdates
<1>7. /\ ReadModules' \in {ReadModules, ReadModules \cup {Module}}
      /\ ReadModules \subseteq ReadModules'
      /\ stage = "DTC_READ" => Module \in ReadModules'
  <2>1. /\ ReadModules \subseteq ReadModules'
        /\ ReadModules' \subseteq ReadModules \cup {Module}
        /\ stage = "DTC_READ" => Module \in ReadModules'
    BY <1>3, <1>5, <1>6 DEF ReadModules
  <2> QED
    BY <2>1
<1>8. AskedRoutes' = AskedRoutes
  BY <1>1 DEF AskedRoutes, Asked
<1>9. S!Stay \/ (Module \in ReadModules' /\ S!Leave)
  <2>1. CASE stage = "DTC_READ"
    <3>1. IF single \/ dtcIndex >= Len(found) THEN stage' = "COMPLETE"
          ELSE stage' \notin Ended /\ InFaultPass'
      BY <1>1, <2>1 DEF AfterModule, InFaultPass, Ended, DtcStages, DtcSetupStages
    <3>2. S!Leave
      BY <1>1, <1>3, <1>7, <2>1, <3>1, ModuleIsLeft
    <3> QED
      BY <1>7, <2>1, <3>2
  <2>2. CASE stage # "DTC_READ"
    <3>1. /\ dtcIndex' = dtcIndex /\ stage' \notin Ended /\ InFaultPass'
      BY <1>1, <2>2 DEF InFaultPass, Ended, DtcStages, DtcSetupStages, DtcRequestStages
    <3>2. SurveyPhase' = SurveyPhase /\ SurveyQueue' = SurveyQueue
      BY <1>1, <1>3, <3>1 DEF SurveyPhase, SurveyQueue, Ended
    <3>3. PassedModules' = PassedModules
      BY <1>1, <1>3, <3>1 DEF PassedModules, Ended
    <3>4. SurveyMissed' = MissedModules'
      BY <3>1 DEF SurveyMissed, Ended
    <3>5. PassedModules \subseteq Found
      BY <1>3, PassedAreFound
    <3>6. MissedModules' = MissedModules \ ReadModules'
      BY <1>3, <1>5, <1>6, <3>3, <3>5 DEF MissedModules, ReadModules
    <3> QED
      BY <1>4, <3>2, <3>4, <3>6 DEF S!Stay, S!Served
  <2> QED
    BY <2>1, <2>2
<1> QED
  BY <1>1, <1>3, <1>4, <1>7, <1>8, <1>9 DEF S!ReadModule

LEMMA InterruptionInterrupts ==
    ASSUME InductiveInvariant, InductiveInvariant', ProfileInvariant, CoverageInvariant',
           Interruption
    PROVE  S!Interrupt
<1>1. /\ stage \notin Ended /\ recoveries' = recoveries + 1
      /\ UNCHANGED <<scope, found, entry, single, asked>> /\ Found' = Found
  BY DEF Interruption, RetryRoute, SkipModule, SkipRoute, CanResume, Interrupted, moduleVars,
         Found
<1>2. AskedRoutes' = AskedRoutes /\ ReadModules' = ReadModules
  BY <1>1 DEF AskedRoutes, Asked, ReadModules
<1>3. /\ InFaultPass => SurveyPhase = "modules" /\ SurveyMissed = MissedModules
      /\ ~InFaultPass => SurveyPhase = "routes" /\ SurveyMissed = MissedRoutes
  BY <1>1, ModulesPhase, RoutesPhase
<1>4. CASE RetryRoute
  <2>1. /\ stage' = "INIT_PROTOCOL_11" /\ resumePending' = TRUE
        /\ resumeStage' = IF InFaultPass THEN "DTC_SET_PROTOCOL" ELSE RouteStart(Candidate)
        /\ UNCHANGED <<target, dtcIndex>>
    BY <1>4 DEF RetryRoute, ResumeAt
  <2>2. RouteStart(Candidate) # "DTC_SET_PROTOCOL"
    BY DEF RouteStart
  <2>3. stage' \notin Ended /\ (InFaultPass' <=> InFaultPass)
    <3>1. stage' \notin DtcStages \cup Ended
      BY <2>1 DEF DtcStages, DtcSetupStages, DtcRequestStages, Ended
    <3>2. scope = "CACHED" => InFaultPass
      BY DEF InFaultPass
    <3>3. InFaultPass' <=> scope = "CACHED" \/ resumeStage' = "DTC_SET_PROTOCOL"
      BY <1>1, <2>1, <3>1 DEF InFaultPass
    <3> QED
      BY <2>1, <2>2, <3>1, <3>2, <3>3
  <2>4. SurveyPhase' = SurveyPhase /\ SurveyQueue' = SurveyQueue
    BY <1>1, <2>1, <2>3 DEF SurveyPhase, SurveyQueue, Ended
  <2>5. SurveyMissed' = SurveyMissed
    <3>1. ~InFaultPass => scope # "CACHED"
      BY DEF InFaultPass
    <3> QED
      BY <1>1, <1>4, <2>3, <3>1, RetryMisses DEF SurveyMissed, Ended
  <2>6. SurveyMissed = SurveyMissed \ S!Served
    BY <1>2, <1>3 DEF S!Served, MissedModules, MissedRoutes, AskedRoutes, ReadModules
  <2> QED
    BY <1>1, <1>2, <1>3, <2>4, <2>5, <2>6 DEF S!Interrupt, S!Stay
<1>5. CASE SkipModule
  <2>1. InFaultPass /\ dtcIndex' = dtcIndex + 1
    BY <1>5 DEF SkipModule
  <2>2. IF single \/ dtcIndex >= Len(found) THEN stage' = "COMPLETE"
        ELSE stage' \notin Ended /\ InFaultPass'
    BY <1>5 DEF SkipModule, GiveUp, ResumeAt, InFaultPass, Ended
  <2>3. S!Leave
    BY <1>1, <1>2, <2>1, <2>2, ModuleIsLeft
  <2> QED
    BY <1>1, <1>2, <1>3, <2>1, <2>3 DEF S!Interrupt
<1>6. CASE SkipRoute
  <2>1. ~InFaultPass /\ scope # "CACHED"
    BY <1>6 DEF SkipRoute, InFaultPass
  <2>2. \/ /\ HasNextRoute /\ target' = target + 1
           /\ stage' \notin Ended /\ ~InFaultPass'
        \/ /\ ~HasNextRoute /\ dtcIndex' = 1 /\ InFaultPass'
           /\ stage' = "COMPLETE" <=> \A r \in Found' : entry'[r].dtc # "not attempted"
    <3>1. CASE HasNextRoute
      <4>1. /\ target' = target + 1 /\ stage' = "INIT_PROTOCOL_11"
            /\ resumeStage' = RouteStart(Plan[scope][target + 1])
        BY <1>6, <3>1 DEF SkipRoute, ResumeAt
      <4>2. RouteStart(Plan[scope][target + 1]) # "DTC_SET_PROTOCOL"
        BY DEF RouteStart
      <4>3. stage' \notin DtcStages \cup Ended
        BY <4>1 DEF DtcStages, DtcSetupStages, DtcRequestStages, Ended
      <4> QED
        BY <1>1, <2>1, <3>1, <4>1, <4>2, <4>3 DEF InFaultPass
    <3>2. CASE ~HasNextRoute
      BY <1>1, <1>6, <3>2 DEF SkipRoute, GiveUp, ResumeAt, InFaultPass, Ended
    <3> QED
      BY <3>1, <3>2
  <2>3. stage' # "FAILED"
    BY <1>6 DEF SkipRoute, GiveUp, ResumeAt
  <2>4. S!Leave
    BY <1>1, <2>1, <2>2, <2>3, RouteIsLeft
  <2> QED
    BY <1>1, <1>2, <1>3, <2>1, <2>4 DEF S!Interrupt
<1> QED
  BY <1>4, <1>5, <1>6 DEF Interruption

LEMMA RejectionFails ==
    ASSUME InductiveInvariant, ProfileInvariant, AdapterRejects
    PROVE  S!Fail
<1>1. /\ stage \notin Ended /\ stage' = "FAILED"
      /\ UNCHANGED <<found, entry, asked, recoveries>> /\ Found' = Found
  BY DEF AdapterRejects, AdapterStages, InitStages, RouteSetupStages, TimeoutStages,
         DtcSetupStages, Ended, moduleVars, resumeVars, Found
<1>2. SurveyPhase \in {"routes", "modules"}
  BY <1>1 DEF SurveyPhase, Ended
<1>3. SurveyPhase' = "failed" /\ SurveyQueue' = <<>> /\ SurveyMissed' = {}
  BY <1>1 DEF SurveyPhase, SurveyQueue, SurveyMissed, Ended
<1>4. AskedRoutes' = AskedRoutes /\ ReadModules' = ReadModules
  BY <1>1 DEF AskedRoutes, Asked, ReadModules
<1> QED
  BY <1>1, <1>2, <1>3, <1>4 DEF S!Fail

LEMMA LateTransmissionLooksAgain ==
    ASSUME InductiveInvariant, BeginLateTransmission
    PROVE  S!LookAgain
<1>1. /\ stage = "COMPLETE" /\ stage' = "INIT_PROTOCOL_11" /\ scope' = "CACHED" /\ single'
      /\ found' = IF Transmission \in Found THEN found ELSE Append(found, Transmission)
      /\ UNCHANGED <<asked, recoveries>>
  BY DEF BeginLateTransmission
<1>2. /\ Transmission \in Routes
      /\ Found \subseteq Found' /\ Found' \subseteq Found \cup {Transmission}
      /\ \A r \in Routes \ {Transmission} : entry'[r] = entry[r]
      /\ \/ entry'[Transmission] = entry[Transmission]
         \/ entry'[Transmission] = BlankEntry("KWP") /\ Transmission \notin Found
  BY LateTransmissionShape DEF InductiveInvariant
<1>3. Transmission \notin Found => entry'[Transmission].dtc = "not attempted"
  <2> SUFFICES ASSUME Transmission \notin Found
                PROVE  entry'[Transmission].dtc = "not attempted"
    OBVIOUS
  <2> DEFINE blank == BlankEntry("KWP")
  <2>1. blank.dtc = "not attempted"
    BY DEF BlankEntry
  <2> HIDE DEF blank
  <2>2. entry' = [entry EXCEPT ![Transmission] = blank]
    BY DEF BeginLateTransmission, blank
  <2>3. entry \in [Routes -> Entries]
    BY DEF InductiveInvariant, TypeOK
  <2>4. entry'[Transmission] = blank
    BY <1>2, <2>2, <2>3
  <2> QED
    BY <2>1, <2>4
<1>4. Found \subseteq Routes
  BY FoundType DEF InductiveInvariant, TypeOK, Found
<1>5. /\ SurveyPhase = "over" /\ SurveyMissed = MissedModules
  BY <1>1 DEF SurveyPhase, SurveyMissed
<1>6. /\ SurveyPhase' = "modules" /\ SurveyQueue' = <<Transmission>>
      /\ SurveyMissed' = MissedModules'
  BY <1>1 DEF SurveyPhase, SurveyQueue, SurveyMissed, InFaultPass, Ended
<1>7. ReadModules' = ReadModules
  BY <1>2, <1>3, <1>4 DEF ReadModules
<1>8. MissedModules' = MissedModules \ {Transmission}
  <2>1. PassedModules = Found /\ PassedModules' = Found' \ {Transmission}
    BY <1>1 DEF PassedModules
  <2> QED
    BY <1>2, <1>4, <2>1 DEF MissedModules
<1>9. AskedRoutes' = AskedRoutes
  BY <1>1 DEF AskedRoutes, Asked
<1> QED
  BY <1>1, <1>5, <1>6, <1>7, <1>8, <1>9 DEF S!LookAgain, S!Recorded, Found

LEMMA InitIsSurveyInit ==
    ASSUME Init
    PROVE  S!Init
<1>1. /\ stage = "INIT_PROTOCOL_11" /\ target = 1 /\ dtcIndex = 1 /\ single = FALSE
      /\ resumePending = FALSE /\ recoveries = 0 /\ asked = {}
  BY DEF Init
<1>2. AskedRoutes = {}
  BY <1>1 DEF AskedRoutes, Asked
<1>3. stage \notin DtcStages \cup Ended
  BY <1>1 DEF DtcStages, DtcSetupStages, DtcRequestStages, Ended
<1>4. InFaultPass <=> scope = "CACHED"
  BY <1>1, <1>3 DEF InFaultPass
<1>5. MissedRoutes = {} /\ MissedModules = {}
  <2>1. 1 .. target - 1 = {} /\ 1 .. dtcIndex - 1 = {}
    BY <1>1, NothingBeforeOne, Zenon
  <2>2. ~BehindDiscovery
    BY <1>1 DEF BehindDiscovery, DtcStages, DtcSetupStages, DtcRequestStages
  <2>3. PassedRoutes = {} /\ PassedModules = {}
    BY <1>1, <2>1, <2>2 DEF PassedRoutes, PassedModules
  <2> QED
    BY <2>3 DEF MissedRoutes, MissedModules
<1>6. SurveyMissed = {}
  BY <1>1, <1>5 DEF SurveyMissed
<1>7. \A r \in Routes : entry[r].dtc = "not attempted"
  <2>1. CASE BeginDiscovery
    BY <2>1, BlankIsUnidentified DEF BeginDiscovery
  <2>2. CASE BeginCached
    <3>1. PICK protocol, identified, resolved : entry = SavedEntry(protocol, identified, resolved)
      BY <2>2 DEF BeginCached
    <3>2. \A r \in Routes : SavedEntry(protocol, identified, resolved)[r].dtc = "not attempted"
      BY DEF SavedEntry, BlankEntry
    <3> QED
      BY <3>1, <3>2
  <2> QED
    BY <2>1, <2>2 DEF Init
<1>8. CASE BeginDiscovery
  <2>1. found = <<>> /\ scope \in AllScopes \ {"CACHED"}
    BY <1>8, ConstantsAssumption DEF BeginDiscovery
  <2>2. Plan[scope] \in Seq(Routes) \ {<<>>}
    BY <2>1, ConstantsAssumption
  <2>3. SurveyPhase = "routes" /\ SurveyQueue = SubSeq(Plan[scope], 1, Len(Plan[scope]))
    BY <1>1, <1>3, <1>4, <2>1 DEF SurveyPhase, SurveyQueue, Ended
  <2>4. SurveyQueue = Plan[scope]
    BY <2>2, <2>3, SubSeqFull
  <2>5. ReadModules = {}
    BY <2>1 DEF ReadModules, Found
  <2> QED
    BY <1>1, <1>2, <1>6, <2>1, <2>2, <2>3, <2>4, <2>5 DEF S!Init
<1>9. CASE BeginCached
  <2>1. found = Saved /\ scope = "CACHED" /\ Saved \in Seq(Routes) \ {<<>>}
    BY <1>9, ConstantsAssumption DEF BeginCached
  <2>2. SurveyPhase = "modules" /\ SurveyQueue = SubSeq(found, 1, Len(found))
    BY <1>1, <1>3, <1>4, <2>1 DEF SurveyPhase, SurveyQueue, Ended
  <2>3. SurveyQueue = found
    BY <2>1, <2>2, SubSeqFull
  <2>4. Found \subseteq Routes
    BY <2>1 DEF Found
  <2>5. ReadModules = {}
    BY <1>7, <2>4 DEF ReadModules
  <2> QED
    BY <1>1, <1>2, <1>6, <2>1, <2>2, <2>3, <2>5 DEF S!Init
<1> QED
  BY <1>8, <1>9 DEF Init

LEMMA StepIsSurveyStep ==
    ASSUME InductiveInvariant, InductiveInvariant', EvidenceInvariant, ProfileInvariant,
           CoverageInvariant', [Next]_vars
    PROVE  [S!Next]_(S!survey)
<1>1. CASE Configuration
  BY <1>1, ConfigurationIsShaped, ConfigurationIsNoStep
<1>2. CASE Probe \/ RestoreTimeout
  BY <1>2, DiscoveryIsShaped, DiscoveryAsks DEF S!Next
<1>3. CASE ModuleRequests
  BY <1>3, ModuleRequestReads DEF S!Next
<1>4. CASE AdapterRejects
  BY <1>4, RejectionFails DEF S!Next
<1>5. CASE Interruption
  BY <1>5, InterruptionInterrupts DEF S!Next
<1>6. CASE BeginLateTransmission
  BY <1>6, LateTransmissionLooksAgain DEF S!Next
<1>7. CASE Rest \/ UNCHANGED vars
  <2>1. UNCHANGED <<stage, scope, target, found, entry, dtcIndex, asked, resumePending,
                    resumeStage, recoveries, single>>
    BY <1>7 DEF Rest, vars, routeVars, moduleVars, resumeVars
  <2>2. /\ Found' = Found /\ PlannedRoutes' = PlannedRoutes
        /\ (BehindDiscovery' <=> BehindDiscovery) /\ (InFaultPass' <=> InFaultPass)
    BY <2>1 DEF Found, PlannedRoutes, BehindDiscovery, InFaultPass
  <2>3. PassedRoutes' = PassedRoutes /\ PassedModules' = PassedModules
    BY <2>1, <2>2 DEF PassedRoutes, PassedModules
  <2>4. MissedRoutes' = MissedRoutes /\ MissedModules' = MissedModules
    BY <2>1, <2>3 DEF MissedRoutes, MissedModules, Asked
  <2>5. SurveyPhase' = SurveyPhase /\ SurveyQueue' = SurveyQueue /\ SurveyMissed' = SurveyMissed
    BY <2>1, <2>2, <2>4 DEF SurveyPhase, SurveyQueue, SurveyMissed
  <2>6. AskedRoutes' = AskedRoutes /\ ReadModules' = ReadModules
    BY <2>1, <2>2 DEF AskedRoutes, Asked, ReadModules
  <2> QED
    BY <2>1, <2>5, <2>6 DEF S!survey
<1> QED
  BY <1>1, <1>2, <1>3, <1>4, <1>5, <1>6, <1>7, KindsOfStep

\* Under all its stages, resumes and skips a module scan carries out the
\* survey it promises.
THEOREM ScanIsSurvey == Spec => SurveyKept
<1>1. Init => S!Init
  BY InitIsSurveyInit
<1>2. /\ InductiveInvariant /\ InductiveInvariant' /\ EvidenceInvariant /\ ProfileInvariant
      /\ CoverageInvariant' /\ [Next]_vars
      => [S!Next]_(S!survey)
  BY StepIsSurveyStep
<1> QED
  BY <1>1, <1>2, InductiveInvariantHolds, EvidenceInvariantHolds, ProfileInvariantHolds,
     CoverageInvariantHolds, PTL DEF Spec, SurveyKept, S!Spec

-----------------------------------------------------------------------------
(* Progress: no step takes a scan round in a circle *)

\* The rank falls at one place and keeps what comes before it.
RouteRankFalls ==
    \/ UnrecordedLeft' < UnrecordedLeft
    \/ /\ UnrecordedLeft' = UnrecordedLeft
       /\ \/ ProtocolsLeft' < ProtocolsLeft
          \/ /\ ProtocolsLeft' = ProtocolsLeft
             /\ \/ StagesLeft(stage') < StagesLeft(stage)
                \/ stage' = stage /\ RepeatsLeft' < RepeatsLeft

RankFallsSomewhere ==
    \/ LateProbesLeft' < LateProbesLeft
    \/ /\ LateProbesLeft' = LateProbesLeft
       /\ \/ ResumesLeft' < ResumesLeft
          \/ /\ ResumesLeft' = ResumesLeft
             /\ \/ PhasesLeft' < PhasesLeft
                \/ /\ PhasesLeft' = PhasesLeft
                   /\ \/ WorkLeft' < WorkLeft
                      \/ WorkLeft' = WorkLeft /\ RouteRankFalls

LEMMA RankFalls ==
    ASSUME RankFallsSomewhere
    PROVE  Below(Rank', Rank)
<1>1. /\ Rank[1] = LateProbesLeft /\ Rank[2] = ResumesLeft /\ Rank[3] = PhasesLeft
      /\ Rank[4] = WorkLeft /\ Rank[5] = UnrecordedLeft /\ Rank[6] = ProtocolsLeft
      /\ Rank[7] = StagesLeft(stage) /\ Rank[8] = RepeatsLeft
  BY DEF Rank
<1>2. /\ Rank'[1] = LateProbesLeft' /\ Rank'[2] = ResumesLeft' /\ Rank'[3] = PhasesLeft'
      /\ Rank'[4] = WorkLeft' /\ Rank'[5] = UnrecordedLeft' /\ Rank'[6] = ProtocolsLeft'
      /\ Rank'[7] = StagesLeft(stage') /\ Rank'[8] = RepeatsLeft'
      /\ DOMAIN Rank' = 1 .. 8
  BY DEF Rank
<1>3. \E i \in 1 .. 8 : Rank'[i] < Rank[i] /\ \A j \in 1 .. i - 1 : Rank'[j] = Rank[j]
  BY <1>1, <1>2 DEF RankFallsSomewhere, RouteRankFalls
<1> QED
  BY <1>2, <1>3 DEF Below

\* A recorded candidate is in the table if the table has room for it.
LEMMA RecordAdds ==
    ASSUME TypeOK, scope # "CACHED", HasRoom, NEW e, Record(e)
    PROVE  CandidateFound \/ Candidate \notin Routes
<1>1. found \in Seq(Routes)
  BY DEF TypeOK
<1>2. CASE Candidate \in Found
  BY <1>2 DEF Record, CandidateFound, Found
<1>3. CASE Candidate \notin Found
  <2>1. Candidate \in Routes
    BY CandidateType
  <2>2. found' = Append(found, Candidate)
    BY <1>3 DEF Record
  <2>3. Len(found) + 1 \in DOMAIN found' /\ found'[Len(found) + 1] = Candidate
    BY <1>1, <2>1, <2>2
  <2> QED
    BY <2>3 DEF CandidateFound, Found
<1> QED
  BY <1>2, <1>3

LEMMA RecordIfAdds ==
    ASSUME TypeOK, scope # "CACHED", HasRoom, NEW tester, RecordIf(TRUE, tester)
    PROVE  CandidateFound
BY RecordAdds, CandidateType DEF RecordIf

\* What an answer on a route that is not left costs.
Closer ==
    \/ Candidate \notin Found /\ CandidateFound
    \/ \E p \in Protocols \ cand.attempted : cand'.attempted = cand.attempted \cup {p}
    \/ /\ cand'.attempted = cand.attempted
       /\ \/ StagesLeft(stage') < StagesLeft(stage)
          \/ stage' = stage /\ RepeatsLeft' < RepeatsLeft

LEMMA AdvanceIsCloser ==
    ASSUME AdvanceCandidate, Stays, StagesLeft(stage) \in Nat \ {0}
    PROVE  Closer
<1>1. longTimeout
  BY NextRouteLeads DEF AdvanceCandidate, Stays, ProbeStages, TimeoutStages
<1>2. stage' = "DISCOVERY_RESTORE_TIMEOUT" /\ cand' = cand
  BY <1>1 DEF AdvanceCandidate
<1>3. StagesLeft(stage') = 0
  BY <1>2 DEF StagesLeft
<1> QED
  BY <1>2, <1>3 DEF Closer

LEMMA VinFallbackIsCloser ==
    ASSUME TypeOK, EnterVinFallback, stage = "DISCOVERY_DTC_FALLBACK"
    PROVE  Closer
<1>1. /\ stage' \in {"DISCOVERY_VIN_SET_TIMEOUT", "DISCOVERY_VIN_FALLBACK"}
      /\ cand' = [cand EXCEPT !.probe = 0]
  BY DEF EnterVinFallback, Goto
<1>2. cand'.attempted = cand.attempted
  BY <1>1 DEF TypeOK, Candidates
<1>3. StagesLeft(stage') < StagesLeft(stage)
  BY <1>1 DEF StagesLeft
<1> QED
  BY <1>2, <1>3 DEF Closer

LEMMA AlternateIsCloser ==
    ASSUME TypeOK, scope # "CACHED", TryAlternateProtocol, UntriedProtocols # {}
    PROVE  Closer
<1>1. RouteProtocols(Candidate) \subseteq Protocols
  BY RouteType, CandidateType DEF RouteProtocols, Hint, Protocols
<1>2. PICK p \in UntriedProtocols :
        cand' = [cand EXCEPT !.protocol = p, !.attempted = @ \cup {p},
                             !.session = "none", !.probe = 0,
                             !.fallback = FALSE, !.index = 0]
  BY <1>1 DEF TryAlternateProtocol, UntriedProtocols, Goto, Protocols
<1>3. p \in Protocols \ cand.attempted
  BY <1>1 DEF UntriedProtocols
<1>4. cand \in Candidates
  BY DEF TypeOK
<1>5. cand'.attempted = cand.attempted \cup {p}
  BY <1>2, <1>4 DEF Candidates
<1> QED
  BY <1>3, <1>5 DEF Closer

LEMMA ExtendedSessionIsCloser ==
    ASSUME TypeOK, ExtendedSession
    PROVE  Closer
<1>1. PICK session :
        /\ stage = "DISCOVERY_EXTENDED_SESSION" /\ stage' = "DISCOVERY_IDENTITY"
        /\ cand' = [cand EXCEPT !.session = session, !.probe = 0]
  BY DEF ExtendedSession, Goto
<1>2. cand'.attempted = cand.attempted
  BY <1>1 DEF TypeOK, Candidates
<1>3. StagesLeft(stage') < StagesLeft(stage)
  BY <1>1 DEF StagesLeft
<1> QED
  BY <1>2, <1>3 DEF Closer

LEMMA UdsIdentityIsCloser ==
    ASSUME TypeOK, UdsIdentity, Stays
    PROVE  Closer
<1>1. /\ stage = "DISCOVERY_IDENTITY" /\ ~KwpIdentityMode
      /\ \/ AdvanceCandidate
         \/ Goto("DISCOVERY_SPARE_PART", cand)
         \/ Goto("DISCOVERY_TESTER_PRESENT", cand)
         \/ Goto("DISCOVERY_IDENTITY", [cand EXCEPT !.fallback = TRUE, !.index = 0])
  BY DEF UdsIdentity
<1>2. StagesLeft(stage) \in Nat \ {0}
  BY <1>1 DEF StagesLeft
<1>3. CASE Goto("DISCOVERY_SPARE_PART", cand) \/ Goto("DISCOVERY_TESTER_PRESENT", cand)
  BY <1>1, <1>3 DEF Goto, StagesLeft, Closer
<1>4. CASE Goto("DISCOVERY_IDENTITY", [cand EXCEPT !.fallback = TRUE, !.index = 0])
  <2>1. stage' = stage /\ cand' = [cand EXCEPT !.fallback = TRUE, !.index = 0]
    BY <1>1, <1>4 DEF Goto
  <2>2. cand'.attempted = cand.attempted /\ cand'.fallback = TRUE /\ cand'.index = 0
    BY <2>1 DEF TypeOK, Candidates
  <2>3. RepeatsLeft = 4 /\ RepeatsLeft' = 3
    BY <1>1, <2>1, <2>2 DEF RepeatsLeft, KwpIdentityMode
  <2> QED
    BY <2>1, <2>2, <2>3 DEF Closer
<1> QED
  BY <1>1, <1>2, <1>3, <1>4, AdvanceIsCloser

LEMMA KwpIdentityIsCloser ==
    ASSUME TypeOK, KwpIdentity, Stays
    PROVE  Closer
<1>1. /\ stage = "DISCOVERY_IDENTITY" /\ KwpIdentityMode
      /\ \/ AdvanceCandidate
         \/ NextKwpOption
         \/ Goto("DISCOVERY_TESTER_PRESENT",
                 [cand EXCEPT !.fallback = FALSE, !.index = 0])
  BY DEF KwpIdentity
<1>2. StagesLeft(stage) \in Nat \ {0}
  BY <1>1 DEF StagesLeft
<1>3. CASE NextKwpOption
  <2>1. stage' = stage /\ cand' = [cand EXCEPT !.index = @ + 1]
    BY <1>1, <1>3 DEF NextKwpOption, Goto
  <2>2. /\ cand'.attempted = cand.attempted /\ cand'.fallback = cand.fallback
        /\ cand'.protocol = cand.protocol /\ cand'.index = cand.index + 1
        /\ cand.index \in 0 .. 3
    BY <2>1 DEF TypeOK, Candidates
  <2>3. RepeatsLeft = 3 - cand.index /\ RepeatsLeft' = 3 - cand'.index
    BY <1>1, <2>1, <2>2 DEF RepeatsLeft, KwpIdentityMode
  <2> QED
    BY <2>1, <2>2, <2>3 DEF Closer
<1>4. CASE Goto("DISCOVERY_TESTER_PRESENT",
                [cand EXCEPT !.fallback = FALSE, !.index = 0])
  <2>1. /\ stage' = "DISCOVERY_TESTER_PRESENT"
        /\ cand' = [cand EXCEPT !.fallback = FALSE, !.index = 0]
    BY <1>4 DEF Goto
  <2>2. cand'.attempted = cand.attempted
    BY <2>1 DEF TypeOK, Candidates
  <2>3. StagesLeft(stage') < StagesLeft(stage)
    BY <1>1, <2>1 DEF StagesLeft
  <2> QED
    BY <2>2, <2>3 DEF Closer
<1> QED
  BY <1>1, <1>2, <1>3, <1>4, AdvanceIsCloser

LEMMA MetadataIsCloser ==
    ASSUME SparePart \/ Software \/ Hardware \/ TesterPresent, Stays
    PROVE  Closer
<1>1. CASE AdvanceCandidate
  <2>1. stage \in {"DISCOVERY_SPARE_PART", "DISCOVERY_SOFTWARE", "DISCOVERY_HARDWARE",
                  "DISCOVERY_TESTER_PRESENT"}
    BY DEF SparePart, Software, Hardware, TesterPresent
  <2>2. StagesLeft(stage) \in Nat \ {0}
    BY <2>1 DEF StagesLeft
  <2> QED
    BY <1>1, <2>2, AdvanceIsCloser
<1>2. CASE ~AdvanceCandidate
  <2>1. /\ cand' = cand
        /\ \/ stage = "DISCOVERY_SPARE_PART" /\ stage' = "DISCOVERY_SOFTWARE"
           \/ stage = "DISCOVERY_SOFTWARE" /\ stage' = "DISCOVERY_HARDWARE"
           \/ stage = "DISCOVERY_TESTER_PRESENT" /\ stage' = "DISCOVERY_DTC_FALLBACK"
    BY <1>2 DEF SparePart, Software, Hardware, TesterPresent, Goto
  <2> QED
    BY <2>1 DEF StagesLeft, Closer
<1> QED
  BY <1>1, <1>2

LEMMA DtcFallbackIsCloser ==
    ASSUME TypeOK, scope # "CACHED", ProgressInvariant, DtcFallback, Stays
    PROVE  Closer
<1>1. /\ stage = "DISCOVERY_DTC_FALLBACK"
      /\ \/ EnterVinFallback
         \/ AdvanceCandidate
         \/ CandidateFound
         \/ UntriedProtocols # {} /\ TryAlternateProtocol
  BY DEF DtcFallback
<1>2. StagesLeft(stage) \in Nat \ {0}
  BY <1>1 DEF StagesLeft
<1>3. CASE CandidateFound
  BY <1>1, <1>3 DEF ProgressInvariant, Closer
<1> QED
  BY <1>1, <1>2, <1>3, VinFallbackIsCloser, AdvanceIsCloser, AlternateIsCloser

LEMMA VinFallbackAnswerIsCloser ==
    ASSUME TypeOK, scope # "CACHED", ProgressInvariant, HasRoom, VinFallback, Stays
    PROVE  Closer
<1>1. /\ stage = "DISCOVERY_VIN_FALLBACK"
      /\ \/ AdvanceCandidate
         \/ RecordIf(TRUE, FALSE)
         \/ Goto("DISCOVERY_VIN_FALLBACK", [cand EXCEPT !.probe = @ + 1])
         \/ Goto("DISCOVERY_VARIANT_FALLBACK", cand)
  BY DEF VinFallback
<1>2. StagesLeft(stage) \in Nat \ {0}
  BY <1>1 DEF StagesLeft
<1>3. CASE RecordIf(TRUE, FALSE)
  BY <1>1, <1>3, RecordIfAdds DEF ProgressInvariant, Closer
<1>4. CASE Goto("DISCOVERY_VIN_FALLBACK", [cand EXCEPT !.probe = @ + 1])
  <2>1. /\ stage' = stage /\ cand' = [cand EXCEPT !.probe = @ + 1]
        /\ target' = target /\ scope' = scope
    BY <1>1, <1>4 DEF Goto, VinFallback, UnchangedByProbe
  <2>2. /\ cand'.attempted = cand.attempted /\ cand'.probe = cand.probe + 1
        /\ cand.probe \in Nat
    BY <2>1 DEF TypeOK, Candidates
  <2>3. Candidate \in Routes /\ Route[Candidate].probes \in Nat
    BY CandidateType, RouteType
  <2>4. Candidate' = Candidate
    BY <2>1 DEF Candidate
  <2>5. /\ RepeatsLeft = Route[Candidate].probes - cand.probe
        /\ RepeatsLeft' = Route[Candidate].probes - cand'.probe
    BY <1>1, <2>1, <2>4 DEF RepeatsLeft
  <2> QED
    BY <2>1, <2>2, <2>3, <2>5 DEF Closer
<1>5. CASE Goto("DISCOVERY_VARIANT_FALLBACK", cand)
  BY <1>1, <1>5 DEF Goto, StagesLeft, Closer
<1> QED
  BY <1>1, <1>2, <1>3, <1>4, <1>5, AdvanceIsCloser

LEMMA VariantFallbackIsCloser ==
    ASSUME TypeOK, scope # "CACHED", ProgressInvariant, HasRoom, VariantFallback, Stays
    PROVE  Closer
<1>1. /\ stage = "DISCOVERY_VARIANT_FALLBACK"
      /\ AdvanceCandidate \/ RecordIf(TRUE, FALSE)
  BY DEF VariantFallback
<1>2. StagesLeft(stage) \in Nat \ {0}
  BY <1>1 DEF StagesLeft
<1>3. CASE RecordIf(TRUE, FALSE)
  BY <1>1, <1>3, RecordIfAdds DEF ProgressInvariant, Closer
<1> QED
  BY <1>1, <1>2, <1>3, AdvanceIsCloser

LEMMA ProbeIsCloser ==
    ASSUME TypeOK, scope # "CACHED", ProgressInvariant, HasRoom, Probe, Stays
    PROVE  Closer
BY ExtendedSessionIsCloser, UdsIdentityIsCloser, KwpIdentityIsCloser, MetadataIsCloser,
   DtcFallbackIsCloser, VinFallbackAnswerIsCloser, VariantFallbackIsCloser DEF Probe

LEMMA ProtocolsAreFinite == IsFiniteSet(Protocols)
<1>1. Protocols = ({} \cup {"UDS"}) \cup {"KWP"}
  BY DEF Protocols
<1> QED
  BY <1>1, FS_EmptySet, FS_AddElement

LEMMA UntriedAreFewer ==
    ASSUME NEW s, NEW p \in Protocols \ s
    PROVE  /\ Cardinality((Protocols \ s) \ {p}) < Cardinality(Protocols \ s)
           /\ Cardinality(Protocols \ s) \in Nat
<1>1. IsFiniteSet(Protocols \ s)
  BY ProtocolsAreFinite, FS_Subset
<1>2. /\ Cardinality((Protocols \ s) \ {p}) = Cardinality(Protocols \ s) - 1
      /\ Cardinality(Protocols \ s) \in Nat
  BY <1>1, FS_RemoveElement, FS_CardinalityType
<1> QED
  BY <1>2

\* What an answer in discovery does to the rank.
LEMMA DiscoveryDescends ==
    ASSUME InductiveInvariant, EvidenceInvariant, ProgressInvariant,
           Probe \/ RestoreTimeout, stage \in ProbeStages => HasRoom
    PROVE  Below(Rank', Rank)
<1>1. TypeOK /\ DiscoveryShape
  BY DiscoveryIsShaped DEF InductiveInvariant
<1>2. /\ scope # "CACHED" /\ scope' = scope /\ single' = single
      /\ recoveries' = recoveries /\ ~InFaultPass /\ stage \notin Ended
  BY <1>1, DiscoveryIsNoFaultPass DEF DiscoveryShape, resumeVars
<1>3. LateProbesLeft' = LateProbesLeft /\ ResumesLeft' = ResumesLeft
  BY <1>2 DEF LateProbesLeft, ResumesLeft
<1>4. PhasesLeft = 2 /\ WorkLeft = Len(Plan[scope]) + 1 - target
  BY <1>2 DEF PhasesLeft, WorkLeft
<1>5. target \in Nat /\ Len(Plan[scope]) \in Nat
  BY <1>1, <1>2, PlanType DEF TypeOK
<1>6. CASE Finishes
  <2>1. InFaultPass'
    BY <1>1, <1>6, DiscoveryIsNoFaultPass
  <2>2. PhasesLeft' < PhasesLeft
    BY <1>4, <2>1 DEF PhasesLeft
  <2> QED
    BY <1>2, <2>2, <1>3, RankFalls DEF RankFallsSomewhere, RouteRankFalls
<1>7. CASE Leaves
  <2>1. ~InFaultPass' /\ stage' \notin Ended /\ target' = target + 1
    BY <1>1, <1>7, DiscoveryIsNoFaultPass DEF Leaves, Ended
  <2>2. PhasesLeft' = 2 /\ WorkLeft' = Len(Plan[scope]) + 1 - (target + 1)
    BY <1>2, <2>1 DEF PhasesLeft, WorkLeft
  <2>3. WorkLeft' < WorkLeft
    <3> DEFINE length == Len(Plan[scope])
    <3>1. /\ WorkLeft = length + 1 - target /\ WorkLeft' = length + 1 - (target + 1)
          /\ length \in Nat /\ target \in Nat
      BY <1>4, <1>5, <2>2
    <3> HIDE DEF length
    <3> QED
      BY <3>1
  <2> QED
    BY <1>2, <1>4, <2>2, <2>3, <1>3, RankFalls DEF RankFallsSomewhere, RouteRankFalls
<1>8. CASE Stays
  <2>1. /\ ~InFaultPass' /\ stage' \notin Ended /\ target' = target
        /\ stage' \in ProbeStages \cup TimeoutStages
    BY <1>1, <1>8, DiscoveryIsNoFaultPass DEF Stays, ProbeStages, TimeoutStages, Ended
  <2>2. PhasesLeft' = PhasesLeft /\ WorkLeft' = WorkLeft
    BY <1>2, <1>4, <2>1 DEF PhasesLeft, WorkLeft
  <2>3. Candidate' = Candidate /\ Found \subseteq Found'
    <3>1. PICK reply \in Answers : TableChange(reply)
      BY <1>1 DEF DiscoveryShape
    <3> QED
      BY <1>1, <1>2, <2>1, <3>1, CandidateType, TableChangeIsLocal DEF Candidate
  <2>4. Closer
    <3>1. Probe
      BY <1>8, NextRouteLeads DEF RestoreTimeout, Stays, ProbeStages, TimeoutStages
    <3>2. HasRoom
      BY <3>1 DEF Probe, ExtendedSession, UdsIdentity, KwpIdentity, SparePart, Software,
         Hardware, TesterPresent, DtcFallback, VinFallback, VariantFallback, ProbeStages
    <3> QED
      BY <1>1, <1>2, <1>8, <3>1, <3>2, ProbeIsCloser
  <2>5. CASE UnrecordedLeft' # UnrecordedLeft
    <3>1. UnrecordedLeft' < UnrecordedLeft
      BY <1>2, <2>1, <2>3, <2>5 DEF UnrecordedLeft
    <3> QED
      BY <1>2, <2>2, <3>1, <1>3, RankFalls DEF RankFallsSomewhere, RouteRankFalls
  <2>6. CASE UnrecordedLeft' = UnrecordedLeft
    <3>1. ~(Candidate \notin Found /\ CandidateFound)
      BY <1>2, <2>1, <2>3, <2>6 DEF UnrecordedLeft, CandidateFound
    <3>2. CASE \E p \in Protocols \ cand.attempted :
                  cand'.attempted = cand.attempted \cup {p}
      <4>1. PICK p \in Protocols \ cand.attempted :
                  cand'.attempted = cand.attempted \cup {p}
        BY <3>2
      <4>2. Protocols \ cand'.attempted = (Protocols \ cand.attempted) \ {p}
        BY <4>1
      <4>3. ProtocolsLeft' < ProtocolsLeft
        BY <4>1, <4>2, UntriedAreFewer DEF ProtocolsLeft
      <4> QED
        BY <1>2, <2>2, <2>6, <4>3, <1>3, RankFalls DEF RankFallsSomewhere, RouteRankFalls
    <3>3. CASE /\ cand'.attempted = cand.attempted
               /\ \/ StagesLeft(stage') < StagesLeft(stage)
                  \/ stage' = stage /\ RepeatsLeft' < RepeatsLeft
      <4>1. ProtocolsLeft' = ProtocolsLeft
        BY <3>3 DEF ProtocolsLeft
      <4> QED
        BY <1>2, <2>2, <2>6, <3>3, <4>1, <1>3, RankFalls DEF RankFallsSomewhere, RouteRankFalls
    <3> QED
      BY <2>4, <3>1, <3>2, <3>3 DEF Closer
  <2> QED
    BY <2>5, <2>6
<1> QED
  BY <1>1, <1>6, <1>7, <1>8 DEF DiscoveryShape

\* What setting the adapter up does to the rank: a stage is over.
LEMMA ConfigurationDescends ==
    ASSUME InductiveInvariant, Configuration
    PROVE  Below(Rank', Rank)
<1>1. TypeOK /\ Position /\ ConfigurationShape
  BY ConfigurationIsShaped DEF InductiveInvariant
<1>2. /\ LateProbesLeft' = LateProbesLeft /\ ResumesLeft' = ResumesLeft
      /\ PhasesLeft' = PhasesLeft /\ WorkLeft' = WorkLeft
      /\ UnrecordedLeft' = UnrecordedLeft
  BY <1>1 DEF ConfigurationShape, LateProbesLeft, ResumesLeft, PhasesLeft, WorkLeft,
     UnrecordedLeft, Candidate, Found
<1>3. cand'.attempted = cand.attempted
  <2>1. \/ cand' = cand
        \/ cand' = [cand EXCEPT !.probe = 0]
        \/ cand' = [cand EXCEPT !.index = 0, !.fallback = FALSE]
    BY DEF Configuration, InitProtocol11, InitHeaders, InitAutoFormat, InitFlowControl,
       InitTimeout, SwitchProtocol29, SwitchHeadersOff29, SetHeader, ResetReceive,
       SetFilter, SetMask, SetReceive, SetReceiveForSession, VinSetTimeout,
       DtcSetProtocol, DtcSetHeader, DtcSetReceive, DtcSetReceiveForIdentity,
       CachedIdentitySetTimeout, CachedIdentityRestoreTimeout, Setup, StartIdentity,
       routeVars
  <2> QED
    BY <1>1, <2>1 DEF TypeOK, Candidates
<1>4. StagesLeft(stage') < StagesLeft(stage)
  <2>1. CASE \/ InitProtocol11 \/ InitHeaders \/ InitAutoFormat \/ InitFlowControl
             \/ SwitchProtocol29 \/ SwitchHeadersOff29 \/ SetHeader
    BY <2>1 DEF InitProtocol11, InitHeaders, InitAutoFormat, InitFlowControl,
       SwitchProtocol29, SwitchHeadersOff29, SetHeader, Setup, StagesLeft
  <2>2. CASE InitTimeout
    <3>1. stage = "INIT_TIMEOUT" /\ stage' = AfterInit
      BY <2>2 DEF InitTimeout
    <3>2. AfterInit \in {"DTC_SET_PROTOCOL", "SWITCH_PROTOCOL_29", "DISCOVERY_SET_HEADER"}
      BY <1>1, <3>1 DEF Position, InitStages
    <3> QED
      BY <3>1, <3>2 DEF StagesLeft
  <2>3. CASE \/ ResetReceive \/ SetFilter \/ SetMask \/ SetReceive
             \/ SetReceiveForSession \/ VinSetTimeout
    BY <2>3 DEF ResetReceive, SetFilter, SetMask, SetReceive, SetReceiveForSession,
       VinSetTimeout, Setup, StartIdentity, StagesLeft
  <2>4. CASE \/ DtcSetProtocol \/ DtcSetHeader \/ DtcSetReceive
             \/ DtcSetReceiveForIdentity
             \/ CachedIdentitySetTimeout \/ CachedIdentityRestoreTimeout
    BY <2>4 DEF DtcSetProtocol, DtcSetHeader, DtcSetReceive, DtcSetReceiveForIdentity,
       CachedIdentitySetTimeout, CachedIdentityRestoreTimeout, Setup, SessionOrValidate,
       StagesLeft
  <2> QED
    BY <2>1, <2>2, <2>3, <2>4 DEF Configuration
<1>5. ProtocolsLeft' = ProtocolsLeft
  BY <1>3 DEF ProtocolsLeft
<1> QED
  BY <1>2, <1>4, <1>5, RankFalls DEF RankFallsSomewhere, RouteRankFalls

\* What an answer in the fault pass does to the rank.
LEMMA ModuleRequestDescends ==
    ASSUME InductiveInvariant, ModuleRequests
    PROVE  Below(Rank', Rank)
<1>1. /\ stage \in DtcRequestStages /\ stage' \in DtcStages \cup {"COMPLETE"}
      /\ IF stage = "DTC_READ"
         THEN dtcIndex' = dtcIndex + 1 /\ stage' = AfterModule
         ELSE dtcIndex' = dtcIndex /\ stage' \in DtcStages
      /\ UNCHANGED <<scope, target, found, resumePending, resumeStage, recoveries, single>>
  BY ModuleRequestShape, FaultPassStays DEF resumeVars
<1>2. /\ LateProbesLeft' = LateProbesLeft /\ ResumesLeft' = ResumesLeft
      /\ InFaultPass /\ InFaultPass' /\ stage \notin Ended
      /\ UnrecordedLeft' = UnrecordedLeft
  BY <1>1 DEF LateProbesLeft, ResumesLeft, UnrecordedLeft, InFaultPass, Ended, DtcStages,
     DtcRequestStages
<1>3. CASE stage = "DTC_READ"
  <2>1. CASE single \/ dtcIndex >= Len(found)
    <3>1. PhasesLeft' < PhasesLeft
      BY <1>1, <1>2, <1>3, <2>1 DEF PhasesLeft, AfterModule, Ended
    <3> QED
      BY <1>2, <3>1, RankFalls DEF RankFallsSomewhere
  <2>2. CASE ~(single \/ dtcIndex >= Len(found))
    <3>1. stage' = "DTC_SET_PROTOCOL" /\ dtcIndex' = dtcIndex + 1
      BY <1>1, <1>3, <2>2 DEF AfterModule
    <3>2. PhasesLeft' = PhasesLeft
      BY <1>2, <3>1 DEF PhasesLeft, Ended
    <3>3. /\ WorkLeft = Len(found) + 1 - dtcIndex
          /\ WorkLeft' = Len(found) + 1 - (dtcIndex + 1)
      BY <1>1, <1>2, <2>2, <3>1 DEF WorkLeft, Ended
    <3>4. Len(found) \in Nat /\ dtcIndex \in Nat
      BY FoundType DEF InductiveInvariant, TypeOK
    <3>5. WorkLeft' < WorkLeft
      BY <3>3, <3>4
    <3> QED
      BY <1>2, <3>2, <3>5, RankFalls DEF RankFallsSomewhere
  <2> QED
    BY <2>1, <2>2
<1>4. CASE stage # "DTC_READ"
  <2>1. stage' \in DtcStages /\ stage' \notin Ended /\ dtcIndex' = dtcIndex
    BY <1>1, <1>4 DEF DtcStages, DtcSetupStages, DtcRequestStages, Ended
  <2>2. PhasesLeft' = PhasesLeft /\ WorkLeft' = WorkLeft
    BY <1>1, <1>2, <2>1 DEF PhasesLeft, WorkLeft
  <2>3. CASE CachedIdentity
    <3>1. /\ stage = "CACHED_IDENTITY" /\ cand' = [cand EXCEPT !.index = @ + 1]
          /\ stage' = IF cand.index < 2 THEN stage ELSE "CACHED_IDENTITY_RESTORE_TIMEOUT"
      BY <2>3 DEF CachedIdentity
    <3>2. /\ cand'.attempted = cand.attempted /\ cand'.index = cand.index + 1
          /\ cand.index \in 0 .. 3
      BY <3>1 DEF InductiveInvariant, TypeOK, Candidates
    <3>3. ProtocolsLeft' = ProtocolsLeft
      BY <3>2 DEF ProtocolsLeft
    <3>4. \/ StagesLeft(stage') < StagesLeft(stage)
          \/ stage' = stage /\ RepeatsLeft' < RepeatsLeft
      <4>1. CASE cand.index < 2
        BY <3>1, <3>2, <4>1 DEF RepeatsLeft
      <4>2. CASE ~(cand.index < 2)
        BY <3>1, <4>2 DEF StagesLeft
      <4> QED
        BY <4>1, <4>2
    <3> QED
      BY <1>2, <2>2, <3>3, <3>4, RankFalls DEF RankFallsSomewhere, RouteRankFalls
  <2>4. CASE DtcExtendedSession \/ DtcValidate
    <3>1. /\ cand' = cand
          /\ \/ stage = "DTC_EXTENDED_SESSION" /\ stage' = "DTC_VALIDATE"
             \/ stage = "DTC_VALIDATE" /\ stage' = "DTC_READ"
      BY <2>4 DEF DtcExtendedSession, DtcValidate, ModuleRequest
    <3>2. ProtocolsLeft' = ProtocolsLeft /\ StagesLeft(stage') < StagesLeft(stage)
      BY <3>1 DEF ProtocolsLeft, StagesLeft
    <3> QED
      BY <1>2, <2>2, <3>2, RankFalls DEF RankFallsSomewhere, RouteRankFalls
  <2> QED
    BY <1>4, <2>3, <2>4 DEF ModuleRequests, DtcRead, ModuleRequest
<1> QED
  BY <1>3, <1>4

\* An interruption costs one of the recoveries, the late probe is the only one.
LEMMA OtherStepsDescend ==
    ASSUME InductiveInvariant,
           AdapterRejects \/ Interruption \/ BeginLateTransmission
    PROVE  Below(Rank', Rank)
<1>1. CASE AdapterRejects
  <2>1. /\ stage \notin Ended /\ stage' = "FAILED"
        /\ single' = single /\ recoveries' = recoveries
    BY <1>1 DEF AdapterRejects, AdapterStages, InitStages, RouteSetupStages,
       TimeoutStages, DtcSetupStages, Ended, resumeVars
  <2>2. PhasesLeft' < PhasesLeft
    BY <2>1 DEF PhasesLeft, Ended
  <2>3. LateProbesLeft' = LateProbesLeft /\ ResumesLeft' = ResumesLeft
    BY <2>1 DEF LateProbesLeft, ResumesLeft
  <2> QED
    BY <2>2, <2>3, RankFalls DEF RankFallsSomewhere
<1>2. CASE Interruption
  <2>1. recoveries' = recoveries + 1 /\ single' = single
    BY <1>2 DEF Interruption, RetryRoute, SkipModule, SkipRoute, Interrupted
  <2>2. recoveries \in Nat /\ MaxRecoveries \in Nat
    BY ConstantsAssumption DEF InductiveInvariant, TypeOK
  <2>3. LateProbesLeft' = LateProbesLeft /\ ResumesLeft' < ResumesLeft
    BY <2>1, <2>2 DEF LateProbesLeft, ResumesLeft
  <2> QED
    BY <2>3, RankFalls DEF RankFallsSomewhere
<1>3. CASE BeginLateTransmission
  <2>1. ~single /\ single'
    BY <1>3 DEF BeginLateTransmission
  <2>2. LateProbesLeft' < LateProbesLeft
    BY <2>1 DEF LateProbesLeft
  <2> QED
    BY <2>2, RankFalls DEF RankFallsSomewhere
<1> QED
  BY <1>1, <1>2, <1>3

LEMMA StepDescends ==
    ASSUME InductiveInvariant, EvidenceInvariant, ProgressInvariant, [Next]_vars
    PROVE  [(stage \in ProbeStages => HasRoom) => Below(Rank', Rank)]_vars
<1>1. CASE Rest \/ UNCHANGED vars
  BY <1>1 DEF Rest
<1>2. CASE Next /\ ~Rest
  BY <1>2, KindsOfStep, ConfigurationDescends, DiscoveryDescends, ModuleRequestDescends,
     OtherStepsDescend
<1> QED
  BY <1>1, <1>2

PresenceStages ==
    {"DISCOVERY_DTC_FALLBACK", "DISCOVERY_VIN_SET_TIMEOUT", "DISCOVERY_VIN_FALLBACK",
     "DISCOVERY_VARIANT_FALLBACK"}

LEMMA AdvanceIsNoPresence ==
    ASSUME AdvanceCandidate \/ NextRoute
    PROVE  stage' \notin PresenceStages
BY NextRouteLeads DEF AdvanceCandidate, PresenceStages

LEMMA ElsewhereIsProgress ==
    ASSUME stage' \notin PresenceStages
    PROVE  ProgressInvariant'
BY DEF PresenceStages, ProgressInvariant

\* The stages that look for presence are entered for a candidate that is not
\* recorded.
LEMMA ProbeKeepsProgress ==
    ASSUME TypeOK, scope # "CACHED", ProgressInvariant, Probe
    PROVE  ProgressInvariant'
<1>1. cand \in Candidates /\ Candidate \in Routes /\ Route[Candidate].probes \in Nat
  BY CandidateType, RouteType DEF TypeOK
<1>2. CASE ExtendedSession \/ UdsIdentity \/ KwpIdentity \/ SparePart \/ Software \/ Hardware
  <2>1. stage' \notin PresenceStages
    BY <1>2, AdvanceIsNoPresence DEF ExtendedSession, UdsIdentity, KwpIdentity,
       NextKwpOption, SparePart, Software, Hardware, Goto, PresenceStages
  <2> QED
    BY <2>1, ElsewhereIsProgress
<1>3. CASE TesterPresent
  <2>1. \/ AdvanceCandidate
        \/ ~CandidateFound /\ Goto("DISCOVERY_DTC_FALLBACK", cand) /\ scope' = scope
    BY <1>3 DEF TesterPresent, UnchangedByProbe
  <2>2. CASE ~CandidateFound /\ Goto("DISCOVERY_DTC_FALLBACK", cand) /\ scope' = scope
    BY <2>2 DEF Goto, ProgressInvariant, Candidate, CandidateFound
  <2> QED
    BY <2>1, <2>2, AdvanceIsNoPresence, ElsewhereIsProgress
<1>4. CASE DtcFallback
  <2>1. /\ stage = "DISCOVERY_DTC_FALLBACK" /\ scope' = scope
        /\ \/ AdvanceCandidate \/ TryAlternateProtocol \/ Goto("DISCOVERY_IDENTITY", cand)
           \/ EnterVinFallback /\ (found' = found \/ ~CandidateFound)
    BY <1>4 DEF DtcFallback, UnchangedByProbe, moduleVars
  <2>2. CASE TryAlternateProtocol \/ Goto("DISCOVERY_IDENTITY", cand)
    <3>1. stage' \notin PresenceStages
      BY <2>2 DEF TryAlternateProtocol, Goto, PresenceStages
    <3> QED
      BY <3>1, ElsewhereIsProgress
  <2>3. CASE EnterVinFallback /\ (found' = found \/ ~CandidateFound)
    <3>1. cand' = [cand EXCEPT !.probe = 0] /\ target' = target
      BY <2>3 DEF EnterVinFallback, Goto
    <3>2. cand'.probe = 0 /\ Candidate' = Candidate
      BY <1>1, <2>1, <3>1 DEF Candidates, Candidate
    <3>3. Candidate \notin Found'
      BY <2>1, <2>3 DEF ProgressInvariant, Found, CandidateFound
    <3> QED
      BY <1>1, <3>2, <3>3 DEF ProgressInvariant
  <2> QED
    BY <2>1, <2>2, <2>3, AdvanceIsNoPresence, ElsewhereIsProgress
<1>5. CASE VinFallback
  <2>1. /\ stage = "DISCOVERY_VIN_FALLBACK" /\ scope' = scope
        /\ \/ AdvanceCandidate \/ AfterPresence
           \/ /\ found' = found /\ cand.probe + 1 < Route[Candidate].probes
              /\ Goto("DISCOVERY_VIN_FALLBACK", [cand EXCEPT !.probe = @ + 1])
           \/ found' = found /\ Goto("DISCOVERY_VARIANT_FALLBACK", cand)
    BY <1>5 DEF VinFallback, UnchangedByProbe, RecordIf, moduleVars
  <2>2. CASE AfterPresence
    BY <2>2, AdvanceIsNoPresence, ElsewhereIsProgress
    DEF AfterPresence, Goto, PresenceStages
  <2>3. CASE /\ found' = found /\ cand.probe + 1 < Route[Candidate].probes
             /\ Goto("DISCOVERY_VIN_FALLBACK", [cand EXCEPT !.probe = @ + 1])
    <3>1. cand' = [cand EXCEPT !.probe = @ + 1] /\ target' = target
      BY <2>3 DEF Goto
    <3>2. cand'.probe = cand.probe + 1 /\ cand.probe \in Nat /\ Candidate' = Candidate
      BY <1>1, <2>1, <3>1 DEF Candidates, Candidate
    <3>3. Candidate \notin Found'
      BY <2>1, <2>3 DEF ProgressInvariant, Found
    <3> QED
      BY <1>1, <2>3, <3>2, <3>3 DEF ProgressInvariant
  <2>4. CASE found' = found /\ Goto("DISCOVERY_VARIANT_FALLBACK", cand)
    BY <2>1, <2>4 DEF Goto, ProgressInvariant, Candidate, Found
  <2> QED
    BY <2>1, <2>2, <2>3, <2>4, AdvanceIsNoPresence, ElsewhereIsProgress
<1>6. CASE VariantFallback
  <2>1. AdvanceCandidate \/ AfterPresence
    BY <1>6 DEF VariantFallback
  <2> QED
    BY <2>1, AdvanceIsNoPresence, ElsewhereIsProgress
    DEF AfterPresence, Goto, PresenceStages
<1> QED
  BY <1>2, <1>3, <1>4, <1>5, <1>6 DEF Probe

LEMMA StepKeepsProgress ==
    ASSUME InductiveInvariant, EvidenceInvariant, ProgressInvariant, [Next]_vars
    PROVE  ProgressInvariant'
<1>1. TypeOK
  BY DEF InductiveInvariant
<1>2. CASE Configuration /\ ~VinSetTimeout
  <2>1. stage' = AfterInit => stage' \notin PresenceStages \/ stage \notin InitStages
    BY DEF InductiveInvariant, Position, PresenceStages
  <2>2. stage' \notin PresenceStages
    BY <1>2, <2>1 DEF Configuration, InitProtocol11, InitHeaders, InitAutoFormat,
       InitFlowControl, InitTimeout, InitStages, SwitchProtocol29, SwitchHeadersOff29,
       SetHeader, ResetReceive, SetFilter, SetMask, SetReceive, SetReceiveForSession,
       DtcSetProtocol, DtcSetHeader, DtcSetReceive, DtcSetReceiveForIdentity,
       CachedIdentitySetTimeout, CachedIdentityRestoreTimeout, Setup, StartIdentity,
       SessionOrValidate, PresenceStages
  <2> QED
    BY <2>2, ElsewhereIsProgress
<1>3. CASE VinSetTimeout
  BY <1>3 DEF VinSetTimeout, ProgressInvariant, Candidate, Found, moduleVars
<1>4. CASE Probe
  <2>1. scope # "CACHED"
    BY <1>4, DiscoveryIsShaped DEF DiscoveryShape
  <2> QED
    BY <1>1, <1>4, <2>1, ProbeKeepsProgress
<1>5. CASE RestoreTimeout
  BY <1>5, AdvanceIsNoPresence, ElsewhereIsProgress DEF RestoreTimeout
<1>6. CASE ModuleRequests
  <2>1. stage' \notin PresenceStages
    BY <1>6, FaultPassStays DEF DtcStages, DtcSetupStages, DtcRequestStages, PresenceStages
  <2> QED
    BY <2>1, ElsewhereIsProgress
<1>7. CASE AdapterRejects \/ Interruption \/ BeginLateTransmission
  <2>1. stage' \in {"FAILED", "COMPLETE", "INIT_PROTOCOL_11"}
    BY <1>7 DEF AdapterRejects, Interruption, RetryRoute, SkipModule, SkipRoute, ResumeAt,
       GiveUp, BeginLateTransmission
  <2> QED
    BY <2>1, ElsewhereIsProgress DEF PresenceStages
<1>8. CASE Rest \/ UNCHANGED vars
  BY <1>8 DEF Rest, vars, routeVars, moduleVars, ProgressInvariant, Candidate, Found
<1> QED
  BY <1>2, <1>3, <1>4, <1>5, <1>6, <1>7, <1>8, KindsOfStep

\* While presence is looked for the candidate is not recorded, and the list of
\* VIN probes is not overrun.
THEOREM ProgressInvariantHolds == Spec => []ProgressInvariant
<1>1. Init => ProgressInvariant
  BY DEF Init, ProgressInvariant
<1>2. InductiveInvariant /\ EvidenceInvariant /\ ProgressInvariant /\ [Next]_vars
        => ProgressInvariant'
  BY StepKeepsProgress
<1> QED
  BY <1>1, <1>2, InductiveInvariantHolds, EvidenceInvariantHolds, PTL DEF Spec

\* Every answer, interruption and late probe brings the rank of the scan down,
\* unless a probe finds the module table full.
THEOREM ScanDescends == Spec => TowardsRest
<1>1. InductiveInvariant /\ EvidenceInvariant /\ ProgressInvariant /\ [Next]_vars
        => [(stage \in ProbeStages => HasRoom) => Below(Rank', Rank)]_vars
  BY StepDescends
<1> QED
  BY <1>1, InductiveInvariantHolds, EvidenceInvariantHolds, ProgressInvariantHolds, PTL
  DEF Spec, TowardsRest

LEMMA RankIsNaturalHere ==
    ASSUME InductiveInvariant, ProgressInvariant
    PROVE  \A i \in 1 .. 8 : Rank[i] \in Nat
<1>1. TypeOK /\ cand \in Candidates
  BY DEF InductiveInvariant, TypeOK
<1>2. /\ Rank[1] = LateProbesLeft /\ Rank[2] = ResumesLeft /\ Rank[3] = PhasesLeft
      /\ Rank[4] = WorkLeft /\ Rank[5] = UnrecordedLeft /\ Rank[6] = ProtocolsLeft
      /\ Rank[7] = StagesLeft(stage) /\ Rank[8] = RepeatsLeft
  BY DEF Rank
<1>3. LateProbesLeft \in Nat /\ PhasesLeft \in Nat /\ UnrecordedLeft \in Nat
  BY DEF LateProbesLeft, PhasesLeft, UnrecordedLeft
<1>4. ResumesLeft \in Nat
  BY <1>1, ConstantsAssumption DEF TypeOK, ResumesLeft
<1>5. WorkLeft \in Nat
  <2>1. CASE stage \in Ended
    BY <2>1 DEF WorkLeft
  <2>2. CASE stage \notin Ended /\ ~InFaultPass
    <3>1. scope # "CACHED"
      BY <2>2 DEF InFaultPass
    <3>2. target \in 1 .. Len(Plan[scope]) /\ Len(Plan[scope]) \in Nat
      BY <1>1, <3>1, CandidateType, PlanType
    <3> DEFINE length == Len(Plan[scope])
    <3>3. WorkLeft = length + 1 - target /\ length \in Nat /\ target \in 1 .. length
      BY <2>2, <3>2 DEF WorkLeft
    <3> HIDE DEF length
    <3> QED
      BY <3>3
  <2>3. CASE stage \notin Ended /\ InFaultPass
    <3>1. dtcIndex \in 1 .. Len(found) /\ Len(found) \in Nat
      BY <1>1, <2>3, FaultPassHasModule, FoundType
    <3> QED
      BY <2>3, <3>1 DEF WorkLeft
  <2> QED
    BY <2>1, <2>2, <2>3
<1>6. ProtocolsLeft \in Nat
  <2>1. IsFiniteSet(Protocols)
    BY ProtocolsAreFinite
  <2> QED
    BY <2>1, FS_Subset, FS_CardinalityType DEF ProtocolsLeft
<1>7. StagesLeft(stage) \in Nat
  BY DEF StagesLeft
<1>8. RepeatsLeft \in Nat
  <2>1. cand.index \in 0 .. 3 /\ cand.probe \in Nat
    BY <1>1 DEF Candidates
  <2>2. CASE stage = "DISCOVERY_VIN_FALLBACK"
    <3>1. scope # "CACHED"
      BY <2>2 DEF InductiveInvariant, Position, DiscoveryStages, ProbeStages
    <3>2. /\ Route[Candidate].probes \in Nat
          /\ cand.probe <= Route[Candidate].probes
      BY <1>1, <2>2, <3>1, CandidateType, RouteType DEF ProgressInvariant
    <3>3. RepeatsLeft = Route[Candidate].probes - cand.probe
      BY <2>2 DEF RepeatsLeft
    <3> QED
      BY <2>1, <3>2, <3>3
  <2>3. CASE stage # "DISCOVERY_VIN_FALLBACK"
    BY <2>1, <2>3 DEF RepeatsLeft
  <2> QED
    BY <2>2, <2>3
<1> QED
  BY <1>2, <1>3, <1>4, <1>5, <1>6, <1>7, <1>8

\* The rank is made of eight natural numbers.
THEOREM RankIsNatural == Spec => [](Rank \in [1 .. 8 -> Nat])
<1>1. InductiveInvariant /\ ProgressInvariant => Rank \in [1 .. 8 -> Nat]
  <2> SUFFICES ASSUME InductiveInvariant, ProgressInvariant PROVE Rank \in [1 .. 8 -> Nat]
    OBVIOUS
  <2>1. \A i \in 1 .. 8 : Rank[i] \in Nat
    BY RankIsNaturalHere
  <2>2. Rank = [i \in 1 .. 8 |-> Rank[i]]
    BY DEF Rank
  <2> QED
    BY <2>1, <2>2
<1> QED
  BY <1>1, InductiveInvariantHolds, ProgressInvariantHolds, PTL

-----------------------------------------------------------------------------
(* Nothing goes down for ever. *)

\* The orders as relations: of numbers, and of ranks.
LessThan == {p \in Nat \X Nat : p[1] < p[2]}
Lower == {p \in [1 .. 8 -> Nat] \X [1 .. 8 -> Nat] : Below(p[1], p[2])}

\* A finite set of numbers with a greatest one is not closed under the predecessor.
LEMMA NoEndlessShift ==
  ASSUME NEW m \in Nat, NEW U \in SUBSET (0 .. m), m \in U,
         \A u \in U : u - 1 \in U
  PROVE  FALSE
<1> DEFINE f == [u \in U |-> u - 1]
<1>1. IsFiniteSet(U) /\ Cardinality(U) \in Nat
  <2>1. IsFiniteSet(0 .. m) BY FS_Interval
  <2> QED BY <2>1, FS_Subset, FS_CardinalityType
<1>2. IsFiniteSet(U \ {m}) /\ Cardinality(U \ {m}) = Cardinality(U) - 1
  BY <1>1, FS_RemoveElement
<1>3. f \in Injection(U, U \ {m})
  <2>1. f \in [U -> U \ {m}]
    OBVIOUS
  <2>2. \A a, b \in U : f[a] = f[b] => a = b
    OBVIOUS
  <2> QED BY <2>1, <2>2 DEF Injection, IsInjective
<1>4. Cardinality(U) <= Cardinality(U \ {m})
  BY <1>1, <1>2, <1>3, FS_Injection
<1> QED BY <1>1, <1>2, <1>4

\* Numbers do not go down for ever: what lies above the elements of a set of
\* numbers without a least one would be closed under the predecessor.
LEMMA LessThanIsWellFounded == IsWellFoundedOn(LessThan, Nat)
<1>1. ASSUME NEW T \in SUBSET Nat, T # {}, \A x \in T : \E y \in T : <<y, x>> \in LessThan
      PROVE  FALSE
  <2>1. PICK m \in T : TRUE BY <1>1
  <2> DEFINE U == {u \in 0 .. m : \E x \in T : x <= u}
  <2>2. m \in Nat /\ m \in U BY <2>1
  <2>3. \A u \in U : u - 1 \in U
    <3> TAKE u \in U
    <3>1. PICK x \in T : x <= u OBVIOUS
    <3>2. PICK y \in T : y < x BY <1>1, <3>1 DEF LessThan
    <3>3. x \in Nat /\ y \in Nat /\ u \in Nat /\ u <= m BY <2>2, <3>1, <3>2
    <3>4. u - 1 \in 0 .. m /\ y <= u - 1 BY <3>1, <3>2, <3>3, <2>2
    <3> QED BY <3>2, <3>4
  <2>4. U \in SUBSET (0 .. m) OBVIOUS
  <2> HIDE DEF U
  <2> QED BY <2>2, <2>3, <2>4, NoEndlessShift
<1>2. \A T \in SUBSET Nat : T # {} => \E x \in T : \A y \in T : ~(<<y, x>> \in LessThan)
  BY <1>1, Zenon
<1> QED BY <1>2, MinWF

LEMMA LowerIsWellFounded == IsWellFoundedOn(Lower, [1 .. 8 -> Nat])
<1>1. IsWellFoundedOn(LexProductOrdering(LessThan, Nat, 8), [1..8 -> Nat])
  BY LessThanIsWellFounded, WFLexProductOrdering
<1>2. ASSUME NEW p \in Lower
      PROVE  p \in LexProductOrdering(LessThan, Nat, 8)
  <2>1. p \in [1..8 -> Nat] \X [1..8 -> Nat] /\ Below(p[1], p[2])
    BY DEF Lower
  <2> DEFINE a == p[1]
             b == p[2]
  <2>2. a \in [1..8 -> Nat] /\ b \in [1..8 -> Nat]
    BY <2>1
  <2>3. PICK i \in 1 .. 8 : a[i] < b[i] /\ \A j \in 1 .. i - 1 : a[j] = b[j]
    BY <2>1, <2>2 DEF Below
  <2>4. <<a[i], b[i]>> \in LessThan
    BY <2>2, <2>3 DEF LessThan
  <2> QED
    BY <2>1, <2>3, <2>4, SMT DEF LexProductOrdering
<1>3. Lower \cap ([1..8 -> Nat] \X [1..8 -> Nat]) \subseteq LexProductOrdering(LessThan, Nat, 8)
  BY <1>2
<1> QED BY <1>1, <1>3, IsWellFoundedOnSubrelation

\* Eight natural numbers do not go down for ever in the order of Below: as
\* every step lowers Rank, a scan makes finitely many steps until it ends, is
\* left alone, or probes with its module table full.
THEOREM NoEndlessDescent ==
    ASSUME NEW f \in [Nat -> [1 .. 8 -> Nat]]
    PROVE  \E n \in Nat : ~Below(f[n + 1], f[n])
<1> SUFFICES ASSUME \A n \in Nat : Below(f[n + 1], f[n]) PROVE FALSE
  OBVIOUS
<1>1. ASSUME NEW n \in Nat
      PROVE  <<f[n + 1], f[n]>> \in Lower
  <2>1. f[n + 1] \in [1 .. 8 -> Nat] /\ f[n] \in [1 .. 8 -> Nat]
    OBVIOUS
  <2> QED
    BY <2>1 DEF Lower
<1> QED
  BY <1>1, LowerIsWellFounded DEF IsWellFoundedOn

\* The whole invariant of the scan.
THEOREM ScanInvariantHolds == Spec => []ScanInvariant
<1>1. /\ InductiveInvariant /\ EvidenceInvariant /\ ProfileInvariant /\ CoverageInvariant
      /\ ProgressInvariant
      /\ AbsenceInvariant
      => ScanInvariant
  BY DEF ScanInvariant
<1> QED
  BY <1>1, InductiveInvariantHolds, EvidenceInvariantHolds, ProfileInvariantHolds,
     CoverageInvariantHolds, ProgressInvariantHolds, AbsenceInvariantHolds, PTL
=============================================================================
