----------------------------- MODULE Workstation -----------------------------
(***************************************************************************)
(* The Linux workstation (app/linux/main.c) as the owner of its machines:  *)
(* the engine probe, the module scan that follows it, the selection of     *)
(* values to poll and the file that keeps one per vehicle.  Link's shell   *)
(* (external) connects and disconnects, starts the manufacturer extension  *)
(* when the standard diagnostics are ready or a deep rescan is asked for,  *)
(* and drives it; the user ticks values at any time.                       *)
(***************************************************************************)
EXTENDS Probe

CONSTANTS Pids          \* mode 01 identifiers a user may tick

VARIABLES
    connected,
    ext,        \* the shell: idle, running, done or refused (finished is due)
    engine,     \* manufacturer_scan_*: started, active, complete, failed
    modules,    \* module_scan_*: active, complete, failed, full
    sweep,      \* full_sweep_requested
    dirty,      \* manufacturer_ui_dirty
    selection,  \* selected_parameters: vehicle_identifier, keys
    graphs,     \* the values session_trace draws
    disk,       \* the polling-vin groups of mblink.ini
    access      \* history: how the last access to mblink.ini went

scanVars == <<ext, engine, modules, sweep, dirty>>
choiceVars == <<selection, graphs, disk, access>>
vars == <<vehicle, probe, evidence, connected, scanVars, choiceVars>>

Vins == {v.vin : v \in Vehicles}
NoEngineScan ==
    [started |-> FALSE, active |-> FALSE, complete |-> FALSE, failed |-> FALSE]
NoModuleScan ==
    [active |-> FALSE, complete |-> FALSE, failed |-> FALSE, full |-> FALSE]
NoSelection == [vehicle |-> "", pids |-> {}]

\* The file was read or written as it should, a load missed some of it, a save
\* wrote nothing, or a save wrote over a file it could not read.
Accesses == {"whole", "partial", "unwritten", "blind"}

TypeOK ==
    /\ vehicle \in Vehicles
    /\ probe \in ProbeType /\ evidence \in EvidenceType
    /\ connected \in BOOLEAN /\ sweep \in BOOLEAN /\ dirty \in BOOLEAN
    /\ ext \in {"idle", "running", "done", "refused"}
    /\ engine \in [started : BOOLEAN, active : BOOLEAN, complete : BOOLEAN,
                   failed : BOOLEAN]
    /\ modules \in [active : BOOLEAN, complete : BOOLEAN, failed : BOOLEAN,
                    full : BOOLEAN]
    /\ selection \in [vehicle : {""} \cup Vins, pids : SUBSET Pids]
    /\ graphs \subseteq Pids
    /\ disk \in [Vins -> SUBSET Pids]
    /\ access \in Accesses

\* memset of manufacturer_scan; the probe of a scan that never began.
Cleared == probe' = FreshProbe /\ evidence' = NoEvidence

-----------------------------------------------------------------------------
(* The shell's connection.                                                 *)

\* What connection_changed does to the selection.  Slip: it is left alone.
DeselectedNever == UNCHANGED <<selection, graphs>>
Deselected == selection' = NoSelection /\ graphs' = {}

Connect ==
    /\ ~connected /\ ext = "idle"
    /\ connected' = TRUE
    /\ vehicle' \in Vehicles
    /\ Cleared
    /\ engine' = NoEngineScan /\ modules' = NoModuleScan /\ dirty' = FALSE
    /\ Deselected
    /\ access' = "whole"
    /\ UNCHANGED <<ext, sweep, disk>>

\* An extension that runs is stopped without a word, or told afterwards.
Disconnect ==
    /\ connected
    /\ connected' = FALSE
    /\ Cleared
    /\ engine' = NoEngineScan /\ modules' = NoModuleScan /\ dirty' = FALSE
    /\ ext' \in IF ext = "idle" THEN {"idle"} ELSE {"idle", "refused"}
    /\ UNCHANGED <<vehicle, sweep, choiceVars>>

-----------------------------------------------------------------------------
(* The manufacturer extension.                                             *)

RequestFullSweep ==
    /\ ~sweep /\ sweep' = TRUE
    /\ UNCHANGED <<vehicle, probeVars, connected, ext, engine, modules, dirty,
                   choiceVars>>

\* manufacturer_begin; the generic endpoint it names is always accepted.
Begin ==
    /\ connected /\ ext = "idle"
    /\ Begun
    /\ engine' = [NoEngineScan EXCEPT !.started = TRUE, !.active = TRUE]
    /\ modules' = [NoModuleScan EXCEPT !.full = sweep]
    /\ sweep' = FALSE /\ dirty' = FALSE /\ ext' = "running"
    /\ UNCHANGED <<vehicle, connected, choiceVars>>

\* load_polling_selection_for_vehicle: of the vehicle's group all that can be
\* read, which is nothing where there is no path or the file does not load.
\* Slip: the graphs keep the old values.
LoadedWithoutGraphs(vin) ==
    IF vin = "" \/ vin = selection.vehicle
    THEN UNCHANGED <<selection, graphs, access>>
    ELSE \E read \in SUBSET disk[vin] :
            /\ selection' = [vehicle |-> vin, pids |-> read]
            /\ access' = IF read = disk[vin] THEN "whole" ELSE "partial"
            /\ UNCHANGED graphs
Loaded(vin) ==
    IF vin = "" \/ vin = selection.vehicle
    THEN UNCHANGED <<selection, graphs, access>>
    ELSE \E read \in SUBSET disk[vin] :
            /\ selection' = [vehicle |-> vin, pids |-> read]
            /\ access' = IF read = disk[vin] THEN "whole" ELSE "partial"
            /\ graphs' = read

\* The engine scan has ended: the module scan takes over, whatever the end.
HandsOver(result) ==
    /\ engine' = [engine EXCEPT !.active = FALSE,
                                !.complete = result = "COMPLETE",
                                !.failed = result # "COMPLETE"]
    /\ modules' = [modules EXCEPT !.active = TRUE]
    /\ UNCHANGED ext

\* manufacturer_accept_response while the engine scan is active
AcceptEngine(reply) ==
    /\ ext = "running" /\ engine.active
    /\ Accepted(reply)
    /\ Loaded(evidence'.vin)
    /\ IF EngineResult(reply) = "OK"
       THEN UNCHANGED <<ext, engine, modules>>
       ELSE HandsOver(EngineResult(reply))
    /\ dirty' = \/ dirty
                \/ (evidence.vin = "") # (evidence'.vin = "")
                \/ evidence.supplier # evidence'.supplier
                \/ EngineResult(reply) # "OK"
    /\ UNCHANGED <<vehicle, connected, sweep, disk>>

\* ... and while the module scan is (its own steps are module ModuleScan).
AcceptModules ==
    /\ ext = "running" /\ modules.active
    /\ \/ /\ dirty' \in {dirty, TRUE}
          /\ UNCHANGED <<ext, modules>>
       \/ \E ok \in BOOLEAN :
            /\ modules' = [modules EXCEPT !.active = FALSE, !.complete = ok,
                                          !.failed = ~ok]
            /\ ext' = "done" /\ dirty' = TRUE
    /\ UNCHANGED <<vehicle, probeVars, connected, engine, sweep, choiceVars>>

\* manufacturer_next_command: the module scan has no command to give.
CommandRefused ==
    /\ ext = "running" /\ modules.active
    /\ modules' = [modules EXCEPT !.active = FALSE, !.failed = TRUE]
    /\ ext' = "refused"
    /\ UNCHANGED <<vehicle, probeVars, connected, engine, sweep, dirty, choiceVars>>

\* The shell gives up on the wire.
Abort ==
    /\ ext = "running"
    /\ ext' = "refused"
    /\ UNCHANGED <<vehicle, probeVars, connected, engine, modules, sweep, dirty,
                   choiceVars>>

\* manufacturer_finished.  Slip: a scan that is done is called failed too.
FailedOnStop ==
    /\ engine' = [engine EXCEPT !.active = FALSE,
                                !.failed = engine.failed \/ engine.started]
    /\ modules' = [modules EXCEPT !.active = FALSE, !.failed = TRUE]
FailedUnlessDone ==
    /\ engine' = [engine EXCEPT
            !.active = FALSE,
            !.failed = engine.failed \/ (engine.started /\ ~engine.complete)]
    /\ modules' = [modules EXCEPT
            !.active = FALSE, !.failed = modules.failed \/ ~modules.complete]

Finished ==
    /\ ext \in {"done", "refused"}
    /\ IF ext = "done"
       THEN /\ engine' = [engine EXCEPT !.active = FALSE]
            /\ modules' = [modules EXCEPT !.active = FALSE]
       ELSE FailedUnlessDone
    /\ ext' = "idle"
    /\ UNCHANGED <<vehicle, probeVars, connected, sweep, dirty, choiceVars>>

\* manufacturer_progress_changed, without the replay verifier.
ProgressShown ==
    /\ dirty /\ dirty' = FALSE
    /\ UNCHANGED <<vehicle, probeVars, connected, ext, engine, modules, sweep,
                   choiceVars>>

-----------------------------------------------------------------------------
(* The user.                                                               *)

\* save_display_preferences, as far as the polling groups go: the file is
\* read, the group of the vehicle set and all of it written.  No result is
\* looked at: without a path, or when the write fails, the file stays as it is;
\* when it does not load, what was not read of the other groups is gone.
Saved(chosen) ==
    \/ disk' = disk /\ access' = "unwritten"
    \/ /\ disk' \in {d \in [Vins -> SUBSET Pids] : \A vin \in Vins :
                        IF vin = chosen.vehicle THEN d[vin] = chosen.pids
                        ELSE d[vin] \subseteq disk[vin]}
       /\ access' = IF \A vin \in Vins \ {chosen.vehicle} : disk'[vin] = disk[vin]
                    THEN "whole" ELSE "blind"

\* polling_toggled; a value the selection refuses leaves all as it was.
Toggled(pid) ==
    /\ selection' = [selection EXCEPT !.pids =
            IF pid \in @ THEN @ \ {pid} ELSE @ \cup {pid}]
    /\ graphs' = selection'.pids
    /\ Saved(selection')

Toggle ==
    /\ \E pid \in Pids : Toggled(pid)
    /\ UNCHANGED <<vehicle, probeVars, connected, scanVars>>

\* preference_changed and dashboard_mode_changed, which save the whole file.
PreferenceChanged ==
    /\ Saved(selection)
    /\ UNCHANGED <<vehicle, probeVars, connected, scanVars, selection, graphs>>

-----------------------------------------------------------------------------
Init ==
    /\ vehicle \in Vehicles
    /\ probe = FreshProbe /\ evidence = NoEvidence
    /\ connected = FALSE /\ ext = "idle"
    /\ engine = NoEngineScan /\ modules = NoModuleScan
    /\ sweep = FALSE /\ dirty = FALSE
    /\ selection = NoSelection /\ graphs = {}
    /\ disk \in [Vins -> SUBSET Pids] /\ access = "whole"

Next ==
    \/ Connect
    \/ Disconnect
    \/ RequestFullSweep
    \/ Begin
    \/ \E reply \in Replies : AcceptEngine(reply)
    \/ AcceptModules
    \/ CommandRefused
    \/ Abort
    \/ Finished
    \/ ProgressShown
    \/ Toggle
    \/ PreferenceChanged

Spec == Init /\ [][Next]_vars

-----------------------------------------------------------------------------
(* Properties.                                                             *)

\* What the car itself says of its engine control unit.
SpeaksForCrd3(v) == v.engine = "OM651" \/ v.crd3 \cap Compared # {}

\* An identifier of the CRD3 family is sent only to a car whose own VIN or
\* identity, read in this scan, speaks for such a unit, and after all of the
\* standard identity: neither an earlier scan nor an earlier car counts
\* (probe.c:546, mercedes_probe.h).
FingerprintGated ==
    (/\ engine.active /\ probe.stage = "READ_DID"
     /\ Requests[probe.did] \in ToSet(Fingerprint)) =>
        /\ SpeaksForCrd3(vehicle)
        /\ \A n \in {"vin"} \cup ToSet(Identity) : probe.status[n] # "none"
        /\ \E n \in {"vin"} \cup Compared : n \in probe.usable

\* While the extension runs exactly one machine owns the wire; it ends well
\* only after both had their turn; none is both complete and failed; and no
\* flag of a stopped extension says that something still runs (main.c:2501,
\* main.c:2637).
HandOver ==
    /\ ext = "running" => engine.active # modules.active
    /\ ext \in {"idle", "done"} => ~engine.active /\ ~modules.active
    /\ ext = "done" => /\ engine.complete \/ engine.failed
                       /\ modules.complete \/ modules.failed
    /\ ~(engine.complete /\ engine.failed)
    /\ ~(modules.complete /\ modules.failed)
    /\ modules.complete => engine.started /\ ~engine.active

\* What is polled and what is drawn agree, for the vehicle whose VIN was read,
\* and are what is stored for it, unless the last load missed some of that or
\* the last save wrote nothing; what a load missed is not polled instead of
\* something else (main.c:400, main.c:313).
SelectionConsistent ==
    /\ graphs = selection.pids
    /\ selection.vehicle # "" =>
        /\ access \in {"whole", "blind"} =>
                selection.pids = disk[selection.vehicle]
        /\ access = "partial" => selection.pids \subseteq disk[selection.vehicle]
    /\ evidence.vin # "" => selection.vehicle = evidence.vin

\* The stored selection of a vehicle changes only while that vehicle is the
\* one plugged in, or the last one that was (main.c:2688); a save over a file
\* that did not load may lose values of another vehicle, never add one.
PrefsConfined ==
    [][\A vin \in Vins : disk'[vin] # disk[vin] =>
            \/ vehicle.vin = vin
            \/ access' = "blind" /\ disk'[vin] \subseteq disk[vin]]_vars
-----------------------------------------------------------------------------
(* What the properties rest on.                                            *)

\* The probe reads its requests in order; past the standard identity only
\* where the car speaks for a CRD3 unit and a text read says so.
ProbePosition ==
    /\ probe.stage \in {"CONFIGURE_CHANNEL", "TESTER_PRESENT"} =>
        probe.did = 1 /\ probe.count = Len(Requests)
    /\ probe.stage = "READ_DID" => probe.did <= probe.count
    /\ \A i \in 1 .. probe.did - 1 : probe.status[Requests[i]] # "none"
    /\ probe.stage = "READ_DID" /\ probe.did > Len(Identity) + 1 =>
        SpeaksForCrd3(vehicle) /\ probe.usable \cap ({"vin"} \cup Compared) # {}

\* The evidence is of the car that is plugged in and of this probe's texts.
EvidenceIsOwn ==
    /\ evidence.vin # "" => evidence.vin = vehicle.vin
    /\ evidence.profile = "OM651" =>
        "vin" \in probe.usable /\ vehicle.engine = "OM651"

\* Each machine's flags while it, or the other one, owns the wire.
WireOwner ==
    /\ engine.active \/ modules.active => engine.started
    /\ engine.active => /\ ~engine.complete /\ ~engine.failed
                        /\ ~modules.active /\ ~modules.complete /\ ~modules.failed
    /\ modules.active => /\ engine.complete \/ engine.failed
                         /\ ~modules.complete /\ ~modules.failed

\* The selection is no other car's.
SelectionIsOwn == selection.vehicle # "" => selection.vehicle = vehicle.vin

InductiveInvariant ==
    /\ TypeOK /\ ProbePosition /\ EvidenceIsOwn /\ WireOwner /\ HandOver
    /\ SelectionIsOwn /\ SelectionConsistent
=============================================================================
