---------------------------- MODULE MCModuleScan ----------------------------
(***************************************************************************)
(* Small vehicles for ModuleScan.  Every route stands for a kind of route  *)
(* of the source's tables (src/mercedes/discover_plan.c, known-route table *)
(* and plans), with the attributes those tables give it:                   *)
(*   eis   0x612 -> 0x482, source-backed, automatic session, VIN cascade   *)
(*   ic    0x60A -> 0x481, source-backed, no session and no VIN probe,     *)
(*         documented with both protocols                                  *)
(*   gs    0x7E1 -> 0x7E9, the KWP2000 transmission                        *)
(*   obd   0x7E0 -> 0x7E8, legislated slot, three VIN probes               *)
(*   slot  a slot of the 0x602.. census lattice, or a generic 11-bit       *)
(*         identifier of the FULL sweep                                    *)
(*   ext   a 29-bit normal-fixed address                                   *)
(***************************************************************************)
EXTENDS ModuleScan

RouteKind(extended, known, session, vinTarget, authoritative, probes, hint,
          profiles, pack) ==
    [extended |-> extended, known |-> known, session |-> session,
     productionVin |-> vinTarget, authoritative |-> authoritative,
     probes |-> probes, hint |-> hint, profiles |-> profiles, pack |-> pack]

MCRoute ==
    [r \in Routes |->
        CASE r = "eis" -> RouteKind(FALSE, TRUE, TRUE, TRUE, TRUE, 2, "UDS",
                                    {"UDS", "KWP"}, "none")
          [] r = "ic" -> RouteKind(FALSE, TRUE, FALSE, FALSE, TRUE, 0, "UDS",
                                   {"UDS", "KWP"}, "none")
          [] r = "gs" -> RouteKind(FALSE, TRUE, FALSE, FALSE, TRUE, 0, "KWP",
                                   {"KWP"}, "KWP")
          [] r = "obd" -> RouteKind(FALSE, FALSE, FALSE, TRUE, TRUE, 3, "UDS",
                                    {"UDS", "KWP"}, "UDS")
          [] r = "slot" -> RouteKind(FALSE, FALSE, FALSE, FALSE, FALSE, 1,
                                     "UDS", {}, "none")
          [] r = "ext" -> RouteKind(TRUE, FALSE, FALSE, FALSE, TRUE, 0, "UDS",
                                    {}, "none")]

\* The plan of every discovery scope, each with what the scope's source plan
\* has: legislated slots and known routes, lattice slots, 29-bit addresses.
MCPlan ==
    [s \in AllScopes \ {"CACHED"} |->
        CASE s = "QUICK" -> <<"eis", "gs">>
          [] s = "GATEWAY" -> <<"obd", "ext">>
          [] s = "CENSUS" -> <<"slot", "eis">>
          [] s = "FULL" -> <<"ic", "slot", "ext">>]

\* The same with an instrument cluster, the route that has both protocols and
\* no VIN probe between them.
RestPlan == [MCPlan EXCEPT !["QUICK"] = <<"ic", "gs">>]

\* The saved vehicle profile, which only a CACHED scan reads; begin_cached
\* takes it in any order, and here the transmission is not the last module.
MCSaved == <<"gs", "eis">>
OneSaved == <<"ic">>

\* Discovery of the transmission followed by a late probe of it.
LatePlan == [s \in AllScopes \ {"CACHED"} |-> <<"ic", "gs">>]

\* The sweep meets an engine ECU when its module table is already full.
FullTablePlan == [s \in AllScopes \ {"CACHED"} |-> <<"ic", "obd">>]
=============================================================================
