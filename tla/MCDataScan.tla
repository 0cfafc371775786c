----------------------------- MODULE MCDataScan -----------------------------
(***************************************************************************)
(* Begin calls for DataScan, on one route.  Identifiers are 0 .. 3 and the *)
(* local identifiers end at 2, so that a range can end at the last         *)
(* identifier of each kind; the table has two records, one fewer than the  *)
(* longest range.                                                          *)
(***************************************************************************)
EXTENDS DataScan

Read(s, i) == [service |-> s, id |-> i]
MakeCall(kind, proto, session, first, last, commands) ==
    [kind |-> kind, protocol |-> proto, session |-> session,
     first |-> first, last |-> last, commands |-> commands]

MCSafeReads == {Read("22", 1), Read("22", 3), Read("21", 1), Read("1A", 1),
                Read("1A", 2)}

MCCalls == {
    MakeCall("range", "UDS", TRUE, 1, 3, <<>>),
    MakeCall("range", "KWP", FALSE, 1, 2, <<>>),
    MakeCall("refresh", "UDS", FALSE, 1, 1, <<Read("22", 3), Read("22", 1)>>),
    MakeCall("refresh", "KWP", FALSE, 1, 1, <<Read("21", 2)>>),
    MakeCall("probe", "UDS", FALSE, 0, 3, <<Read("22", 0), Read("22", 2)>>),
    MakeCall("documented", "KWP", FALSE, 1, 2, <<Read("1A", 1), Read("21", 1)>>),
    \* calls that are refused
    MakeCall("range", "UDS", FALSE, 3, 1, <<>>),
    MakeCall("documented", "UDS", FALSE, 0, 0, <<Read("22", 0)>>),
    MakeCall("refresh", "UDS", FALSE, 0, 0, <<Read("22", 1), Read("22", 1)>>)}
=============================================================================
