-------------------------------- MODULE Survey --------------------------------
(***************************************************************************)
(* What a module scan promises (src/mercedes/module_scan.c), without       *)
(* stages, commands or an adapter: every planned route is asked for its    *)
(* identity, in the order of the plan, and then every recorded module for  *)
(* its faults, in the order of the record.  Nothing is left unasked but    *)
(* one for every two interruptions, nothing is asked out of turn, and only *)
(* what an interruption has cut short is asked again.                      *)
(***************************************************************************)
EXTENDS Naturals, Sequences, FiniteSets

CONSTANTS
    Routes,
    Late        \* the route a finished survey may be asked to look at again

VARIABLES
    phase,          \* "routes", "modules", "over" or "failed"
    queue,          \* what this phase still has to do, the current one first
    missed,         \* what this phase has left behind undone
    asked,          \* routes asked for their identity
    modules,        \* the modules recorded, in order
    read,           \* modules asked for their faults
    interruptions   \* how often the survey was interrupted

survey == <<phase, queue, missed, asked, modules, read, interruptions>>

Recorded == {modules[i] : i \in DOMAIN modules}
Current == Head(queue)

\* A survey starts with a plan, or with the modules of a saved profile.
Init ==
    /\ queue \in Seq(Routes) \ {<<>>}
    /\ \/ phase = "routes" /\ modules = <<>>
       \/ phase = "modules" /\ modules = queue
    /\ missed = {} /\ asked = {} /\ read = {}
    /\ interruptions = 0

\* What the step leaves done of this phase's work.
Served == IF phase = "routes" THEN asked' ELSE read'

Stay ==
    /\ missed' = missed \ Served
    /\ UNCHANGED <<phase, queue>>

\* What is left undone once the current one is left behind.
Unserved == (missed \cup {Current}) \ Served

LeaveForNext ==
    /\ Tail(queue) # <<>>
    /\ queue' = Tail(queue)
    /\ missed' = Unserved
    /\ UNCHANGED phase

\* The survey goes over to the modules, unless all of them were read already.
LeaveLastRoute ==
    /\ phase = "routes"
    /\ Tail(queue) = <<>>
    /\ missed' = {}
    /\ \/ /\ Recorded' \subseteq read'
          /\ phase' = "over" /\ queue' = <<>>
       \/ /\ ~(Recorded' \subseteq read')
          /\ phase' = "modules" /\ queue' = modules'

LeaveLastModule ==
    /\ phase = "modules"
    /\ Tail(queue) = <<>>
    /\ phase' = "over" /\ queue' = <<>>
    /\ missed' = Unserved

Leave ==
    /\ LeaveForNext \/ LeaveLastRoute \/ LeaveLastModule
    /\ 2 * Cardinality(Unserved) <= interruptions'

\* An exchange with the current route: it may be asked, recorded and read.
AskRoute ==
    /\ phase = "routes"
    /\ asked' \in {asked, asked \cup {Current}}
    /\ \/ modules' = modules
       \/ Current \notin Recorded /\ modules' = Append(modules, Current)
    /\ read' \in {read, read \cup {Current}}
    /\ UNCHANGED interruptions
    /\ Stay \/ (Current \in asked' /\ Leave)

\* An exchange with the current module.
ReadModule ==
    /\ phase = "modules"
    /\ read' \in {read, read \cup {Current}}
    /\ UNCHANGED <<asked, modules, interruptions>>
    /\ Stay \/ (Current \in read' /\ Leave)

Interrupt ==
    /\ phase \in {"routes", "modules"}
    /\ interruptions' = interruptions + 1
    /\ UNCHANGED <<asked, modules, read>>
    /\ Stay \/ Leave

Fail ==
    /\ phase \in {"routes", "modules"}
    /\ phase' = "failed" /\ queue' = <<>> /\ missed' = {}
    /\ UNCHANGED <<asked, modules, read, interruptions>>

\* The survey is over, and one module is looked at again.
LookAgain ==
    /\ phase = "over"
    /\ phase' = "modules"
    /\ queue' = <<Late>>
    /\ missed' = missed \ {Late}
    /\ IF Late \in Recorded THEN modules' = modules
       ELSE modules' = Append(modules, Late)
    /\ UNCHANGED <<asked, read, interruptions>>

Next == AskRoute \/ ReadModule \/ Interrupt \/ Fail \/ LookAgain

Spec == Init /\ [][Next]_survey
=============================================================================
