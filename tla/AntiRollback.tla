----------------------------- MODULE AntiRollback -----------------------------
(***************************************************************************)
(* What an A/B update promises (docs/STM32F767-UDS-BOOTLOADER.md), without *)
(* flash, slots or records: the version that runs is always one that can   *)
(* be booted again, the protected version never exceeds it, rises only to  *)
(* it, and a version that could be rolled back to is never installed anew. *)
(***************************************************************************)
EXTENDS Naturals

CONSTANT Versions   \* numbers

VARIABLES
    runs,       \* the version that is executing
    good,       \* versions that are complete, authentic and bootable
    counter     \* the protected anti-rollback version

device == <<runs, good, counter>>

Init ==
    /\ good \in SUBSET Versions
    /\ runs \in good
    /\ counter \in Versions
    /\ runs >= counter

\* Installing, giving up or replacing a version that does not run.
Install ==
    /\ good' \in SUBSET Versions
    /\ runs \in good'
    /\ \A v \in good' \ good : v > counter
    /\ UNCHANGED <<runs, counter>>

Boot ==
    /\ runs' \in good
    /\ runs' >= counter
    /\ UNCHANGED <<good, counter>>

Confirm ==
    /\ runs > counter
    /\ counter' = runs
    /\ UNCHANGED <<runs, good>>

Next == Install \/ Boot \/ Confirm

Spec == Init /\ [][Next]_device
=============================================================================
