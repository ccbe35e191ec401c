--------------------------- MODULE InterruptStore ---------------------------
(***************************************************************************)
(* The operator override store (corrigibility.go): three maps over intent  *)
(* ids behind one mutex, each operation of which is one step.  A directive *)
(* is never empty (the handler refuses it), so only its presence matters.  *)
(* Clear and ClearCorrection have no caller outside the tests: overrides   *)
(* are never withdrawn while the router runs.                              *)
(***************************************************************************)
VARIABLES interrupt, corrected, terminate

interruptVars == <<interrupt, corrected, terminate>>

InterruptInit ==
    /\ interrupt = {}
    /\ corrected = {}
    /\ terminate = {}

\* Mutant of IsTerminated: one termination stops every intent.
AnyTerminated(i) == terminate # {}

IsInterrupted(i) == i \in interrupt
Correction(i)    == i \in corrected
IsTerminated(i)  == i \in terminate

Interrupt(i) == interrupt' = interrupt \cup {i} /\ UNCHANGED <<corrected, terminate>>
Correct(i)   == corrected' = corrected \cup {i} /\ UNCHANGED <<interrupt, terminate>>
Terminate(i) == terminate' = terminate \cup {i} /\ UNCHANGED <<interrupt, corrected>>

(* The overrides in force on an intent, under their handlers' names. *)
Overrides(i) ==
    {k \in {"interrupt", "correct", "terminate"} :
        \/ k = "interrupt" /\ i \in interrupt
        \/ k = "correct"   /\ i \in corrected
        \/ k = "terminate" /\ i \in terminate}
=============================================================================
