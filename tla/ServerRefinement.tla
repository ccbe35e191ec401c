-------------------------- MODULE ServerRefinement --------------------------
(***************************************************************************)
(* The router service implements GovernedRuntime: its locked sections and  *)
(* goroutines seen as atomic transitions of requests and their records.    *)
(***************************************************************************)
EXTENDS ServerProperties

(* An execution under way, its failure still to be written included. *)
Executing(t) == pc[t] \in {"await", "execution"} \/ (pc[t] = "write" /\ out[t].attempt = 2)

\* An ADMIT that was not withdrawn.
Stands(t) == out[t].result = "ADMIT" /\ out[t].err = ""

PhaseOf(t) ==
    IF Executing(t)                                        THEN "executing"
    ELSE IF pc[t] \in Admission                            THEN "requested"
    ELSE IF pc[t] \in Execution                            THEN "admitted"
    ELSE IF out[t].attempt = 0                             THEN "idle"
    ELSE IF ~Stands(t)                                     THEN "halted"
    ELSE IF via[t] = "route"                               THEN "admitted"
    ELSE "completed"

RecordOf(b) ==
    [what |-> IF b.kind = "execution" THEN "result"
              ELSE IF b.kind \in OverrideKinds THEN "override"
              ELSE IF b.result = "ADMIT" THEN "admit" ELSE "refuse",
     by |-> b.id[1],
     subject |-> b.intent]

Abstract == INSTANCE GovernedRuntime WITH
    Agents     <- Threads,
    Sovereigns <- Operators,
    Subjects   <- Intents,
    phase      <- [t \in Threads |-> PhaseOf(t)],
    subject    <- [t \in Threads |-> Intent(t)],
    blocked    <- [t \in Threads |-> barred[t] \cap OverrideKinds # {}],
    trail      <- [i \in 1..Len(entries) |-> RecordOf(entries[i].body)]

(* Every behaviour of the service is, under this mapping, one of the       *)
(* abstract runtime: requests advance along the documented life cycle, an  *)
(* admission, a refusal and a result are on record in the very step that   *)
(* makes them, nothing blocked is admitted, and no provider is called for  *)
(* an admission that follows an override on record.                        *)
ImplementsGovernedRuntime == Abstract!AbstractSpec
=============================================================================
