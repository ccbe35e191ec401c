--------------------------- MODULE ExecutionState ---------------------------
(***************************************************************************)
(* The execution state machine (execution.go): one state per intent, read  *)
(* and written under the component's own mutex.  An intent without a map   *)
(* entry is PENDING.                                                       *)
(***************************************************************************)
CONSTANT Intents

VARIABLE states

ExecStates == {"PENDING", "ADMITTED", "RUNNING", "HALTED", "TERMINATED"}

IsTerminal(s) == s \in {"HALTED", "TERMINATED"}

legalTransitions ==
    [PENDING    |-> {"ADMITTED"},
     ADMITTED   |-> {"RUNNING", "HALTED", "TERMINATED"},
     RUNNING    |-> {"HALTED", "TERMINATED"},
     HALTED     |-> {},
     TERMINATED |-> {}]

ExecutionInit == states = [i \in Intents |-> "PENDING"]

Current(i) == IF i \in Intents THEN states[i] ELSE "PENDING"

\* Mutant of Transition: no check of the current state.
UnguardedTransition(i, expect, next) == states' = [states EXCEPT ![i] = next]

(* An illegal or outdated transition changes nothing; the caller is told,  *)
(* but the only caller ignores the answer.                                 *)
Transition(i, expect, next) ==
    IF Current(i) = expect /\ next \in legalTransitions[Current(i)]
    THEN states' = [states EXCEPT ![i] = next]
    ELSE UNCHANGED states

Forcibly(i, next) == states' = [states EXCEPT ![i] = next]
=============================================================================
