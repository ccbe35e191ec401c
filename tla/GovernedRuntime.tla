-------------------------- MODULE GovernedRuntime ---------------------------
(***************************************************************************)
(* The abstract specification of the governed runtime: the life of a       *)
(* request, requested -> admitted -> executing -> completed with -> halted *)
(* from every state (docs/GOVERNANCE-CONTRACT.md), and the audit trail,    *)
(* one atomic step per transition.  It says when a request may advance and *)
(* what must be on record when it does; it knows nothing of gates, locks,  *)
(* stores, adapters or timeouts.                                           *)
(***************************************************************************)
EXTENDS Naturals, Sequences

CONSTANTS
    Agents,     \* requests
    Sovereigns, \* operator calls
    Subjects    \* intents

VARIABLES
    phase,    \* the phase of each request
    subject,  \* the intent it is about
    blocked,  \* it was requested when its intent was already overridden
    trail     \* the audit trail: records [what, by, subject]

abstractVars == <<phase, subject, blocked, trail>>

Phases == {"idle", "requested", "admitted", "executing", "completed", "halted"}

Entry(what, by, s) == [what |-> what, by |-> by, subject |-> s]

OnRecord(what, by, s) == trail' = Append(trail, Entry(what, by, s))

OverriddenBefore(n, s) ==
    \E k \in 1..(n - 1) : trail[k].what = "override" /\ trail[k].subject = s

AbstractInit ==
    /\ phase = [a \in Agents |-> "idle"]
    /\ subject = [a \in Agents |-> ""]
    /\ blocked = [a \in Agents |-> FALSE]
    /\ trail = << >>

Advance(a, from, to) == phase[a] = from /\ phase' = [phase EXCEPT ![a] = to]

(* An override on record blocks every later request for its intent; one    *)
(* that is not yet on record may.                                          *)
BeginRequest(a) ==
    /\ Advance(a, "idle", "requested")
    /\ \E s \in Subjects \cup {""}, b \in BOOLEAN :
          /\ OverriddenBefore(Len(trail) + 1, s) => b
          /\ subject' = [subject EXCEPT ![a] = s]
          /\ blocked' = [blocked EXCEPT ![a] = b]
    /\ UNCHANGED trail

(* Only an unblocked request is admitted, on the record. *)
AdmitRequest(a) ==
    /\ Advance(a, "requested", "admitted")
    /\ ~blocked[a]
    /\ OnRecord("admit", a, subject[a])
    /\ UNCHANGED <<subject, blocked>>

(* The provider is called only if no override was on record before the     *)
(* request was admitted.                                                   *)
BeginExecution(a) ==
    /\ Advance(a, "admitted", "executing")
    /\ \A n \in 1..Len(trail) :
          trail[n] = Entry("admit", a, subject[a]) => ~OverriddenBefore(n, subject[a])
    /\ UNCHANGED <<subject, blocked, trail>>

Complete(a) ==
    /\ Advance(a, "executing", "completed")
    /\ OnRecord("result", a, subject[a])
    /\ UNCHANGED <<subject, blocked>>

(* A refusal, and a failed execution, are on the record. *)
Refuse(a) ==
    /\ \E from \in {"requested", "executing"} : Advance(a, from, "halted")
    /\ OnRecord("refuse", a, subject[a])
    /\ UNCHANGED <<subject, blocked>>

(* An admitted request is withdrawn before it is executed. *)
Withdraw(a) ==
    /\ Advance(a, "admitted", "halted")
    /\ UNCHANGED <<subject, blocked, trail>>

OverrideSubject(o) ==
    /\ \E s \in Subjects : OnRecord("override", o, s)
    /\ UNCHANGED <<phase, subject, blocked>>

AbstractNext ==
    \/ \E a \in Agents :
          \/ BeginRequest(a) \/ AdmitRequest(a) \/ BeginExecution(a)
          \/ Complete(a)     \/ Refuse(a)       \/ Withdraw(a)
    \/ \E o \in Sovereigns : OverrideSubject(o)

AbstractSpec == AbstractInit /\ [][AbstractNext]_abstractVars
=============================================================================
