------------------------------- MODULE Server -------------------------------
(***************************************************************************)
(* The router service: the HTTP handlers of muxRouter (server.go, auth.go, *)
(* workflows.go and the router part of modes.go) around module Router.     *)
(* net/http runs every request in a goroutine of its own, so /route,       *)
(* /workflow, /interrupt, /correct and /terminate interleave freely.       *)
(* GET /ledger and GET /verify only read the ledger, in one locked step.   *)
(***************************************************************************)
EXTENDS Router, OperatorAuth

CONSTANTS
    Operators,         \* goroutines that serve the operator endpoints
    OperatorRequests,  \* the operator calls that may arrive
    Workflows,         \* workflow names that may be asked for
    DriftScores        \* scores SteerDrift may set, in hundredths

(* What the JSON decoder can produce; intent ids outside Intents do not    *)
(* differ from those inside.                                               *)
CapabilityRequests ==
    [requestID : STRING, tenant : STRING, lane : STRING,
     cap : [class : STRING, scope : STRING, action : STRING, risk : STRING],
     intent : Intents \cup {""}, operator : STRING, provider : STRING,
     keyRef : STRING, payload : BOOLEAN]

ASSUME RequestsAssumption ==
    /\ Requests \subseteq CapabilityRequests
    /\ OperatorRequests \subseteq
           [kind : {"interrupt", "correct", "terminate"}, intent : Intents \cup {""},
            operator : STRING, directive : STRING,
            header : [scheme : STRING, value : STRING]]
    /\ DriftScores \subseteq Nat

VARIABLES
    opc,    \* where each operator handler is
    oreq    \* its request: [kind, intent, operator, directive, header]

operatorVars == <<opc, oreq>>
vars == <<routerVars, operatorVars>>

OverrideKinds == {"interrupt", "correct", "terminate"}
OperatorPCs == {"idle", "unauthorized", "badRequest", "flag", "force", "ledger", "done"}

NoOverride == [kind |-> "interrupt", intent |-> "", operator |-> "", directive |-> "",
               header |-> [scheme |-> "", value |-> ""]]

Init ==
    /\ LedgerInit
    /\ ExecutionInit
    /\ InterruptInit
    /\ RouterInit
    /\ opc = [o \in Operators |-> "idle"]
    /\ oreq = [o \in Operators |-> NoOverride]

-----------------------------------------------------------------------------
(* /route and /workflow. *)

(* A call that never reaches the router: wrong method ("method"),          *)
(* unreadable or undecodable body ("malformed"), or a workflow the service *)
(* refuses.                                                                *)
Turned(t, endpoint, err) ==
    /\ pc[t] = "idle"
    /\ Goto(t, "done")
    /\ via' = [via EXCEPT ![t] = endpoint]
    /\ out' = [out EXCEPT ![t] = Answer(0, "", "", err)]
    /\ UNCHANGED <<ledgerVars, states, interruptVars, req, gen, expect, drift,
                   historyVars, operatorVars>>

RejectMalformed(t) ==
    \E endpoint \in {"route", "workflow"}, err \in {"method", "malformed"} :
        Turned(t, endpoint, err)

RouteHandler(t) ==
    \E r \in Requests : Call(t, "route", r) /\ UNCHANGED operatorVars

(* WorkflowService.Run, behind workflowHandler. *)
RunWorkflow(t) ==
    \E w \in Workflows, r \in Requests :
        IF WorkflowAllows(w, r)
        THEN Call(t, "workflow", BindWorkflow(w, r)) /\ UNCHANGED operatorVars
        ELSE Turned(t, "workflow", "ErrWorkflow")

(* The HTTP status both handlers derive from the outcome and the error. *)
Status(t) ==
    IF out[t].err = "method"                               THEN 405
    ELSE IF out[t].err = "malformed"                       THEN 400
    ELSE IF out[t].err \in {"ErrInterrupted", "ErrTerminated"} THEN 409
    ELSE IF out[t].result \in {"DENY", "QUARANTINE"}       THEN 403
    ELSE 200

-----------------------------------------------------------------------------
(* /interrupt, /correct and /terminate. *)

WellFormed(r) ==
    /\ r.intent # ""
    /\ r.operator # ""
    /\ r.kind = "correct" => r.directive # ""

OperatorHandler(o) ==
    /\ opc[o] = "idle"
    /\ \E r \in OperatorRequests :
        /\ oreq' = [oreq EXCEPT ![o] = r]
        /\ opc' = [opc EXCEPT ![o] = IF ~Authorized(r.header) THEN "unauthorized"
                                     ELSE IF ~WellFormed(r)   THEN "badRequest"
                                     ELSE "flag"]
    /\ UNCHANGED routerVars

StoreOverride(o) ==
    /\ opc[o] = "flag"
    /\ \/ oreq[o].kind = "interrupt" /\ Interrupt(oreq[o].intent)
       \/ oreq[o].kind = "correct"   /\ Correct(oreq[o].intent)
       \/ oreq[o].kind = "terminate" /\ Terminate(oreq[o].intent)
    /\ opc' = [opc EXCEPT ![o] = "force"]
    /\ UNCHANGED <<ledgerVars, states, threadVars, drift, oreq>>

ForceOverride(o) ==
    /\ opc[o] = "force"
    /\ Forcibly(oreq[o].intent, IF oreq[o].kind = "terminate" THEN "TERMINATED" ELSE "HALTED")
    /\ opc' = [opc EXCEPT ![o] = "ledger"]
    /\ UNCHANGED <<ledgerVars, interruptVars, threadVars, drift, oreq>>

OverrideBody(o) ==
    [id |-> <<o, 0>>, kind |-> oreq[o].kind, intent |-> oreq[o].intent,
     result |-> "DENY", rule |-> "Lambda.6"]

\* Mutant of operatorLedger: answered without an entry.
UnledgeredOverride(o) ==
    /\ opc[o] = "ledger"
    /\ opc' = [opc EXCEPT ![o] = "done"]
    /\ UNCHANGED <<ledgerVars, states, interruptVars, threadVars, drift, oreq>>

operatorLedger(o) ==
    /\ opc[o] = "ledger"
    /\ AppendEntry(OverrideBody(o))
    /\ opc' = [opc EXCEPT ![o] = "done"]
    /\ UNCHANGED <<states, interruptVars, threadVars, drift, oreq>>

OperatorStep(o) == StoreOverride(o) \/ ForceOverride(o) \/ operatorLedger(o)

-----------------------------------------------------------------------------

Answered ==
    /\ \A t \in Threads : pc[t] = "done" /\ gen[t] # "running"
    /\ \A o \in Operators : opc[o] \in {"done", "unauthorized", "badRequest"}

(* Every bounded call has been served; the service waits for more. *)
Quiescent == Answered /\ UNCHANGED vars

RequestStep(t) == ThreadStep(t) /\ UNCHANGED operatorVars

Next ==
    \/ \E t \in Threads : RejectMalformed(t) \/ RouteHandler(t) \/ RunWorkflow(t)
    \/ \E t \in Threads : RequestStep(t)
    \/ \E t \in Threads : ProviderReturns(t) /\ UNCHANGED operatorVars
    \/ \E o \in Operators : OperatorHandler(o) \/ OperatorStep(o)
    \/ \E v \in DriftScores : SteerDrift(v) /\ UNCHANGED operatorVars
    \/ Quiescent

Spec == Init /\ [][Next]_vars

(* Goroutines are scheduled and time.After fires; no client, operator or   *)
(* provider need ever act.                                                 *)
Fairness ==
    /\ \A t \in Threads : WF_vars(RequestStep(t))
    /\ \A o \in Operators : WF_vars(OperatorStep(o))

(* The service over a ledger whose memory one of the tests' faults has     *)
(* corrupted, at any moment.                                               *)
Faulty ==
    \E i \in 1..Len(entries) :
        entries[i].body.kind = "forged" \/ entries[i].hash = <<"tampered">>

Fault ==
    /\ ~Faulty
    /\ \/ Forge([id |-> <<"forged", 0>>, kind |-> "forged", intent |-> "forged",
                 result |-> "", rule |-> ""])
       \/ \E i \in 1..Len(entries) : Tamper(i)
    /\ UNCHANGED <<states, interruptVars, threadVars, drift, operatorVars>>

FaultSpec == Init /\ [][Next \/ Fault]_vars

FairFaultSpec == FaultSpec /\ Fairness
=============================================================================
