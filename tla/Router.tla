------------------------------- MODULE Router -------------------------------
(***************************************************************************)
(* Router.Admit and Router.GovernAndExecute (router.go), run by one        *)
(* goroutine per HTTP request over the shared ledger, override store and   *)
(* execution state.  Each of those takes its own mutex for each call, so a *)
(* request is a sequence of steps, one per locked section, between which   *)
(* any other handler may run.  Code between two locked sections that reads *)
(* no shared state belongs to the step before or after it.                 *)
(***************************************************************************)
EXTENDS Governance, Ledger, ExecutionState, InterruptStore

CONSTANTS
    Threads,    \* request-handling goroutines, one request each
    Requests    \* the decoded CapabilityRequests that may arrive

VARIABLES
    pc,       \* where each goroutine is
    via,      \* its endpoint: "route" (Admit) or "workflow" (GovernAndExecute)
    req,      \* its request
    out,      \* the AdmissionOutcome and error it returns
    gen,      \* its Generate goroutine: "none", "running", or "returned"
    expect,   \* the state GovernAndExecute read before it calls Transition
    drift,    \* GRE1001.driftOverride, in hundredths
    barred,   \* history: what stood against the request when it was called
    inflight  \* history: ... and which overrides when the in-flight re-check began

historyVars == <<barred, inflight>>
threadVars  == <<pc, via, req, out, gen, expect, historyVars>>
routerVars  == <<ledgerVars, states, interruptVars, threadVars, drift>>

Admission == {"verify", "terminated", "interrupted", "gre", "gre.terminated",
              "gre.interrupted", "gre.correction", "provider", "reterminated",
              "reinterrupted", "force", "write"}
Execution == {"final.terminated", "final.correction", "final.interrupted",
              "final.force", "current", "transition", "generate", "await", "execution"}
PCs == {"idle", "done"} \cup Admission \cup Execution

NoRequest == [requestID |-> "", tenant |-> "", lane |-> "", cap |-> Cap("", "", "", ""),
              intent |-> "", operator |-> "", provider |-> "", keyRef |-> "",
              payload |-> FALSE]

(* A decision of Admit has attempt 1, the denial of an execution attempt 2.*)
(* decID draws the nanosecond clock; ids are taken to be distinct.         *)
Answer(attempt, result, rule, err) ==
    [attempt |-> attempt, result |-> result, rule |-> rule, err |-> err]

NoAnswer == Answer(0, "", "", "")

Intent(t) == req[t].intent

RouterInit ==
    /\ pc = [t \in Threads |-> "idle"]
    /\ via = [t \in Threads |-> "route"]
    /\ req = [t \in Threads |-> NoRequest]
    /\ out = [t \in Threads |-> NoAnswer]
    /\ gen = [t \in Threads |-> "none"]
    /\ expect = [t \in Threads |-> "PENDING"]
    /\ barred = [t \in Threads |-> {}]
    /\ inflight = [t \in Threads |-> {}]
    /\ drift = 0

Goto(t, label) == pc' = [pc EXCEPT ![t] = label]

(* The goroutine enters Admit, for itself or through GovernAndExecute. *)
Call(t, endpoint, r) ==
    /\ pc[t] = "idle"
    /\ Goto(t, "verify")
    /\ via' = [via EXCEPT ![t] = endpoint]
    /\ req' = [req EXCEPT ![t] = r]
    /\ barred' = [barred EXCEPT ![t] = Overrides(r.intent)
                      \cup (IF Verify THEN {} ELSE {"broken"})]
    /\ UNCHANGED <<ledgerVars, states, interruptVars, out, gen, expect, drift, inflight>>

(* One check: a refusal settles the answer. *)
Gate(t, at, refused, answer, refusedTo, passedTo) ==
    /\ pc[t] = at
    /\ IF refused THEN Goto(t, refusedTo) /\ out' = [out EXCEPT ![t] = answer]
                  ELSE Goto(t, passedTo)  /\ UNCHANGED out
    /\ UNCHANGED <<ledgerVars, states, interruptVars, via, req, gen, expect, drift, historyVars>>

Overridden(err) == Answer(1, "DENY", "Lambda.6", err)

-----------------------------------------------------------------------------
(* Admit. *)

\* Mutant of CheckLedger: the chain is not verified.
SkipLedger(t) == Gate(t, "verify", FALSE, NoAnswer, "write", "terminated")

CheckLedger(t) ==
    Gate(t, "verify", ~Verify, Answer(1, "DENY", "ledger.integrity", "ErrLedgerBreak"),
         "write", "terminated")

\* Mutant of CheckTerminated: refused without a decision.
RefuseUndecided(t) ==
    Gate(t, "terminated", IsTerminated(Intent(t)), NoAnswer, "force", "interrupted")

CheckTerminated(t) ==
    Gate(t, "terminated", IsTerminated(Intent(t)), Overridden("ErrTerminated"),
         "force", "interrupted")

\* Mutant of CheckInterrupted: left to stage 6 of GRE-1001.
SkipInterrupted(t) == Gate(t, "interrupted", FALSE, NoAnswer, "write", "gre")

CheckInterrupted(t) ==
    Gate(t, "interrupted", IsInterrupted(Intent(t)), Overridden("ErrInterrupted"),
         "write", "gre")

GREGates(t) ==
    LET verdict == StagesToDrift(req[t], drift)
    IN  Gate(t, "gre", verdict # Passed, Answer(1, "DENY", verdict, ""),
             "write", "gre.terminated")

GRETerminated(t) ==
    Gate(t, "gre.terminated", IsTerminated(Intent(t)), Overridden(""),
         "write", "gre.interrupted")

GREInterrupted(t) ==
    Gate(t, "gre.interrupted", IsInterrupted(Intent(t)), Overridden(""),
         "write", "gre.correction")

\* Mutant of GRECorrection: corrections do not stop the pipeline.
SkipCorrection(t) == Gate(t, "gre.correction", FALSE, NoAnswer, "write", "provider")

GRECorrection(t) ==
    Gate(t, "gre.correction", Correction(Intent(t)), Overridden(""),
         "write", "provider")

(* The last GRE-1001 stages, the Immune Protocol and the provider gates. *)
ProviderGates(t) ==
    LET verdict == StagesAfterCorrigibility(req[t])
        gate    == ProviderGate(req[t])
        refusal == IF verdict # Passed THEN Answer(1, "DENY", verdict, "")
                                       ELSE Answer(1, gate.result, gate.rule, "")
    IN  Gate(t, "provider", refusal.result # "ADMIT", refusal, "write", "reterminated")

RecheckTerminated(t) ==
    /\ pc[t] = "reterminated"
    /\ IF IsTerminated(Intent(t))
       THEN Goto(t, "force") /\ out' = [out EXCEPT ![t] = Overridden("ErrTerminated")]
       ELSE Goto(t, "reinterrupted") /\ UNCHANGED out
    /\ inflight' = [inflight EXCEPT ![t] = Overrides(Intent(t))]
    /\ UNCHANGED <<ledgerVars, states, interruptVars, via, req, gen, expect, drift, barred>>

\* Mutant of RecheckInterrupted: admitted without the second look.
AdmitUnchecked(t) ==
    Gate(t, "reinterrupted", TRUE, Answer(1, "ADMIT", "usl.gate", ""), "write", "force")

(* Past this check the request is admitted; corrections are not re-checked.*)
RecheckInterrupted(t) ==
    /\ pc[t] = "reinterrupted"
    /\ IF IsInterrupted(Intent(t))
       THEN Goto(t, "force") /\ out' = [out EXCEPT ![t] = Overridden("ErrInterrupted")]
       ELSE Goto(t, "write") /\ out' = [out EXCEPT ![t] = Answer(1, "ADMIT", "usl.gate", "")]
    /\ UNCHANGED <<ledgerVars, states, interruptVars, via, req, gen, expect, drift, historyVars>>

ForcedState(t) == IF out[t].err = "ErrTerminated" THEN "TERMINATED" ELSE "HALTED"

ForceState(t) ==
    /\ pc[t] = "force"
    /\ Forcibly(Intent(t), ForcedState(t))
    /\ Goto(t, "write")
    /\ UNCHANGED <<ledgerVars, interruptVars, via, req, out, gen, expect, drift, historyVars>>

DecisionBody(t) ==
    [id |-> <<t, out[t].attempt>>, kind |-> "decision", intent |-> Intent(t),
     result |-> out[t].result, rule |-> out[t].rule]

(* Every decision is written before it is answered; GovernAndExecute goes  *)
(* on with an admitted one.                                                *)
WriteDecision(t) ==
    /\ pc[t] = "write"
    /\ AppendEntry(DecisionBody(t))
    /\ Goto(t, IF via[t] = "workflow" /\ out[t].result = "ADMIT"
               THEN "final.terminated" ELSE "done")
    /\ UNCHANGED <<states, interruptVars, via, req, out, gen, expect, drift, historyVars>>

-----------------------------------------------------------------------------
(* GovernAndExecute after Admit. *)

FinalTerminated(t) ==
    Gate(t, "final.terminated", IsTerminated(Intent(t)),
         [out[t] EXCEPT !.err = "ErrTerminated"], "final.force", "final.correction")

\* Mutant of FinalCorrection: the final check looks at interrupts only.
SkipFinalCorrection(t) ==
    Gate(t, "final.correction", FALSE, NoAnswer, "final.force", "final.interrupted")

FinalCorrection(t) ==
    Gate(t, "final.correction", Correction(Intent(t)),
         [out[t] EXCEPT !.err = "ErrInterrupted"], "final.force", "final.interrupted")

FinalInterrupted(t) ==
    Gate(t, "final.interrupted", IsInterrupted(Intent(t)),
         [out[t] EXCEPT !.err = "ErrInterrupted"], "final.force", "current")

(* The answer keeps the ADMIT decision, and nothing is written. *)
FinalForce(t) ==
    /\ pc[t] = "final.force"
    /\ Forcibly(Intent(t), ForcedState(t))
    /\ Goto(t, "done")
    /\ UNCHANGED <<ledgerVars, interruptVars, via, req, out, gen, expect, drift, historyVars>>

ReadCurrent(t) ==
    /\ pc[t] = "current"
    /\ expect' = [expect EXCEPT ![t] = Current(Intent(t))]
    /\ Goto(t, "transition")
    /\ UNCHANGED <<ledgerVars, states, interruptVars, via, req, out, gen, drift, historyVars>>

TransitionToRunning(t) ==
    /\ pc[t] = "transition"
    /\ Transition(Intent(t), expect[t], "RUNNING")
    /\ Goto(t, "generate")
    /\ UNCHANGED <<ledgerVars, interruptVars, via, req, out, gen, expect, drift, historyVars>>

(* boundedGenerate: the adapter runs in a goroutine of its own ... *)
StartGenerate(t) ==
    /\ pc[t] = "generate"
    /\ gen' = [gen EXCEPT ![t] = "running"]
    /\ Goto(t, "await")
    /\ UNCHANGED <<ledgerVars, states, interruptVars, via, req, out, expect, drift, historyVars>>

(* ... whose result is buffered, whether or not anyone still waits. *)
ProviderReturns(t) ==
    /\ gen[t] = "running"
    /\ gen' = [gen EXCEPT ![t] = "returned"]
    /\ UNCHANGED <<ledgerVars, states, interruptVars, pc, via, req, out, expect, drift, historyVars>>

ExecutionDenied == Answer(2, "DENY", "provider.execution", "")

Receive(t) ==
    /\ gen[t] = "returned"
    /\ Gate(t, "await", Generate(req[t]) = "err", ExecutionDenied, "write", "execution")

\* Mutants of TimeOut: no deadline; a timeout that is not recorded.
NoTimeOut(t) == FALSE
UnledgeredTimeOut(t) == Gate(t, "await", TRUE, ExecutionDenied, "done", "execution")

(* The deadline may pass at any moment, with or without a result at hand. *)
TimeOut(t) == Gate(t, "await", TRUE, ExecutionDenied, "write", "execution")

\* Mutant of ExecutionBody: a decision id of its own.
FreshExecutionBody(t) ==
    [id |-> <<t, 2>>, kind |-> "execution", intent |-> Intent(t),
     result |-> "ADMIT", rule |-> "provider.execution"]

ExecutionBody(t) ==
    [id |-> <<t, out[t].attempt>>, kind |-> "execution", intent |-> Intent(t),
     result |-> "ADMIT", rule |-> "provider.execution"]

WriteExecution(t) ==
    /\ pc[t] = "execution"
    /\ AppendEntry(ExecutionBody(t))
    /\ Goto(t, "done")
    /\ UNCHANGED <<states, interruptVars, via, req, out, gen, expect, drift, historyVars>>

(* GRE1001.SteerDrift. *)
SteerDrift(v) ==
    /\ drift' = v
    /\ UNCHANGED <<ledgerVars, states, interruptVars, threadVars>>

(* One step of a request's goroutine. *)
ThreadStep(t) ==
    \/ CheckLedger(t)     \/ CheckTerminated(t)   \/ CheckInterrupted(t)
    \/ GREGates(t)        \/ GRETerminated(t)     \/ GREInterrupted(t)
    \/ GRECorrection(t)   \/ ProviderGates(t)     \/ RecheckTerminated(t)
    \/ RecheckInterrupted(t) \/ ForceState(t)     \/ WriteDecision(t)
    \/ FinalTerminated(t) \/ FinalCorrection(t)   \/ FinalInterrupted(t)
    \/ FinalForce(t)      \/ ReadCurrent(t)       \/ TransitionToRunning(t)
    \/ StartGenerate(t)   \/ Receive(t)           \/ TimeOut(t)
    \/ WriteExecution(t)
=============================================================================
