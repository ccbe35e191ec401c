----------------------------- MODULE ServerChain -----------------------------
(***************************************************************************)
(* The router service's types and its ledger, for any number of requests   *)
(* and operator calls.                                                     *)
(*                                                                         *)
(* TypeOK alone is not inductive: a ledger entry has a decision's result   *)
(* and rule only because the goroutine that writes it has settled its      *)
(* answer, and the override store holds intent ids only because the        *)
(* handlers refuse an empty one.                                           *)
(*                                                                         *)
(* Every step of the service either leaves the ledger alone or appends one *)
(* well-formed entry, and so the chain never breaks and never loses an     *)
(* entry.  Where a fault has broken it, it stays broken and requests are   *)
(* refused.                                                                *)
(***************************************************************************)
EXTENDS ServerProperties, TLAPS

(* Where a goroutine has a decision in hand. *)
Decided == {"write", "force"} \cup Execution

(* A goroutine that is about to write or execute has a decision to write   *)
(* or execute under.                                                       *)
DecidedAnswers == \A t \in Threads : pc[t] \in Decided => out[t] \in Decisions

(* An accepted operator call names an intent. *)
AcceptedNamesIntent ==
    \A o \in Operators : opc[o] \in {"flag", "force", "ledger", "done"} =>
        oreq[o] \in OperatorRequests /\ oreq[o].intent \in Intents

TypeInv == TypeOK /\ DecidedAnswers /\ AcceptedNamesIntent

-----------------------------------------------------------------------------
(* What the operators the model is built from return. *)

LEMMA AnswerType ==
  ASSUME NEW n \in {1, 2}, NEW result \in AdmitResults, NEW rule \in Rules, NEW err \in Errors
  PROVE  Answer(n, result, rule, err) \in Decisions
BY DEF Answer, Decisions

LEMMA DecisionIsAnswer ==
  ASSUME NEW d \in Decisions
  PROVE  d \in Answers
BY DEF Decisions, Answers

LEMMA TurnedType ==
  ASSUME NEW err \in Errors
  PROVE  Answer(0, "", "", err) \in Answers
BY DEF Answer, Answers

(* Every gate answers Passed or a rule reference. *)
LEMMA StagesToDriftType ==
  ASSUME NEW r, NEW d
  PROVE  StagesToDrift(r, d) \in Rules \cup {Passed}
<1>1. stageInputValidation(r) \in Rules \cup {Passed}
  BY DEF stageInputValidation, Rules, Passed
<1>2. stageCapabilityCheck(r) \in Rules \cup {Passed}
  BY DEF stageCapabilityCheck, Rules, Passed
<1>3. checkLambda4(r) \in Rules \cup {Passed}
  BY DEF checkLambda4, Rules, Passed
<1>4. USLCheck(TRUE, r) \in Rules \cup {Passed}
  BY DEF USLCheck, Rules, Passed
<1>5. stageDriftCheck(d) \in Rules \cup {Passed}
  BY DEF stageDriftCheck, Rules, Passed
<1>6. QED
  BY <1>1, <1>2, <1>3, <1>4, <1>5 DEF StagesToDrift, Then

LEMMA StagesAfterCorrigibilityType ==
  ASSUME NEW r
  PROVE  StagesAfterCorrigibility(r) \in Rules \cup {Passed}
BY DEF StagesAfterCorrigibility, stageAuditTrail, stageLedgerWrite, Then, Rules, Passed

LEMMA ProviderGateType ==
  ASSUME NEW r
  PROVE  ProviderGate(r).result \in AdmitResults /\ ProviderGate(r).rule \in Rules
BY DEF ProviderGate, AdmitResults, Rules

LEMMA OverridesType ==
  ASSUME NEW i
  PROVE  Overrides(i) \in SUBSET OverrideKinds
BY DEF Overrides, OverrideKinds

(* Whatever reaches the router names a known intent or none. *)
LEMMA CallIntent ==
  ASSUME NEW c \in Calls
  PROVE  c.intent \in Intents \cup {""}
<1>1. CASE c \in Requests
  BY <1>1, RequestsAssumption DEF CapabilityRequests
<1>2. ASSUME NEW w \in WorkflowIDs, NEW r \in Requests, c = BindWorkflow(w, r)
      PROVE  c.intent \in Intents \cup {""}
  <2>1. ASSUME NEW cap
        PROVE  [r EXCEPT !.cap = cap].intent \in Intents \cup {""}
    BY RequestsAssumption DEF CapabilityRequests
  <2>2. QED
    BY <2>1, <1>2 DEF BindWorkflow
<1>3. CASE c = NoRequest
  BY <1>3 DEF NoRequest
<1>4. \/ c \in Requests
      \/ \E w \in WorkflowIDs, r \in Requests : c = BindWorkflow(w, r)
      \/ c = NoRequest
  BY DEF Calls, BoundCalls
<1>5. QED
  BY <1>1, <1>2, <1>3, <1>4

-----------------------------------------------------------------------------
(* What the steps shared by several actions preserve. *)

LEMMA AppendType ==
  ASSUME entries \in Seq(Entries), lastHash \in Hashes, nextIdx \in Nat,
         NEW b \in Bodies, AppendEntry(b)
  PROVE  entries' \in Seq(Entries) /\ lastHash' \in Hashes /\ nextIdx' \in Nat
<1>1. hashEntry(nextIdx, b) \in Hashes
  BY DEF hashEntry, Hashes
<1>2. NextEntry(b) \in Entries
  BY <1>1 DEF NextEntry, Entries
<1>3. NextEntry(b).hash = hashEntry(nextIdx, b)
  BY DEF NextEntry
<1>4. QED
  BY <1>1, <1>2, <1>3 DEF AppendEntry

LEMMA DecisionBodyType ==
  ASSUME TypeOK, NEW t \in Threads, out[t] \in Decisions
  PROVE  DecisionBody(t) \in Bodies
<1>1. req[t] \in Calls
  BY DEF TypeOK
<1>2. Intent(t) \in Intents \cup {""}
  BY <1>1, CallIntent DEF Intent
<1>3. <<t, out[t].attempt>> \in Ids
  BY DEF Ids, Decisions
<1>4. QED
  BY <1>2, <1>3 DEF DecisionBody, Bodies, Decisions

LEMMA ExecutionBodyType ==
  ASSUME TypeOK, NEW t \in Threads, out[t] \in Decisions
  PROVE  ExecutionBody(t) \in Bodies
<1>1. req[t] \in Calls
  BY DEF TypeOK
<1>2. Intent(t) \in Intents \cup {""}
  BY <1>1, CallIntent DEF Intent
<1>3. <<t, out[t].attempt>> \in Ids
  BY DEF Ids, Decisions
<1>4. QED
  BY <1>2, <1>3 DEF ExecutionBody, Bodies, AdmitResults, Rules

LEMMA OverrideBodyType ==
  ASSUME TypeInv, NEW o \in Operators, opc[o] = "ledger"
  PROVE  OverrideBody(o) \in Bodies
<1>1. oreq[o] \in OperatorRequests /\ oreq[o].intent \in Intents
  BY DEF TypeInv, AcceptedNamesIntent
<1>2. oreq[o].kind \in OverrideKinds
  BY <1>1, RequestsAssumption DEF OverrideKinds
<1>3. <<o, 0>> \in Ids
  BY DEF Ids
<1>4. QED
  BY <1>1, <1>2, <1>3 DEF OverrideBody, Bodies, AdmitResults, Rules

(* A gate keeps the types if it refuses with a decision, and passes on to  *)
(* one who needs a decision only a goroutine that has one.                 *)
LEMMA GateType ==
  ASSUME TypeInv, NEW t \in Threads, NEW at, NEW refused, NEW answer,
         NEW refusedTo \in PCs, NEW passedTo \in PCs,
         Gate(t, at, refused, answer, refusedTo, passedTo), UNCHANGED operatorVars,
         refused => answer \in Decisions,
         passedTo \in Decided => at \in Decided
  PROVE  TypeInv'
<1> USE DEF TypeInv
<1>1. pc' \in [Threads -> PCs] /\ out' \in [Threads -> Answers]
  <2>1. CASE refused
    BY <2>1, DecisionIsAnswer DEF Gate, Goto, TypeOK
  <2>2. CASE ~refused
    BY <2>2 DEF Gate, Goto, TypeOK
  <2>3. QED
    BY <2>1, <2>2
<1>2. TypeOK'
  BY <1>1 DEF Gate, TypeOK, ledgerVars, interruptVars, historyVars, operatorVars
<1>3. DecidedAnswers'
  BY DEF Gate, Goto, TypeOK, DecidedAnswers
<1>4. AcceptedNamesIntent'
  BY DEF AcceptedNamesIntent, operatorVars
<1>5. QED
  BY <1>2, <1>3, <1>4

LEMMA OverriddenType ==
  ASSUME NEW err \in Errors
  PROVE  Overridden(err) \in Decisions
BY AnswerType DEF Overridden, AdmitResults, Rules

LEMMA ExecutionDeniedType == ExecutionDenied \in Decisions
BY AnswerType DEF ExecutionDenied, AdmitResults, Rules, Errors

-----------------------------------------------------------------------------
(* Each action preserves TypeInv. *)

LEMMA AdmitGatesType ==
  ASSUME TypeInv, NEW t \in Threads, UNCHANGED operatorVars,
         \/ CheckLedger(t)   \/ CheckTerminated(t) \/ CheckInterrupted(t)
         \/ GREGates(t)      \/ GRETerminated(t)   \/ GREInterrupted(t)
         \/ GRECorrection(t) \/ ProviderGates(t)
  PROVE  TypeInv'
<1> USE DEF PCs, Admission, Decided, Execution
<1>1. "" \in Errors /\ "ErrTerminated" \in Errors /\ "ErrInterrupted" \in Errors
  BY DEF Errors
<1>2. CASE CheckLedger(t)
  <2>1. Answer(1, "DENY", "ledger.integrity", "ErrLedgerBreak") \in Decisions
    BY AnswerType DEF AdmitResults, Rules, Errors
  <2>2. QED
    BY <1>2, <2>1, GateType DEF CheckLedger
<1>3. CASE CheckTerminated(t)
  BY <1>1, <1>3, OverriddenType, GateType DEF CheckTerminated
<1>4. CASE CheckInterrupted(t)
  BY <1>1, <1>4, OverriddenType, GateType DEF CheckInterrupted
<1>5. CASE GRETerminated(t)
  BY <1>1, <1>5, OverriddenType, GateType DEF GRETerminated
<1>6. CASE GREInterrupted(t)
  BY <1>1, <1>6, OverriddenType, GateType DEF GREInterrupted
<1>7. CASE GRECorrection(t)
  BY <1>1, <1>7, OverriddenType, GateType DEF GRECorrection
<1>8. CASE GREGates(t)
  <2> DEFINE verdict == StagesToDrift(req[t], drift)
  <2>1. verdict # Passed => Answer(1, "DENY", verdict, "") \in Decisions
    <3>1. verdict \in Rules \cup {Passed}
      BY StagesToDriftType
    <3>2. QED
      BY <3>1, AnswerType DEF AdmitResults, Errors
  <2>2. Gate(t, "gre", verdict # Passed, Answer(1, "DENY", verdict, ""), "write", "gre.terminated")
    BY <1>8 DEF GREGates
  <2> HIDE DEF verdict
  <2>3. QED
    BY <2>1, <2>2, GateType
<1>9. CASE ProviderGates(t)
  <2> DEFINE verdict == StagesAfterCorrigibility(req[t])
             gate    == ProviderGate(req[t])
             refusal == IF verdict # Passed THEN Answer(1, "DENY", verdict, "")
                                            ELSE Answer(1, gate.result, gate.rule, "")
  <2>1. refusal \in Decisions
    <3>1. verdict \in Rules \cup {Passed}
      BY StagesAfterCorrigibilityType
    <3>2. gate.result \in AdmitResults /\ gate.rule \in Rules
      BY ProviderGateType
    <3>3. Answer(1, gate.result, gate.rule, "") \in Decisions
      BY <3>2, AnswerType DEF Errors
    <3>4. verdict # Passed => Answer(1, "DENY", verdict, "") \in Decisions
      BY <3>1, AnswerType DEF AdmitResults, Errors
    <3>5. QED
      BY <3>3, <3>4
  <2>2. Gate(t, "provider", refusal.result # "ADMIT", refusal, "write", "reterminated")
    BY <1>9 DEF ProviderGates
  <2> HIDE DEF refusal
  <2>3. QED
    BY <2>1, <2>2, GateType
<1>10. QED
  BY <1>2, <1>3, <1>4, <1>5, <1>6, <1>7, <1>8, <1>9

LEMMA RecheckType ==
  ASSUME TypeInv, NEW t \in Threads, UNCHANGED operatorVars,
         RecheckTerminated(t) \/ RecheckInterrupted(t)
  PROVE  TypeInv'
<1> USE DEF TypeInv
<1>1. /\ Overridden("ErrTerminated") \in Decisions
      /\ Overridden("ErrInterrupted") \in Decisions
      /\ Answer(1, "ADMIT", "usl.gate", "") \in Decisions
  BY OverriddenType, AnswerType DEF AdmitResults, Rules, Errors
<1>2. out' \in [Threads -> Answers]
  BY <1>1, DecisionIsAnswer DEF RecheckTerminated, RecheckInterrupted, TypeOK
<1>3. pc' \in [Threads -> PCs]
  BY DEF RecheckTerminated, RecheckInterrupted, Goto, TypeOK, PCs, Admission
<1>4. inflight' \in [Threads -> SUBSET OverrideKinds]
  <2>1. Overrides(Intent(t)) \in SUBSET OverrideKinds
    BY OverridesType
  <2>2. CASE RecheckTerminated(t)
    BY <2>1, <2>2 DEF RecheckTerminated, TypeOK
  <2>3. CASE RecheckInterrupted(t)
    BY <2>3 DEF RecheckInterrupted, TypeOK, historyVars
  <2>4. QED
    BY <2>2, <2>3
<1>5. TypeOK'
  BY <1>2, <1>3, <1>4 DEF RecheckTerminated, RecheckInterrupted, TypeOK, ledgerVars,
     interruptVars, historyVars, operatorVars
<1>6. DecidedAnswers'
  BY <1>1 DEF RecheckTerminated, RecheckInterrupted, Goto, TypeOK, DecidedAnswers, Decided, Execution
<1>7. AcceptedNamesIntent'
  BY DEF AcceptedNamesIntent, operatorVars
<1>8. QED
  BY <1>5, <1>6, <1>7

LEMMA ForceType ==
  ASSUME TypeInv, NEW t \in Threads, UNCHANGED operatorVars, ForceState(t) \/ FinalForce(t)
  PROVE  TypeInv'
<1> USE DEF TypeInv
<1>1. states' \in [Intents -> ExecStates]
  BY DEF ForceState, FinalForce, Forcibly, ForcedState, TypeOK, ExecStates
<1>2. pc' \in [Threads -> PCs]
  BY DEF ForceState, FinalForce, Goto, TypeOK, PCs, Admission
<1>3. TypeOK'
  BY <1>1, <1>2 DEF ForceState, FinalForce, TypeOK, ledgerVars, interruptVars, historyVars, operatorVars
<1>4. DecidedAnswers'
  BY DEF ForceState, FinalForce, Goto, TypeOK, DecidedAnswers, Decided, Execution
<1>5. AcceptedNamesIntent'
  BY DEF AcceptedNamesIntent, operatorVars
<1>6. QED
  BY <1>3, <1>4, <1>5

LEMMA WriteType ==
  ASSUME TypeInv, NEW t \in Threads, UNCHANGED operatorVars, WriteDecision(t) \/ WriteExecution(t)
  PROVE  TypeInv'
<1> USE DEF TypeInv
<1>1. out[t] \in Decisions
  BY DEF WriteDecision, WriteExecution, DecidedAnswers, Decided, Execution
<1>2. PICK b \in Bodies : AppendEntry(b)
  BY <1>1, DecisionBodyType, ExecutionBodyType DEF WriteDecision, WriteExecution
<1>3. entries' \in Seq(Entries) /\ lastHash' \in Hashes /\ nextIdx' \in Nat
  BY <1>2, AppendType DEF TypeOK
<1>4. pc' \in [Threads -> PCs]
  BY DEF WriteDecision, WriteExecution, Goto, TypeOK, PCs, Execution
<1>5. TypeOK'
  BY <1>3, <1>4 DEF WriteDecision, WriteExecution, TypeOK, interruptVars, historyVars, operatorVars
<1>6. DecidedAnswers'
  BY <1>1 DEF WriteDecision, WriteExecution, Goto, TypeOK, DecidedAnswers
<1>7. AcceptedNamesIntent'
  BY DEF AcceptedNamesIntent, operatorVars
<1>8. QED
  BY <1>5, <1>6, <1>7

LEMMA FinalGatesType ==
  ASSUME TypeInv, NEW t \in Threads, UNCHANGED operatorVars,
         FinalTerminated(t) \/ FinalCorrection(t) \/ FinalInterrupted(t)
  PROVE  TypeInv'
<1>1. out[t] \in Decisions
  BY DEF FinalTerminated, FinalCorrection, FinalInterrupted, Gate, TypeInv, DecidedAnswers,
     Decided, Execution
<1>2. ASSUME NEW e \in Errors
      PROVE  [out[t] EXCEPT !.err = e] \in Decisions
  BY <1>1, <1>2 DEF Decisions
<1>3. "ErrTerminated" \in Errors /\ "ErrInterrupted" \in Errors
  BY DEF Errors
<1>4. CASE FinalTerminated(t)
  BY <1>2, <1>3, <1>4, GateType DEF FinalTerminated, PCs, Decided, Execution
<1>5. CASE FinalCorrection(t)
  BY <1>2, <1>3, <1>5, GateType DEF FinalCorrection, PCs, Decided, Execution
<1>6. CASE FinalInterrupted(t)
  BY <1>2, <1>3, <1>6, GateType DEF FinalInterrupted, PCs, Decided, Execution
<1>7. QED
  BY <1>4, <1>5, <1>6

LEMMA RunType ==
  ASSUME TypeInv, NEW t \in Threads, UNCHANGED operatorVars,
         ReadCurrent(t) \/ TransitionToRunning(t) \/ StartGenerate(t) \/ ProviderReturns(t)
  PROVE  TypeInv'
<1> USE DEF TypeInv
<1>1. expect' \in [Threads -> ExecStates]
  BY DEF ReadCurrent, TransitionToRunning, StartGenerate, ProviderReturns, Current, TypeOK, ExecStates
<1>2. states' \in [Intents -> ExecStates]
  BY DEF ReadCurrent, TransitionToRunning, StartGenerate, ProviderReturns, Transition, TypeOK, ExecStates
<1>3. gen' \in [Threads -> {"none", "running", "returned"}]
  BY DEF ReadCurrent, TransitionToRunning, StartGenerate, ProviderReturns, TypeOK
<1>4. pc' \in [Threads -> PCs]
  BY DEF ReadCurrent, TransitionToRunning, StartGenerate, ProviderReturns, Goto, TypeOK, PCs, Execution
<1>5. TypeOK'
  BY <1>1, <1>2, <1>3, <1>4 DEF ReadCurrent, TransitionToRunning, StartGenerate, ProviderReturns,
     TypeOK, ledgerVars, interruptVars, historyVars, operatorVars
<1>6. DecidedAnswers'
  BY DEF ReadCurrent, TransitionToRunning, StartGenerate, ProviderReturns, Goto, TypeOK,
     DecidedAnswers, Decided, Execution
<1>7. AcceptedNamesIntent'
  BY DEF AcceptedNamesIntent, operatorVars
<1>8. QED
  BY <1>5, <1>6, <1>7

LEMMA AwaitType ==
  ASSUME TypeInv, NEW t \in Threads, UNCHANGED operatorVars, Receive(t) \/ TimeOut(t)
  PROVE  TypeInv'
<1>1. PICK refused : Gate(t, "await", refused, ExecutionDenied, "write", "execution")
  BY DEF Receive, TimeOut
<1>2. QED
  BY <1>1, ExecutionDeniedType, GateType DEF PCs, Admission, Decided, Execution

LEMMA ThreadStepType ==
  ASSUME TypeInv, NEW t \in Threads, RequestStep(t)
  PROVE  TypeInv'
BY AdmitGatesType, RecheckType, ForceType, WriteType, FinalGatesType, RunType, AwaitType
   DEF RequestStep, ThreadStep

LEMMA CallType ==
  ASSUME TypeInv, NEW t \in Threads, NEW endpoint \in {"route", "workflow"}, NEW r \in Calls,
         Call(t, endpoint, r), UNCHANGED operatorVars
  PROVE  TypeInv'
<1> USE DEF TypeInv
<1>1. barred' \in [Threads -> SUBSET (OverrideKinds \cup {"broken"})]
  <2>1. Overrides(r.intent) \cup (IF Verify THEN {} ELSE {"broken"})
          \in SUBSET (OverrideKinds \cup {"broken"})
    BY OverridesType
  <2>2. QED
    BY <2>1 DEF Call, TypeOK
<1>2. /\ pc' \in [Threads -> PCs]
      /\ via' \in [Threads -> {"route", "workflow"}]
      /\ req' \in [Threads -> Calls]
  BY DEF Call, Goto, TypeOK, PCs, Admission
<1>3. TypeOK'
  BY <1>1, <1>2 DEF Call, TypeOK, ledgerVars, interruptVars, operatorVars
<1>4. DecidedAnswers'
  BY DEF Call, Goto, TypeOK, DecidedAnswers, Decided, Execution
<1>5. AcceptedNamesIntent'
  BY DEF AcceptedNamesIntent, operatorVars
<1>6. QED
  BY <1>3, <1>4, <1>5

LEMMA TurnedAwayType ==
  ASSUME TypeInv, NEW t \in Threads, NEW endpoint \in {"route", "workflow"}, NEW err \in Errors,
         Turned(t, endpoint, err)
  PROVE  TypeInv'
<1> USE DEF TypeInv
<1>1. /\ pc' \in [Threads -> PCs]
      /\ via' \in [Threads -> {"route", "workflow"}]
      /\ out' \in [Threads -> Answers]
  BY TurnedType DEF Turned, Goto, TypeOK, PCs
<1>2. TypeOK'
  BY <1>1 DEF Turned, TypeOK, ledgerVars, interruptVars, historyVars, operatorVars
<1>3. DecidedAnswers'
  BY DEF Turned, Goto, TypeOK, DecidedAnswers, Decided, Execution
<1>4. AcceptedNamesIntent'
  BY DEF Turned, AcceptedNamesIntent, operatorVars
<1>5. QED
  BY <1>2, <1>3, <1>4

LEMMA HandlerType ==
  ASSUME TypeInv, NEW t \in Threads, RejectMalformed(t) \/ RouteHandler(t) \/ RunWorkflow(t)
  PROVE  TypeInv'
<1>1. CASE RejectMalformed(t)
  BY <1>1, TurnedAwayType DEF RejectMalformed, Errors
<1>2. CASE RouteHandler(t)
  BY <1>2, CallType DEF RouteHandler, Calls
<1>3. CASE RunWorkflow(t)
  <2>1. PICK w \in Workflows, r \in Requests :
            IF WorkflowAllows(w, r)
            THEN Call(t, "workflow", BindWorkflow(w, r)) /\ UNCHANGED operatorVars
            ELSE Turned(t, "workflow", "ErrWorkflow")
    BY <1>3 DEF RunWorkflow
  <2>2. CASE WorkflowAllows(w, r)
    <3>1. BindWorkflow(w, r) \in Calls
      BY <2>2 DEF WorkflowAllows, Calls, BoundCalls
    <3>2. QED
      BY <2>1, <2>2, <3>1, CallType
  <2>3. CASE ~WorkflowAllows(w, r)
    BY <2>1, <2>3, TurnedAwayType DEF Errors
  <2>4. QED
    BY <2>2, <2>3
<1>4. QED
  BY <1>1, <1>2, <1>3

LEMMA OperatorType ==
  ASSUME TypeInv, NEW o \in Operators, OperatorHandler(o) \/ OperatorStep(o)
  PROVE  TypeInv'
<1> USE DEF TypeInv
<1>1. CASE OperatorHandler(o)
  <2>1. PICK r \in OperatorRequests :
          /\ oreq' = [oreq EXCEPT ![o] = r]
          /\ opc' = [opc EXCEPT ![o] = IF ~Authorized(r.header) THEN "unauthorized"
                                       ELSE IF ~WellFormed(r)   THEN "badRequest"
                                       ELSE "flag"]
    BY <1>1 DEF OperatorHandler
  <2>2. WellFormed(r) => r.intent \in Intents
    BY RequestsAssumption DEF WellFormed
  <2>3. TypeOK'
    BY <1>1, <2>1 DEF OperatorHandler, TypeOK, routerVars, threadVars, ledgerVars, interruptVars,
       historyVars, OperatorPCs
  <2>4. DecidedAnswers'
    BY <1>1 DEF OperatorHandler, DecidedAnswers, routerVars, threadVars
  <2>5. AcceptedNamesIntent'
    BY <2>1, <2>2 DEF AcceptedNamesIntent, TypeOK
  <2>6. QED
    BY <2>3, <2>4, <2>5
<1>2. CASE OperatorStep(o)
  <2>1. oreq[o] \in OperatorRequests /\ oreq[o].intent \in Intents
    BY <1>2 DEF OperatorStep, StoreOverride, ForceOverride, operatorLedger, AcceptedNamesIntent
  <2>2. UNCHANGED <<threadVars, drift, oreq>>
    BY <1>2 DEF OperatorStep, StoreOverride, ForceOverride, operatorLedger
  <2>3. opc' \in [Operators -> OperatorPCs]
    BY <1>2 DEF OperatorStep, StoreOverride, ForceOverride, operatorLedger, TypeOK, OperatorPCs
  <2>4. /\ interrupt' \subseteq Intents
        /\ corrected' \subseteq Intents
        /\ terminate' \subseteq Intents
    BY <1>2, <2>1 DEF OperatorStep, StoreOverride, ForceOverride, operatorLedger, Interrupt,
       Correct, Terminate, TypeOK, interruptVars
  <2>5. states' \in [Intents -> ExecStates]
    BY <1>2, <2>1 DEF OperatorStep, StoreOverride, ForceOverride, operatorLedger, Forcibly, TypeOK,
       ExecStates
  <2>6. entries' \in Seq(Entries) /\ lastHash' \in Hashes /\ nextIdx' \in Nat
    <3>1. CASE operatorLedger(o)
      BY <3>1, OverrideBodyType, AppendType DEF operatorLedger, TypeOK
    <3>2. CASE StoreOverride(o) \/ ForceOverride(o)
      BY <3>2 DEF StoreOverride, ForceOverride, TypeOK, ledgerVars
    <3>3. QED
      BY <1>2, <3>1, <3>2 DEF OperatorStep
  <2>7. TypeOK'
    BY <2>2, <2>3, <2>4, <2>5, <2>6 DEF TypeOK, threadVars, historyVars
  <2>8. DecidedAnswers'
    BY <2>2 DEF DecidedAnswers, threadVars
  <2>9. AcceptedNamesIntent'
    BY <1>2, <2>1, <2>2 DEF OperatorStep, StoreOverride, ForceOverride, operatorLedger,
       AcceptedNamesIntent, TypeOK
  <2>10. QED
    BY <2>7, <2>8, <2>9
<1>3. QED
  BY <1>1, <1>2

LEMMA UnchangedType ==
  ASSUME TypeInv, UNCHANGED vars
  PROVE  TypeInv'
BY DEF TypeInv, TypeOK, DecidedAnswers, AcceptedNamesIntent, vars, routerVars, threadVars,
   historyVars, ledgerVars, interruptVars, operatorVars

LEMMA DriftType ==
  ASSUME TypeInv, NEW v \in DriftScores, SteerDrift(v), UNCHANGED operatorVars
  PROVE  TypeInv'
<1>1. v \in Nat
  BY RequestsAssumption
<1>2. QED
  BY <1>1 DEF SteerDrift, TypeInv, TypeOK, DecidedAnswers, AcceptedNamesIntent, threadVars,
     historyVars, ledgerVars, interruptVars, operatorVars

LEMMA InitType == Init => TypeInv
<1> SUFFICES ASSUME Init PROVE TypeInv
  OBVIOUS
<1>1. entries \in Seq(Entries) /\ lastHash \in Hashes /\ nextIdx \in Nat
  BY DEF Init, LedgerInit, Hashes
<1>2. states \in [Intents -> ExecStates]
  BY DEF Init, ExecutionInit, ExecStates
<1>3. interrupt \subseteq Intents /\ corrected \subseteq Intents /\ terminate \subseteq Intents
  BY DEF Init, InterruptInit
<1>4. "" \in Errors
  BY DEF Errors
<1>5. NoAnswer \in Answers
  BY <1>4, TurnedType DEF NoAnswer
<1>6. req \in [Threads -> Calls] /\ out \in [Threads -> Answers]
  BY <1>5 DEF Init, RouterInit, Calls
<1>7. TypeOK
  BY <1>1, <1>2, <1>3, <1>6 DEF Init, RouterInit, TypeOK, PCs, ExecStates, OperatorPCs
<1>8. DecidedAnswers
  BY DEF Init, RouterInit, DecidedAnswers, Decided, Execution
<1>9. AcceptedNamesIntent
  BY DEF Init, AcceptedNamesIntent
<1>10. QED
  BY <1>7, <1>8, <1>9 DEF TypeInv

LEMMA NextType == TypeInv /\ [Next]_vars => TypeInv'
<1> SUFFICES ASSUME TypeInv, [Next]_vars PROVE TypeInv'
  OBVIOUS
<1> QED
  BY HandlerType, ThreadStepType, RunType, OperatorType, DriftType, UnchangedType
     DEF Next, Quiescent

(* The inductive invariant holds throughout: besides the types, whoever is *)
(* about to write or execute has a decision, and whatever an accepted      *)
(* operator call overrides is an intent.                                   *)
THEOREM TypeInvariant == Spec => []TypeInv
BY InitType, NextType, PTL DEF Spec

(* The router service is type correct, whatever the tenants, requests,     *)
(* operator calls and their numbers: in particular no ledger entry is ever *)
(* written without a verdict and a rule, and no override names an intent   *)
(* that does not exist (Router.Admit, the operator handlers).              *)
THEOREM TypeCorrect == Spec => []TypeOK
<1>1. TypeInv => TypeOK
  BY DEF TypeInv
<1>2. QED
  BY <1>1, TypeInvariant, PTL

-----------------------------------------------------------------------------
(* The ledger. *)

(* The chain is intact, and the bookkeeping Append goes by is that of the  *)
(* stored entries.                                                         *)
ChainInv ==
    /\ nextIdx = Len(entries)
    /\ lastHash = IF Len(entries) = 0 THEN Genesis ELSE entries[Len(entries)].hash
    /\ ChainIntact

-----------------------------------------------------------------------------
(* What one step does to the ledger. *)

LEMMA GateKeepsLedger ==
  ASSUME NEW t, NEW at, NEW refused, NEW answer, NEW refusedTo, NEW passedTo,
         Gate(t, at, refused, answer, refusedTo, passedTo)
  PROVE  UNCHANGED ledgerVars
BY DEF Gate

(* A goroutine writes its own decision or execution, or nothing. *)
LEMMA ThreadAppends ==
  ASSUME NEW t \in Threads, ThreadStep(t)
  PROVE  \/ UNCHANGED ledgerVars
         \/ WriteDecision(t)
         \/ WriteExecution(t)
<1>1. CASE \/ CheckLedger(t)   \/ CheckTerminated(t) \/ CheckInterrupted(t)
           \/ GREGates(t)      \/ GRETerminated(t)   \/ GREInterrupted(t)
           \/ GRECorrection(t) \/ ProviderGates(t)
  BY <1>1, GateKeepsLedger DEF CheckLedger, CheckTerminated, CheckInterrupted, GREGates,
     GRETerminated, GREInterrupted, GRECorrection, ProviderGates
<1>2. CASE \/ FinalTerminated(t) \/ FinalCorrection(t) \/ FinalInterrupted(t)
           \/ Receive(t) \/ TimeOut(t)
  BY <1>2, GateKeepsLedger DEF FinalTerminated, FinalCorrection, FinalInterrupted, Receive, TimeOut
<1>3. CASE \/ RecheckTerminated(t) \/ RecheckInterrupted(t) \/ ForceState(t) \/ FinalForce(t)
           \/ ReadCurrent(t) \/ TransitionToRunning(t) \/ StartGenerate(t)
  BY <1>3 DEF RecheckTerminated, RecheckInterrupted, ForceState, FinalForce, ReadCurrent,
     TransitionToRunning, StartGenerate
<1>4. QED
  BY <1>1, <1>2, <1>3 DEF ThreadStep

LEMMA StepAppends ==
  ASSUME TypeInv, [Next]_vars
  PROVE  UNCHANGED ledgerVars \/ \E b \in Bodies : AppendEntry(b)
<1>1. ASSUME NEW t \in Threads, RejectMalformed(t) \/ RouteHandler(t) \/ RunWorkflow(t)
      PROVE  UNCHANGED ledgerVars
  BY <1>1 DEF RejectMalformed, RouteHandler, RunWorkflow, Turned, Call
<1>2. ASSUME NEW t \in Threads, RequestStep(t)
      PROVE  UNCHANGED ledgerVars \/ \E b \in Bodies : AppendEntry(b)
  <2>1. WriteDecision(t) \/ WriteExecution(t) => out[t] \in Decisions
    BY DEF WriteDecision, WriteExecution, TypeInv, DecidedAnswers, Decided, Execution
  <2>2. QED
    BY <1>2, <2>1, ThreadAppends, DecisionBodyType, ExecutionBodyType
       DEF RequestStep, WriteDecision, WriteExecution, TypeInv
<1>3. ASSUME NEW t \in Threads, ProviderReturns(t)
      PROVE  UNCHANGED ledgerVars
  BY <1>3 DEF ProviderReturns
<1>4. ASSUME NEW o \in Operators, OperatorHandler(o) \/ OperatorStep(o)
      PROVE  UNCHANGED ledgerVars \/ \E b \in Bodies : AppendEntry(b)
  BY <1>4, OverrideBodyType DEF OperatorHandler, OperatorStep, StoreOverride, ForceOverride,
     operatorLedger, routerVars
<1>5. ASSUME NEW v \in DriftScores, SteerDrift(v)
      PROVE  UNCHANGED ledgerVars
  BY <1>5 DEF SteerDrift
<1>6. UNCHANGED vars => UNCHANGED ledgerVars
  BY DEF vars, routerVars
<1>7. QED
  BY <1>1, <1>2, <1>3, <1>4, <1>5, <1>6 DEF Next, Quiescent

-----------------------------------------------------------------------------
(* The chain. *)

LEMMA AppendKeepsChain ==
  ASSUME TypeOK, ChainInv, NEW b \in Bodies, AppendEntry(b)
  PROVE  ChainInv'
<1> DEFINE n == Len(entries)
           e == NextEntry(b)
<1>1. entries \in Seq(Entries) /\ n \in Nat
  BY DEF TypeOK
<1>2. e \in Entries
  <2>1. hashEntry(nextIdx, b) \in Hashes
    BY DEF hashEntry, Hashes, TypeOK
  <2>2. QED
    BY <2>1 DEF NextEntry, Entries, TypeOK
<1>3. e.index = n /\ e.body = b /\ e.prevHash = lastHash /\ e.hash = hashEntry(n, b)
  BY DEF NextEntry, ChainInv
<1>4. entries' = Append(entries, e) /\ lastHash' = e.hash /\ nextIdx' = n + 1
  BY DEF AppendEntry, ChainInv
<1> HIDE DEF e
<1>5. Len(entries') = n + 1 /\ entries'[n + 1] = e /\ \A i \in 1..n : entries'[i] = entries[i]
  BY <1>1, <1>2, <1>4
<1>6. ASSUME NEW i \in 1..(n + 1)
      PROVE  /\ entries'[i].prevHash = IF i = 1 THEN Genesis ELSE entries'[i - 1].hash
             /\ entries'[i].index = i - 1
             /\ entries'[i].hash = hashEntry(entries'[i].index, entries'[i].body)
  <2>1. CASE i = n + 1
    BY <1>1, <1>3, <1>5, <2>1 DEF ChainInv
  <2>2. CASE i \in 1..n
    <3>1. /\ entries[i].prevHash = IF i = 1 THEN Genesis ELSE entries[i - 1].hash
          /\ entries[i].index = i - 1
          /\ entries[i].hash = hashEntry(entries[i].index, entries[i].body)
      BY <2>2 DEF ChainInv, ChainIntact, Verify, VerifyExport, Positions, Body
    <3>2. i # 1 => i - 1 \in 1..n
      BY <1>1, <2>2
    <3>3. QED
      BY <1>5, <2>2, <3>1, <3>2
  <2>3. QED
    BY <1>1, <2>1, <2>2
<1>7. ChainIntact'
  BY <1>5, <1>6 DEF ChainIntact, Verify, VerifyExport, Positions, Body
<1>8. QED
  BY <1>1, <1>4, <1>5, <1>7 DEF ChainInv

(* The inductive invariant behind ChainIntact: Append links to lastHash    *)
(* and numbers by nextIdx, so these must agree with the entries.           *)
THEOREM ChainInvariant == Spec => []ChainInv
<1>1. Init => ChainInv
  <2>1. ASSUME entries = << >>, lastHash = Genesis, nextIdx = 0
        PROVE  ChainInv
    BY <2>1 DEF ChainInv, ChainIntact, Verify, VerifyExport, Positions
  <2>2. QED
    BY <2>1 DEF Init, LedgerInit
<1>2. ASSUME TypeInv, ChainInv, [Next]_vars
      PROVE  ChainInv'
  <2>1. CASE UNCHANGED ledgerVars
    BY <1>2, <2>1 DEF ChainInv, ChainIntact, Verify, VerifyExport, Positions, Body, ledgerVars
  <2>2. CASE \E b \in Bodies : AppendEntry(b)
    BY <1>2, <2>2, AppendKeepsChain DEF TypeInv
  <2>3. QED
    BY <1>2, <2>1, <2>2, StepAppends
<1>3. QED
  BY <1>1, <1>2, TypeInvariant, PTL DEF Spec

(* Whatever requests and operator calls interleave, and however many, each *)
(* ledger entry links to its predecessor, hashes its own content and takes *)
(* the next index (Ledger.Append).                                         *)
THEOREM ChainNeverBreaks == Spec => []ChainIntact
<1>1. ChainInv => ChainIntact
  BY DEF ChainInv
<1>2. QED
  BY <1>1, ChainInvariant, PTL

(* No step of any handler removes, reorders or rewrites an entry           *)
(* (Ledger.Append is the only writer).                                     *)
THEOREM LedgerIsAppendOnly == Spec => AppendOnly
<1> DEFINE Kept == /\ Len(entries) <= Len(entries')
                   /\ \A i \in Positions : entries'[i] = entries[i]
<1>1. ASSUME TypeInv, [Next]_vars
      PROVE  Kept
  <2>1. entries \in Seq(Entries) /\ Len(entries) \in Nat
    BY <1>1 DEF TypeInv, TypeOK
  <2>2. CASE UNCHANGED ledgerVars
    BY <2>1, <2>2 DEF ledgerVars, Positions
  <2>3. ASSUME NEW b \in Bodies, AppendEntry(b)
        PROVE  Kept
    <3>1. hashEntry(nextIdx, b) \in Hashes
      BY <1>1 DEF hashEntry, Hashes, TypeInv, TypeOK
    <3>2. NextEntry(b) \in Entries
      BY <1>1, <3>1 DEF NextEntry, Entries, TypeInv, TypeOK
    <3>3. QED
      BY <2>1, <2>3, <3>2 DEF AppendEntry, Positions
  <2>4. QED
    BY <1>1, <2>2, <2>3, StepAppends
<1> HIDE DEF Kept
<1>2. TypeInv /\ [Next]_vars => [Kept]_vars
  BY <1>1
<1>3. Spec => [][Kept]_vars
  BY <1>2, TypeInvariant, PTL DEF Spec
<1>4. QED
  BY <1>3 DEF AppendOnly, Kept

-----------------------------------------------------------------------------
(* The ledger after a fault. *)

(* Whatever a fault has stored, the ledger is a sequence of entries that   *)
(* have a hash.                                                            *)
LedgerShape ==
    /\ entries \in Seq({entries[i] : i \in Positions})
    /\ \A i \in Positions : "hash" \in DOMAIN entries[i]

(* As long as no fault has struck, the chain is linked and lastHash is the *)
(* hash of its last entry.                                                 *)
Linked ==
    /\ Verify
    /\ lastHash = IF Len(entries) = 0 THEN Genesis ELSE entries[Len(entries)].hash

FaultInv == LedgerShape /\ (~Faulty => Linked)

LEMMA SequenceAppends ==
  ASSUME NEW s, s \in Seq({s[i] : i \in 1..Len(s)}), NEW e
  PROVE  /\ Len(s) \in Nat
         /\ Len(Append(s, e)) = Len(s) + 1
         /\ Append(s, e)[Len(s) + 1] = e
         /\ \A i \in 1..Len(s) : Append(s, e)[i] = s[i]
         /\ Append(s, e) \in Seq({Append(s, e)[i] : i \in 1..Len(Append(s, e))})
<1> DEFINE S == {s[i] : i \in 1..Len(s)} \cup {e}
           r == Append(s, e)
<1>1. s \in Seq(S) /\ e \in S /\ Len(s) \in Nat
  OBVIOUS
<1>2. r \in Seq(S) /\ Len(r) = Len(s) + 1 /\ r[Len(s) + 1] = e
      /\ \A i \in 1..Len(s) : r[i] = s[i]
  <2> HIDE DEF S
  <2>1. QED
    BY <1>1
<1> HIDE DEF S, r
<1>3. r \in Seq({r[i] : i \in 1..Len(r)})
  BY <1>2
<1>4. QED
  BY <1>1, <1>2, <1>3 DEF r

(* Append keeps what is stored, so it neither heals a break nor makes one. *)
LEMMA AppendAfterFault ==
  ASSUME FaultInv, NEW b, AppendEntry(b)
  PROVE  FaultInv' /\ (~Verify => ~Verify')
<1> DEFINE e == NextEntry(b)
<1>1. PICK n \in Nat : n = Len(entries)
  BY SequenceAppends DEF FaultInv, LedgerShape, Positions
<1>2. /\ Len(entries') = n + 1 /\ entries'[n + 1] = e
      /\ \A i \in 1..n : entries'[i] = entries[i]
      /\ entries' \in Seq({entries'[i] : i \in 1..Len(entries')})
  BY <1>1, SequenceAppends DEF FaultInv, LedgerShape, Positions, AppendEntry
<1>3. e.prevHash = lastHash /\ lastHash' = e.hash /\ "hash" \in DOMAIN e
  BY DEF NextEntry, AppendEntry
<1> HIDE DEF e
<1>4. LedgerShape'
  <2>1. \A i \in 1..n : "hash" \in DOMAIN entries[i]
    BY <1>1 DEF FaultInv, LedgerShape, Positions
  <2>2. \A i \in 1..(n + 1) : "hash" \in DOMAIN entries'[i]
    BY <1>2, <1>3, <2>1
  <2>3. QED
    BY <1>2, <2>2 DEF LedgerShape, Positions
<1>5. Faulty => Faulty'
  BY <1>1, <1>2 DEF Faulty
<1>6. ~Verify => ~Verify'
  <2>1. SUFFICES ASSUME Verify' PROVE Verify
    OBVIOUS
  <2>2. ASSUME NEW i \in 1..n
        PROVE  entries[i].prevHash = IF i = 1 THEN Genesis ELSE entries[i - 1].hash
    <3>1. entries'[i].prevHash = IF i = 1 THEN Genesis ELSE entries'[i - 1].hash
      BY <1>2, <2>1 DEF Verify, VerifyExport
    <3>2. QED
      BY <1>2, <3>1
  <2>3. QED
    BY <1>1, <2>2 DEF Verify, VerifyExport
<1>7. ASSUME Linked
      PROVE  Linked'
  <2>1. lastHash = IF n = 0 THEN Genesis ELSE entries[n].hash
    BY <1>1, <1>7 DEF Linked
  <2>2. ASSUME NEW i \in 1..(n + 1)
        PROVE  entries'[i].prevHash = IF i = 1 THEN Genesis ELSE entries'[i - 1].hash
    <3>1. CASE i = n + 1
      BY <1>2, <1>3, <2>1, <3>1
    <3>2. CASE i \in 1..n
      <4>1. entries[i].prevHash = IF i = 1 THEN Genesis ELSE entries[i - 1].hash
        BY <1>1, <1>7, <3>2 DEF Linked, Verify, VerifyExport
      <4>2. QED
        BY <1>2, <3>2, <4>1
    <3>3. QED
      BY <3>1, <3>2
  <2>3. Verify'
    BY <1>2, <2>2 DEF Verify, VerifyExport
  <2>4. QED
    BY <1>2, <1>3, <2>3 DEF Linked
<1>8. QED
  BY <1>4, <1>5, <1>6, <1>7 DEF FaultInv

LEMMA ForgedBody ==
  ASSUME NEW id, NEW intent, NEW result, NEW rule, NEW b,
         b = [id |-> id, kind |-> "forged", intent |-> intent, result |-> result, rule |-> rule]
  PROVE  b.kind = "forged"
OBVIOUS

(* Either fault leaves its mark on the ledger. *)
LEMMA FaultLeavesMark ==
  ASSUME FaultInv, Fault
  PROVE  FaultInv' /\ Faulty'
<1> DEFINE forged == [id |-> <<"forged", 0>>, kind |-> "forged", intent |-> "forged",
                      result |-> "", rule |-> ""]
<1>1. PICK n \in Nat : n = Len(entries)
  BY SequenceAppends DEF FaultInv, LedgerShape, Positions
<1>2. CASE Forge(forged)
  <2>1. forged.kind = "forged"
    BY ForgedBody
  <2> HIDE DEF forged
  <2>2. PICK e : /\ entries' = Append(entries, e)
                 /\ e.body = forged
                 /\ "hash" \in DOMAIN e
    <3>1. \E h : entries' = Append(entries, [index |-> 0, body |-> forged,
                                             prevHash |-> <<"attacker">>, hash |-> h])
      BY <1>2 DEF Forge
    <3>2. QED
      BY <3>1
  <2>3. /\ Len(entries') = n + 1 /\ entries'[n + 1] = e
        /\ \A i \in 1..n : entries'[i] = entries[i]
        /\ entries' \in Seq({entries'[i] : i \in 1..Len(entries')})
    BY <1>1, <2>2, SequenceAppends DEF FaultInv, LedgerShape, Positions
  <2>4. Faulty'
    BY <2>1, <2>2, <2>3 DEF Faulty
  <2>5. \A i \in 1..n : "hash" \in DOMAIN entries[i]
    BY <1>1 DEF FaultInv, LedgerShape, Positions
  <2>6. \A i \in 1..(n + 1) : "hash" \in DOMAIN entries'[i]
    BY <2>2, <2>3, <2>5
  <2>7. QED
    BY <2>3, <2>4, <2>6 DEF FaultInv, LedgerShape, Positions
<1>3. ASSUME NEW k \in 1..n, Tamper(k)
      PROVE  FaultInv' /\ Faulty'
  <2> DEFINE S == {entries[i] : i \in 1..n}
             x == [entries[k] EXCEPT !.hash = <<"tampered">>]
  <2>1. entries \in Seq(S) /\ "hash" \in DOMAIN entries[k]
    BY <1>1 DEF FaultInv, LedgerShape, Positions
  <2>2. entries' = [entries EXCEPT ![k] = x] /\ x.hash = <<"tampered">>
    BY <1>3, <2>1 DEF Tamper
  <2>3. "hash" \in DOMAIN x
    BY <2>1
  <2> HIDE DEF x
  <2>4. /\ Len(entries') = n /\ entries'[k] = x
        /\ \A i \in 1..n : i # k => entries'[i] = entries[i]
        /\ entries' \in Seq(S \cup {x})
    <3> HIDE DEF S
    <3>1. QED
      BY <1>1, <2>1, <2>2
  <2>5. entries' \in Seq({entries'[i] : i \in 1..Len(entries')})
    <3> HIDE DEF S
    <3>1. QED
      BY <2>4
  <2>6. Faulty'
    BY <1>3, <2>2, <2>4 DEF Faulty
  <2>7. \A i \in 1..n : "hash" \in DOMAIN entries'[i]
    BY <1>1, <2>3, <2>4 DEF FaultInv, LedgerShape, Positions
  <2>8. QED
    BY <2>4, <2>5, <2>6, <2>7 DEF FaultInv, LedgerShape, Positions
<1>4. Forge(forged) \/ \E k \in 1..Len(entries) : Tamper(k)
  BY DEF Fault
<1> HIDE DEF forged
<1>5. QED
  BY <1>1, <1>2, <1>3, <1>4

(* What the handlers write does not matter here. *)
LEMMA StepWrites ==
  ASSUME [Next]_vars
  PROVE  UNCHANGED ledgerVars \/ \E b : AppendEntry(b)
<1>1. ASSUME NEW t \in Threads, RejectMalformed(t) \/ RouteHandler(t) \/ RunWorkflow(t)
      PROVE  UNCHANGED ledgerVars
  BY <1>1 DEF RejectMalformed, RouteHandler, RunWorkflow, Turned, Call
<1>2. ASSUME NEW t \in Threads, RequestStep(t)
      PROVE  UNCHANGED ledgerVars \/ \E b : AppendEntry(b)
  BY <1>2, ThreadAppends DEF RequestStep, WriteDecision, WriteExecution
<1>3. ASSUME NEW t \in Threads, ProviderReturns(t)
      PROVE  UNCHANGED ledgerVars
  BY <1>3 DEF ProviderReturns
<1>4. ASSUME NEW o \in Operators, OperatorHandler(o) \/ OperatorStep(o)
      PROVE  UNCHANGED ledgerVars \/ \E b : AppendEntry(b)
  BY <1>4 DEF OperatorHandler, OperatorStep, StoreOverride, ForceOverride, operatorLedger, routerVars
<1>5. ASSUME NEW v \in DriftScores, SteerDrift(v)
      PROVE  UNCHANGED ledgerVars
  BY <1>5 DEF SteerDrift
<1>6. UNCHANGED vars => UNCHANGED ledgerVars
  BY DEF vars, routerVars
<1>7. QED
  BY <1>1, <1>2, <1>3, <1>4, <1>5, <1>6 DEF Next, Quiescent

LEMMA SameLedgerAfterFault ==
  ASSUME FaultInv, UNCHANGED ledgerVars
  PROVE  FaultInv' /\ (~Verify => ~Verify')
BY DEF FaultInv, LedgerShape, Linked, Faulty, Verify, VerifyExport, Positions, ledgerVars

LEMMA FaultStep ==
  ASSUME FaultInv, [Next \/ Fault]_vars
  PROVE  FaultInv' /\ (~Verify => ~Verify')
<1>1. CASE [Next]_vars
  BY <1>1, StepWrites, SameLedgerAfterFault, AppendAfterFault
<1>2. CASE Fault
  <2>1. Verify
    BY <1>2 DEF FaultInv, Linked, Fault
  <2>2. QED
    BY <1>2, <2>1, FaultLeavesMark
<1>3. QED
  BY <1>1, <1>2

(* The inductive invariant behind the two theorems below: a break needs a  *)
(* fault, because Append links to the last entry unless one has struck.    *)
THEOREM FaultInvariant == FaultSpec => []FaultInv
<1>1. Init => FaultInv
  <2>1. ASSUME entries = << >>, lastHash = Genesis
        PROVE  FaultInv
    BY <2>1 DEF FaultInv, LedgerShape, Linked, Verify, VerifyExport, Positions
  <2>2. QED
    BY <2>1 DEF Init, LedgerInit
<1>2. FaultInv /\ [Next \/ Fault]_vars => FaultInv'
  BY FaultStep
<1>3. QED
  BY <1>1, <1>2, PTL DEF FaultSpec

(* Once a fault has broken the chain, no later Append of any handler heals *)
(* it: GET /verify reports the break from then on.                         *)
THEOREM BreakStaysVisible == FaultSpec => BreakIsPermanent
<1>1. FaultInv /\ [Next \/ Fault]_vars => [~Verify => ~Verify']_vars
  BY FaultStep
<1>2. FaultSpec => [][~Verify => ~Verify']_vars
  BY <1>1, FaultInvariant, PTL DEF FaultSpec
<1>3. QED
  BY <1>2 DEF BreakIsPermanent

-----------------------------------------------------------------------------
(* Requests that arrive at a broken ledger. *)

RefusedAsBroken == Answer(1, "DENY", "ledger.integrity", "ErrLedgerBreak")

(* The way of such a request: Admit's first check, the write of its        *)
(* refusal, the answer.                                                    *)
FailsClosed(t) ==
    /\ ~Verify
    /\ gen[t] = "none"
    /\ pc[t] = "verify" \/ (pc[t] \in {"write", "done"} /\ out[t] = RefusedAsBroken)

Goroutines ==
    /\ DOMAIN pc = Threads  /\ DOMAIN out = Threads
    /\ DOMAIN gen = Threads /\ DOMAIN barred = Threads

BrokenInv ==
    /\ Goroutines
    /\ \A t \in Threads : pc[t] = "idle" => gen[t] = "none"
    /\ \A t \in Threads : "broken" \in barred[t] => FailsClosed(t)

(* What a step of goroutine t means for it and for the others. *)
Local(t) ==
    /\ Goroutines' /\ barred' = barred
    /\ \A u \in Threads \ {t} : pc'[u] = pc[u] /\ out'[u] = out[u] /\ gen'[u] = gen[u]
    /\ pc[t] \notin {"idle", "done"} /\ pc'[t] # "idle"
    /\ pc[t] # "generate" => gen' = gen
    /\ pc[t] = "verify" /\ ~Verify => pc'[t] = "write" /\ out'[t] = RefusedAsBroken
    /\ pc[t] = "write" => out' = out /\ (out[t].result # "ADMIT" => pc'[t] = "done")

LEMMA GateLocal ==
  ASSUME Goroutines, NEW t \in Threads, NEW at, NEW refused, NEW answer, NEW refusedTo, NEW passedTo,
         Gate(t, at, refused, answer, refusedTo, passedTo),
         at \notin {"idle", "done", "generate", "write"},
         refusedTo # "idle", passedTo # "idle",
         at = "verify" /\ ~Verify => refused /\ refusedTo = "write" /\ answer = RefusedAsBroken
  PROVE  Local(t)
<1>1. pc[t] = at /\ gen' = gen /\ barred' = barred
  BY DEF Gate, historyVars
<1>2. CASE refused
  BY <1>1, <1>2 DEF Gate, Goto, Goroutines, Local
<1>3. CASE ~refused
  BY <1>1, <1>3 DEF Gate, Goto, Goroutines, Local
<1>4. QED
  BY <1>2, <1>3

LEMMA ThreadLocal ==
  ASSUME Goroutines, NEW t \in Threads, ThreadStep(t)
  PROVE  Local(t)
<1>1. CASE CheckLedger(t)
  BY <1>1, GateLocal DEF CheckLedger, RefusedAsBroken
<1>2. CASE CheckTerminated(t) \/ CheckInterrupted(t)
  BY <1>2, GateLocal DEF CheckTerminated, CheckInterrupted
<1>3. CASE GREGates(t)
  BY <1>3, GateLocal DEF GREGates
<1>4. CASE GRETerminated(t) \/ GREInterrupted(t) \/ GRECorrection(t)
  BY <1>4, GateLocal DEF GRETerminated, GREInterrupted, GRECorrection
<1>5. CASE ProviderGates(t)
  BY <1>5, GateLocal DEF ProviderGates
<1>6. CASE RecheckTerminated(t)
  BY <1>6 DEF RecheckTerminated, Goto, Goroutines, Local
<1>7. CASE RecheckInterrupted(t)
  <2>1. PICK b : out' = [out EXCEPT ![t] = b]
    BY <1>7 DEF RecheckInterrupted
  <2>2. pc' = [pc EXCEPT ![t] = "force"] \/ pc' = [pc EXCEPT ![t] = "write"]
    BY <1>7 DEF RecheckInterrupted, Goto
  <2>3. pc[t] = "reinterrupted" /\ gen' = gen /\ barred' = barred
    BY <1>7 DEF RecheckInterrupted, historyVars
  <2>4. QED
    BY <2>1, <2>2, <2>3 DEF Goroutines, Local
<1>8. CASE WriteDecision(t)
  BY <1>8 DEF WriteDecision, Goto, Goroutines, Local, historyVars
<1>9. CASE FinalTerminated(t) \/ FinalCorrection(t) \/ FinalInterrupted(t)
  BY <1>9, GateLocal DEF FinalTerminated, FinalCorrection, FinalInterrupted
<1>10. CASE Receive(t) \/ TimeOut(t)
  BY <1>10, GateLocal DEF Receive, TimeOut
<1>11. CASE \/ ForceState(t) \/ FinalForce(t) \/ ReadCurrent(t) \/ TransitionToRunning(t)
            \/ StartGenerate(t) \/ WriteExecution(t)
  BY <1>11 DEF ForceState, FinalForce, ReadCurrent, TransitionToRunning, StartGenerate,
     WriteExecution, Goto, Goroutines, Local, historyVars
<1>12. QED
  BY <1>1, <1>2, <1>3, <1>4, <1>5, <1>6, <1>7, <1>8, <1>9, <1>10, <1>11 DEF ThreadStep

LEMMA ThreadFailsClosed ==
  ASSUME BrokenInv, NEW t \in Threads, ThreadStep(t), ~Verify => ~Verify'
  PROVE  BrokenInv'
<1>1. Local(t)
  BY ThreadLocal DEF BrokenInv
<1>2. ASSUME NEW u \in Threads, pc'[u] = "idle"
      PROVE  gen'[u] = "none"
  BY <1>1, <1>2 DEF Local, BrokenInv
<1>3. ASSUME NEW u \in Threads, "broken" \in barred'[u]
      PROVE  FailsClosed(u)'
  <2>1. FailsClosed(u)
    BY <1>1, <1>3 DEF Local, BrokenInv
  <2>2. CASE u # t
    BY <1>1, <2>1, <2>2 DEF Local, FailsClosed
  <2>3. CASE u = t
    <3>1. RefusedAsBroken.result = "DENY"
      BY DEF RefusedAsBroken, Answer
    <3>2. QED
      BY <1>1, <2>1, <2>3, <3>1 DEF Local, FailsClosed
  <2>4. QED
    BY <2>2, <2>3
<1>4. QED
  BY <1>1, <1>2, <1>3 DEF Local, BrokenInv

LEMMA ArrivalFailsClosed ==
  ASSUME BrokenInv, NEW t \in Threads,
         RejectMalformed(t) \/ RouteHandler(t) \/ RunWorkflow(t)
  PROVE  BrokenInv'
<1>1. CASE \E endpoint, err : Turned(t, endpoint, err)
  <2>1. PICK b : out' = [out EXCEPT ![t] = b]
    BY <1>1 DEF Turned
  <2>2. /\ pc[t] = "idle" /\ pc' = [pc EXCEPT ![t] = "done"]
        /\ gen' = gen /\ barred' = barred /\ Verify' = Verify
    BY <1>1 DEF Turned, Goto, historyVars, Verify, ledgerVars
  <2>3. QED
    BY <2>1, <2>2 DEF BrokenInv, Goroutines, FailsClosed
<1>2. CASE \E endpoint, r : Call(t, endpoint, r)
  <2>1. PICK r : barred' = [barred EXCEPT ![t] = Overrides(r.intent)
                               \cup (IF Verify THEN {} ELSE {"broken"})]
    BY <1>2 DEF Call
  <2>2. /\ pc[t] = "idle" /\ pc' = [pc EXCEPT ![t] = "verify"]
        /\ gen' = gen /\ out' = out /\ Verify' = Verify
    BY <1>2 DEF Call, Goto, Verify, ledgerVars
  <2>3. "broken" \notin Overrides(r.intent)
    BY DEF Overrides
  <2>4. Goroutines' /\ \A u \in Threads : u # t => barred'[u] = barred[u] /\ pc'[u] = pc[u]
    BY <2>1, <2>2 DEF BrokenInv, Goroutines
  <2>5. pc'[t] = "verify" /\ gen'[t] = "none" /\ ("broken" \in barred'[t] => ~Verify)
    BY <2>1, <2>2, <2>3 DEF BrokenInv, Goroutines
  <2>6. QED
    BY <2>2, <2>4, <2>5 DEF BrokenInv, FailsClosed
<1>3. QED
  <2>1. RejectMalformed(t) => \E endpoint, err : Turned(t, endpoint, err)
    BY DEF RejectMalformed
  <2>2. RouteHandler(t) => \E endpoint, r : Call(t, endpoint, r)
    BY DEF RouteHandler
  <2>3. RunWorkflow(t) => \/ \E endpoint, r : Call(t, endpoint, r)
                         \/ \E endpoint, err : Turned(t, endpoint, err)
    BY DEF RunWorkflow
  <2>4. QED
    BY <1>1, <1>2, <2>1, <2>2, <2>3

LEMMA BrokenStep ==
  ASSUME FaultInv, BrokenInv, [Next \/ Fault]_vars
  PROVE  BrokenInv'
<1>1. ~Verify => ~Verify'
  BY FaultStep
<1>2. ASSUME UNCHANGED threadVars
      PROVE  BrokenInv'
  BY <1>1, <1>2 DEF threadVars, historyVars, BrokenInv, Goroutines, FailsClosed
<1>3. ASSUME NEW t \in Threads, RequestStep(t)
      PROVE  BrokenInv'
  BY <1>1, <1>3, ThreadFailsClosed DEF RequestStep
<1>4. ASSUME NEW t \in Threads, ProviderReturns(t)
      PROVE  BrokenInv'
  <2>1. /\ gen[t] = "running" /\ gen' = [gen EXCEPT ![t] = "returned"]
        /\ pc' = pc /\ out' = out /\ barred' = barred
    BY <1>4 DEF ProviderReturns, historyVars
  <2>2. Goroutines' /\ \A u \in Threads : u # t => gen'[u] = gen[u]
    BY <2>1 DEF BrokenInv, Goroutines
  <2>3. QED
    BY <1>1, <2>1, <2>2 DEF BrokenInv, FailsClosed
<1>5. ASSUME NEW o \in Operators, OperatorHandler(o) \/ OperatorStep(o)
      PROVE  UNCHANGED threadVars
  BY <1>5 DEF OperatorHandler, OperatorStep, StoreOverride, ForceOverride, operatorLedger, routerVars
<1>6. ASSUME NEW v \in DriftScores, SteerDrift(v)
      PROVE  UNCHANGED threadVars
  BY <1>6 DEF SteerDrift
<1>7. (Fault => UNCHANGED threadVars) /\ (UNCHANGED vars => UNCHANGED threadVars)
  BY DEF Fault, vars, routerVars
<1>8. QED
  BY <1>2, <1>3, <1>4, <1>5, <1>6, <1>7, ArrivalFailsClosed DEF Next, Quiescent

(* Whenever a fault strikes, every request that arrives at the broken      *)
(* ledger is refused as such by Admit's first check and never reaches a    *)
(* provider, for any number of concurrent requests.                        *)
THEOREM BrokenLedgerFailsClosed == FaultSpec => []BrokenFailsClosed
<1>1. Init => BrokenInv
  BY DEF Init, RouterInit, BrokenInv, Goroutines
<1>2. FaultInv /\ BrokenInv /\ [Next \/ Fault]_vars => BrokenInv'
  BY BrokenStep
<1>3. BrokenInv => BrokenFailsClosed
  <2>1. /\ RefusedAsBroken.rule = "ledger.integrity" /\ RefusedAsBroken.result = "DENY"
        /\ RefusedAsBroken.err = "ErrLedgerBreak"
    BY DEF RefusedAsBroken, Answer
  <2>2. QED
    BY <2>1 DEF BrokenInv, FailsClosed, BrokenFailsClosed, Status
<1>4. QED
  BY <1>1, <1>2, <1>3, FaultInvariant, PTL DEF FaultSpec

=============================================================================
