---------------------------- MODULE ServerAnswers ----------------------------
(***************************************************************************)
(* What each goroutine of the router service has in hand, for any number   *)
(* of requests and operator calls.  The control flow of Admit and of       *)
(* GovernAndExecute is stated once, as a relation between one place in the *)
(* code and the next (Flow); the invariants then follow a goroutine along  *)
(* it without looking at the actions again.                                *)
(***************************************************************************)
EXTENDS ServerPrecedence

(* Where Admit has not settled its answer. *)
Gates == Admission \ {"force", "write"}

Conflicts == {"ErrTerminated", "ErrInterrupted"}

Admit == Answer(1, "ADMIT", "usl.gate", "")

Withdrawn(a) == \E err \in Conflicts : a = Answer(1, "ADMIT", "usl.gate", err)

Refusal(a) ==
    /\ a.attempt = 1 /\ a.result \in {"DENY", "QUARANTINE"} /\ a.rule \in Rules
    /\ a.err \in {"", "ErrLedgerBreak"} \cup Conflicts

-----------------------------------------------------------------------------
(* The control flow. *)

(* The checks in the order in which a goroutine passes them, and the kind  *)
(* of override, if any, that each of them stops.                           *)
PassesTo ==
    {<<"verify", "terminated">>, <<"terminated", "interrupted">>, <<"interrupted", "gre">>,
     <<"gre", "gre.terminated">>, <<"gre.terminated", "gre.interrupted">>,
     <<"gre.interrupted", "gre.correction">>, <<"gre.correction", "provider">>,
     <<"provider", "reterminated">>, <<"reterminated", "reinterrupted">>,
     <<"final.terminated", "final.correction">>, <<"final.correction", "final.interrupted">>,
     <<"final.interrupted", "current">>, <<"current", "transition">>,
     <<"transition", "generate">>, <<"await", "execution">>}

StoppedAt(p) ==
    (IF p \in {"terminated", "gre.terminated", "reterminated", "final.terminated"}
     THEN {"terminate"} ELSE {}) \cup
    (IF p \in {"interrupted", "gre.interrupted", "final.interrupted"} THEN {"interrupt"} ELSE {}) \cup
    (IF p \in {"gre.correction", "final.correction"} THEN {"correct"} ELSE {})

(* A goroutine at p, on endpoint v, with answer a, while its intent is     *)
(* under the overrides now, goes to q with answer b.                       *)
Passes(p, a, now, q, b) == <<p, q>> \in PassesTo /\ StoppedAt(p) \cap now = {} /\ b = a

Refuses(p, now, q, b) ==
    /\ p \in Gates
    /\ Refusal(b)
    /\ b.rule = "Lambda.6" \/ b.err \in Conflicts => now # {}
    /\ \/ q = "force" /\ b.err \in Conflicts
       \/ q = "write"
    /\ p = "terminated" => b.err = "ErrTerminated"
    /\ p = "interrupted" => b.err = "ErrInterrupted"

Admits(p, now, q, b) ==
    p = "reinterrupted" /\ "interrupt" \notin now /\ q = "write" /\ b = Admit

Withdraws(p, a, now, q, b) ==
    /\ p \in {"final.terminated", "final.correction", "final.interrupted"}
    /\ now # {}
    /\ q = "final.force"
    /\ \E err \in Conflicts : b = [a EXCEPT !.err = err]

Forces(p, a, q, b) == <<p, q>> \in {<<"force", "write">>, <<"final.force", "done">>} /\ b = a

Writes(p, v, a, q, b) ==
    /\ p = "write" /\ b = a
    /\ q = IF v = "workflow" /\ a.result = "ADMIT" THEN "final.terminated" ELSE "done"

Fails(p, q, b) == p = "await" /\ q = "write" /\ b = ExecutionDenied

Flow(p, v, a, now, q, b) ==
    \/ Passes(p, a, now, q, b)    \/ Refuses(p, now, q, b)   \/ Admits(p, now, q, b)
    \/ Withdraws(p, a, now, q, b) \/ Forces(p, a, q, b)      \/ Writes(p, v, a, q, b)
    \/ (p = "generate" /\ q = "await" /\ b = a)
    \/ Fails(p, q, b)
    \/ (p = "execution" /\ q = "done" /\ b = a)

(* One goroutine moves: only its own place, answer and provider call       *)
(* change, and the last only when it makes the call.                       *)
Moves(t, q, b) ==
    /\ pc' = [pc EXCEPT ![t] = q]
    /\ out' = [out EXCEPT ![t] = b]
    /\ gen' = IF pc[t] = "generate" THEN [gen EXCEPT ![t] = "running"] ELSE gen
    /\ UNCHANGED <<interruptVars, via, req, drift, barred>>
    /\ Flow(pc[t], via[t], out[t], Overrides(Intent(t)), q, b)

(* The goroutines' variables are functions of the goroutine. *)
GoroutineTypes ==
    /\ pc \in [Threads -> PCs]
    /\ out \in [Threads -> Answers]
    /\ gen \in [Threads -> {"none", "running", "returned"}]

LEMMA TypeOKGoroutines == TypeOK => GoroutineTypes
BY DEF TypeOK, GoroutineTypes

LEMMA GateMoves ==
  ASSUME GoroutineTypes, NEW t \in Threads, NEW at, NEW refused, NEW answer,
         NEW refusedTo, NEW passedTo, Gate(t, at, refused, answer, refusedTo, passedTo),
         at # "generate",
         refused => Flow(at, via[t], out[t], Overrides(Intent(t)), refusedTo, answer),
         ~refused => Flow(at, via[t], out[t], Overrides(Intent(t)), passedTo, out[t])
  PROVE  \E q, b : Moves(t, q, b)
<1>1. CASE refused
  <2>1. Moves(t, refusedTo, answer)
    BY <1>1 DEF Gate, Goto, Moves, historyVars
  <2>2. QED
    BY <2>1
<1>2. CASE ~refused
  <2>1. out' = [out EXCEPT ![t] = out[t]]
    BY <1>2 DEF Gate, GoroutineTypes
  <2>2. Moves(t, passedTo, out[t])
    BY <1>2, <2>1 DEF Gate, Goto, Moves, historyVars
  <2>3. QED
    BY <2>2
<1>3. QED
  BY <1>1, <1>2

LEMMA AnswerFields ==
  ASSUME NEW n, NEW result, NEW rule, NEW err
  PROVE  /\ Answer(n, result, rule, err).attempt = n
         /\ Answer(n, result, rule, err).result = result
         /\ Answer(n, result, rule, err).rule = rule
         /\ Answer(n, result, rule, err).err = err
BY DEF Answer

(* An override is refused under Lambda.6 by the gates that look for it     *)
(* only: stage 1 of GRE-1001 has refused a request without an operator     *)
(* before the USL gate can.                                                *)
LEMMA StagesNotLambda6 ==
  ASSUME NEW r, NEW d
  PROVE  StagesToDrift(r, d) # "Lambda.6"
<1>1. stageInputValidation(r) \in {Passed, "Lambda.1", "Lambda.2"}
  BY DEF stageInputValidation, Passed
<1>2. stageInputValidation(r) = Passed => USLCheck(TRUE, r) # "Lambda.6"
  BY DEF stageInputValidation, USLCheck, Passed
<1>3. /\ stageCapabilityCheck(r) \in {Passed, "capability.lattice"}
      /\ checkLambda4(r) \in {Passed, "Lambda.4"}
      /\ stageDriftCheck(d) \in {Passed, "Lambda.5"}
  BY DEF stageCapabilityCheck, checkLambda4, stageDriftCheck, Passed
<1>4. QED
  BY <1>1, <1>2, <1>3 DEF StagesToDrift, Then, Passed

LEMMA AdmitGateMoves ==
  ASSUME GoroutineTypes, NEW t \in Threads,
         \/ CheckLedger(t)   \/ CheckTerminated(t) \/ CheckInterrupted(t)
         \/ GREGates(t)      \/ GRETerminated(t)   \/ GREInterrupted(t)
         \/ GRECorrection(t) \/ ProviderGates(t)
  PROVE  \E q, b : Moves(t, q, b)
<1> DEFINE now == Overrides(Intent(t))
<1>1. ASSUME NEW at \in Gates, NEW refused, NEW answer, NEW refusedTo, NEW passedTo,
             Gate(t, at, refused, answer, refusedTo, passedTo),
             refused => Refuses(at, now, refusedTo, answer),
             <<at, passedTo>> \in PassesTo, ~refused => StoppedAt(at) \cap now = {}
      PROVE  \E q, b : Moves(t, q, b)
  BY <1>1, GateMoves DEF Flow, Passes, Gates, Admission
<1>2. /\ "interrupt" \in now <=> IsInterrupted(Intent(t))
      /\ "correct"   \in now <=> Correction(Intent(t))
      /\ "terminate" \in now <=> IsTerminated(Intent(t))
  BY OverridesByKind
<1>3. ASSUME NEW err
      PROVE  /\ Overridden(err).attempt = 1 /\ Overridden(err).result = "DENY"
             /\ Overridden(err).rule = "Lambda.6" /\ Overridden(err).err = err
  BY AnswerFields DEF Overridden
<1> HIDE DEF now
<1> USE DEF Gates, Admission, PassesTo, StoppedAt, Refuses, Refusal, Conflicts, Rules
<1>4. CASE CheckLedger(t)
  <2> DEFINE broken == Answer(1, "DENY", "ledger.integrity", "ErrLedgerBreak")
  <2>1. /\ broken.attempt = 1 /\ broken.result = "DENY"
        /\ broken.rule = "ledger.integrity" /\ broken.err = "ErrLedgerBreak"
    BY AnswerFields
  <2>2. Gate(t, "verify", ~Verify, broken, "write", "terminated")
    BY <1>4 DEF CheckLedger
  <2> HIDE DEF broken
  <2>3. QED
    BY <1>1, <2>1, <2>2
<1>5. CASE CheckTerminated(t)
  BY <1>1, <1>2, <1>3, <1>5 DEF CheckTerminated
<1>6. CASE CheckInterrupted(t)
  BY <1>1, <1>2, <1>3, <1>6 DEF CheckInterrupted
<1>7. CASE GRETerminated(t)
  BY <1>1, <1>2, <1>3, <1>7 DEF GRETerminated
<1>8. CASE GREInterrupted(t)
  BY <1>1, <1>2, <1>3, <1>8 DEF GREInterrupted
<1>9. CASE GRECorrection(t)
  BY <1>1, <1>2, <1>3, <1>9 DEF GRECorrection
<1>10. CASE GREGates(t)
  <2> DEFINE verdict == StagesToDrift(req[t], drift)
             refusal == Answer(1, "DENY", verdict, "")
  <2>1. verdict \in Rules \cup {Passed} /\ verdict # "Lambda.6"
    BY StagesToDriftType, StagesNotLambda6
  <2>2. Gate(t, "gre", verdict # Passed, refusal, "write", "gre.terminated")
    BY <1>10 DEF GREGates
  <2> HIDE DEF verdict
  <2>3. /\ refusal.attempt = 1 /\ refusal.result = "DENY"
        /\ refusal.rule = verdict /\ refusal.err = ""
    BY DEF Answer
  <2> HIDE DEF refusal
  <2>4. QED
    BY <1>1, <2>1, <2>2, <2>3
<1>11. CASE ProviderGates(t)
  <2> DEFINE verdict == StagesAfterCorrigibility(req[t])
             gate    == ProviderGate(req[t])
             refusal == IF verdict # Passed THEN Answer(1, "DENY", verdict, "")
                                            ELSE Answer(1, gate.result, gate.rule, "")
  <2>1. verdict \in {Passed, "Lambda.2"}
    BY DEF StagesAfterCorrigibility, stageAuditTrail, stageLedgerWrite, Then, Passed
  <2>2. /\ gate.result \in {"QUARANTINE", "DENY", "ADMIT"}
        /\ gate.rule \in {"immune.protocol", "provider.registry", "provider.adapter", "usl.gate"}
    BY DEF ProviderGate
  <2>3. Gate(t, "provider", refusal.result # "ADMIT", refusal, "write", "reterminated")
    BY <1>11 DEF ProviderGates
  <2>4. /\ refusal.attempt = 1 /\ refusal.err = ""
        /\ refusal.result \in {"QUARANTINE", "DENY", "ADMIT"}
        /\ refusal.rule \in Rules /\ refusal.rule # "Lambda.6"
    <3> HIDE DEF verdict, gate
    <3>1. CASE verdict # Passed
      BY <2>1, <3>1 DEF Answer
    <3>2. CASE verdict = Passed
      BY <2>2, <3>2 DEF Answer
    <3>3. QED
      BY <3>1, <3>2
  <2> HIDE DEF refusal
  <2>5. QED
    BY <1>1, <2>3, <2>4
<1>12. QED
  BY <1>4, <1>5, <1>6, <1>7, <1>8, <1>9, <1>10, <1>11

LEMMA RecheckMoves ==
  ASSUME GoroutineTypes, NEW t \in Threads, RecheckTerminated(t) \/ RecheckInterrupted(t)
  PROVE  \E q, b : Moves(t, q, b)
<1> DEFINE now == Overrides(Intent(t))
<1>1. /\ "interrupt" \in now <=> IsInterrupted(Intent(t))
      /\ "terminate" \in now <=> IsTerminated(Intent(t))
  BY OverridesByKind
<1>2. ASSUME NEW err \in Conflicts, NEW p \in {"reterminated", "reinterrupted"}, now # {}
      PROVE  Refuses(p, now, "force", Overridden(err))
  BY <1>2 DEF Refuses, Refusal, Overridden, Answer, Gates, Admission, Rules
<1>3. out = [out EXCEPT ![t] = out[t]]
  BY DEF GoroutineTypes
<1> HIDE DEF now
<1>4. CASE RecheckTerminated(t)
  <2>1. PICK q, b : /\ pc' = [pc EXCEPT ![t] = q] /\ out' = [out EXCEPT ![t] = b]
                    /\ Flow("reterminated", via[t], out[t], now, q, b)
    <3>1. CASE IsTerminated(Intent(t))
      BY <1>1, <1>2, <1>4, <3>1 DEF RecheckTerminated, Goto, Flow, Conflicts
    <3>2. CASE ~IsTerminated(Intent(t))
      BY <1>1, <1>3, <1>4, <3>2 DEF RecheckTerminated, Goto, Flow, Passes, PassesTo, StoppedAt
    <3>3. QED
      BY <3>1, <3>2
  <2>2. Moves(t, q, b)
    BY <1>4, <2>1 DEF RecheckTerminated, Moves, now
  <2>3. QED
    BY <2>2
<1>5. CASE RecheckInterrupted(t)
  <2>1. PICK q, b : /\ pc' = [pc EXCEPT ![t] = q] /\ out' = [out EXCEPT ![t] = b]
                    /\ Flow("reinterrupted", via[t], out[t], now, q, b)
    <3>1. CASE IsInterrupted(Intent(t))
      BY <1>1, <1>2, <1>5, <3>1 DEF RecheckInterrupted, Goto, Flow, Conflicts
    <3>2. CASE ~IsInterrupted(Intent(t))
      BY <1>1, <1>5, <3>2 DEF RecheckInterrupted, Goto, Flow, Admits, Admit
    <3>3. QED
      BY <3>1, <3>2
  <2>2. Moves(t, q, b)
    BY <1>5, <2>1 DEF RecheckInterrupted, Moves, historyVars, now
  <2>3. QED
    BY <2>2
<1>6. QED
  BY <1>4, <1>5

LEMMA ExecutionGateMoves ==
  ASSUME GoroutineTypes, NEW t \in Threads,
         \/ FinalTerminated(t) \/ FinalCorrection(t) \/ FinalInterrupted(t)
         \/ Receive(t) \/ TimeOut(t)
  PROVE  \E q, b : Moves(t, q, b)
<1> DEFINE now == Overrides(Intent(t))
<1>1. /\ "interrupt" \in now <=> IsInterrupted(Intent(t))
      /\ "correct"   \in now <=> Correction(Intent(t))
      /\ "terminate" \in now <=> IsTerminated(Intent(t))
  BY OverridesByKind
<1>2. ASSUME NEW p \in {"final.terminated", "final.correction", "final.interrupted"},
             NEW q, NEW err \in Conflicts, NEW refused, <<p, q>> \in PassesTo,
             Gate(t, p, refused, [out[t] EXCEPT !.err = err], "final.force", q),
             refused => now # {}, ~refused => StoppedAt(p) \cap now = {}
      PROVE  \E r, b : Moves(t, r, b)
  BY <1>2, GateMoves DEF Flow, Passes, Withdraws
<1> HIDE DEF now
<1>3. CASE FinalTerminated(t)
  BY <1>1, <1>2, <1>3 DEF FinalTerminated, PassesTo, StoppedAt, Conflicts
<1>4. CASE FinalCorrection(t)
  BY <1>1, <1>2, <1>4 DEF FinalCorrection, PassesTo, StoppedAt, Conflicts
<1>5. CASE FinalInterrupted(t)
  BY <1>1, <1>2, <1>5 DEF FinalInterrupted, PassesTo, StoppedAt, Conflicts
<1>6. CASE Receive(t) \/ TimeOut(t)
  <2>1. PICK refused : Gate(t, "await", refused, ExecutionDenied, "write", "execution")
    BY <1>6 DEF Receive, TimeOut
  <2>2. /\ Flow("await", via[t], out[t], Overrides(Intent(t)), "write", ExecutionDenied)
        /\ Flow("await", via[t], out[t], Overrides(Intent(t)), "execution", out[t])
    BY DEF Flow, Fails, Passes, PassesTo, StoppedAt
  <2>3. QED
    BY <2>1, <2>2, GateMoves
<1>7. QED
  BY <1>3, <1>4, <1>5, <1>6

LEMMA PlainMoves ==
  ASSUME GoroutineTypes, NEW t \in Threads,
         \/ ForceState(t) \/ FinalForce(t) \/ ReadCurrent(t) \/ TransitionToRunning(t)
         \/ StartGenerate(t) \/ WriteDecision(t) \/ WriteExecution(t)
  PROVE  \E q, b : Moves(t, q, b)
<1>1. out' = [out EXCEPT ![t] = out[t]]
  BY DEF ForceState, FinalForce, ReadCurrent, TransitionToRunning, StartGenerate, WriteDecision,
     WriteExecution, GoroutineTypes
<1>2. PICK q : /\ pc' = [pc EXCEPT ![t] = q]
               /\ Flow(pc[t], via[t], out[t], Overrides(Intent(t)), q, out[t])
  BY DEF ForceState, FinalForce, ReadCurrent, TransitionToRunning, StartGenerate, WriteDecision,
     WriteExecution, Goto, Flow, Forces, Passes, PassesTo, StoppedAt, Writes
<1>3. UNCHANGED <<interruptVars, via, req, drift, barred>>
  BY DEF ForceState, FinalForce, ReadCurrent, TransitionToRunning, StartGenerate, WriteDecision,
     WriteExecution, historyVars
<1>4. gen' = IF pc[t] = "generate" THEN [gen EXCEPT ![t] = "running"] ELSE gen
  BY DEF ForceState, FinalForce, ReadCurrent, TransitionToRunning, StartGenerate, WriteDecision,
     WriteExecution
<1>5. Moves(t, q, out[t])
  BY <1>1, <1>2, <1>3, <1>4 DEF Moves
<1>6. QED
  BY <1>5

(* Every step of a goroutine follows the control flow. *)
LEMMA ThreadMoves ==
  ASSUME GoroutineTypes, NEW t \in Threads, ThreadStep(t)
  PROVE  \E q, b : Moves(t, q, b)
BY AdmitGateMoves, RecheckMoves, ExecutionGateMoves, PlainMoves DEF ThreadStep

-----------------------------------------------------------------------------
(* What a goroutine has in hand, and whether it has called a provider. *)

(* A goroutine at p on endpoint v has answer a and a provider call in      *)
(* state g: nothing while it is in the gates, then a refusal or an ADMIT;  *)
(* only an execution calls the provider, and its ADMIT is withdrawn before *)
(* the call, denied after it, or stands.                                   *)
Holds(p, v, a, g) ==
    /\ p \in {"idle"} \cup Gates => a = NoAnswer /\ g = "none"
    /\ p = "force" => Refusal(a) /\ a.err \in Conflicts /\ g = "none"
    /\ p = "write" => \/ (Refusal(a) \/ a = Admit) /\ g = "none"
                      \/ a = ExecutionDenied /\ v = "workflow"
    /\ p \in Execution => v = "workflow"
    /\ p \in Execution \ {"final.force"} => a = Admit
    /\ p = "final.force" => Withdrawn(a)
    /\ p \in Execution \ {"await", "execution"} => g = "none"
    /\ p = "done" => \/ a.attempt = 0 /\ a.result = "" /\ a.rule = "" /\ g = "none"
                        /\ a.err \in {"method", "malformed", "ErrWorkflow"}
                     \/ Refusal(a) /\ g = "none"
                     \/ a = Admit /\ (v = "workflow" \/ g = "none")
                     \/ Withdrawn(a) /\ v = "workflow" /\ g = "none"
                     \/ a = ExecutionDenied /\ v = "workflow"

AnswersInv == \A t \in Threads : Holds(pc[t], via[t], out[t], gen[t])

LEMMA FlowHolds ==
  ASSUME NEW p, NEW v, NEW a, NEW g, NEW now, NEW q, NEW b,
         Holds(p, v, a, g), Flow(p, v, a, now, q, b)
  PROVE  Holds(q, v, b, IF p = "generate" THEN "running" ELSE g)
<1> USE DEF Holds, Gates, Admission, Execution
<1>1. CASE Passes(p, a, now, q, b)
  BY <1>1 DEF Passes, PassesTo
<1>2. CASE Refuses(p, now, q, b)
  BY <1>2 DEF Refuses, Refusal, Conflicts
<1>3. CASE Admits(p, now, q, b)
  BY <1>3 DEF Admits
<1>4. CASE Withdraws(p, a, now, q, b)
  <2>1. a = Admit
    BY <1>4 DEF Withdraws
  <2>2. Withdrawn(b)
    BY <1>4, <2>1 DEF Withdraws, Withdrawn, Admit, Answer
  <2>3. QED
    BY <1>4, <2>2 DEF Withdraws
<1>5. CASE Forces(p, a, q, b)
  BY <1>5 DEF Forces
<1>6. CASE Writes(p, v, a, q, b)
  <2>1. Admit.result = "ADMIT" /\ ExecutionDenied.result = "DENY"
    BY DEF Admit, ExecutionDenied, Answer
  <2>2. QED
    BY <1>6, <2>1 DEF Writes, Refusal
<1>7. CASE p = "generate" /\ q = "await" /\ b = a
  BY <1>7
<1>8. CASE Fails(p, q, b)
  BY <1>8 DEF Fails
<1>9. CASE p = "execution" /\ q = "done" /\ b = a
  BY <1>9
<1>10. QED
  BY <1>1, <1>2, <1>3, <1>4, <1>5, <1>6, <1>7, <1>8, <1>9 DEF Flow

LEMMA HoldsWhateverReturns ==
  ASSUME NEW p, NEW v, NEW a, NEW g, NEW h, Holds(p, v, a, g), g # "none", h # "none"
  PROVE  Holds(p, v, a, h)
BY DEF Holds

LEMMA InitAnswers == Init => AnswersInv
BY DEF Init, RouterInit, AnswersInv, Holds, Gates, Admission, Execution

LEMMA ThreadStepAnswers ==
  ASSUME GoroutineTypes, AnswersInv, NEW t \in Threads, ThreadStep(t)
  PROVE  AnswersInv'
<1>1. PICK q, b : Moves(t, q, b)
  BY ThreadMoves
<1>2. Holds(q, via[t], b, IF pc[t] = "generate" THEN "running" ELSE gen[t])
  BY <1>1, FlowHolds DEF Moves, AnswersInv
<1>3. QED
  BY <1>1, <1>2 DEF Moves, AnswersInv, GoroutineTypes

LEMMA OtherStepAnswers ==
  ASSUME TypeOK, AnswersInv,
         \/ \E t \in Threads : RejectMalformed(t) \/ RouteHandler(t) \/ RunWorkflow(t)
         \/ \E t \in Threads : ProviderReturns(t)
         \/ \E o \in Operators : OperatorHandler(o) \/ OperatorStep(o)
         \/ \E v \in DriftScores : SteerDrift(v)
         \/ UNCHANGED vars
  PROVE  AnswersInv'
<1>1. ASSUME NEW t \in Threads, NEW endpoint, NEW err \in {"method", "malformed", "ErrWorkflow"},
             Turned(t, endpoint, err)
      PROVE  AnswersInv'
  <2> DEFINE a == Answer(0, "", "", err)
  <2>1. gen[t] = "none"
    BY <1>1 DEF Turned, AnswersInv, Holds
  <2>2. a.attempt = 0 /\ a.result = "" /\ a.rule = "" /\ a.err = err
    BY DEF Answer
  <2>3. /\ pc' = [pc EXCEPT ![t] = "done"]
        /\ via' = [via EXCEPT ![t] = endpoint]
        /\ out' = [out EXCEPT ![t] = a]
        /\ gen' = gen
    BY <1>1 DEF Turned, Goto
  <2> HIDE DEF a
  <2>4. Holds("done", endpoint, a, "none")
    BY <2>2 DEF Holds, Gates, Admission, Execution
  <2>5. QED
    BY <2>1, <2>3, <2>4 DEF AnswersInv, TypeOK
<1>2. ASSUME NEW t \in Threads, NEW endpoint, NEW r, Call(t, endpoint, r)
      PROVE  AnswersInv'
  <2>1. Holds("verify", endpoint, out[t], gen[t])
    BY <1>2 DEF Call, AnswersInv, Holds, Gates, Admission, Execution
  <2>2. QED
    BY <1>2, <2>1 DEF Call, Goto, AnswersInv, TypeOK
<1>3. ASSUME NEW t \in Threads, RejectMalformed(t) \/ RouteHandler(t) \/ RunWorkflow(t)
      PROVE  AnswersInv'
  BY <1>1, <1>2, <1>3 DEF RejectMalformed, RouteHandler, RunWorkflow
<1>4. ASSUME NEW t \in Threads, ProviderReturns(t)
      PROVE  AnswersInv'
  <2>1. Holds(pc[t], via[t], out[t], "returned")
    BY <1>4, HoldsWhateverReturns DEF ProviderReturns, AnswersInv
  <2>2. QED
    BY <1>4, <2>1 DEF ProviderReturns, AnswersInv, TypeOK
<1>5. CASE UNCHANGED <<pc, via, out, gen>>
  BY <1>5 DEF AnswersInv
<1>6. QED
  BY <1>3, <1>4, <1>5 DEF OperatorHandler, OperatorStep, StoreOverride, ForceOverride,
     operatorLedger, SteerDrift, routerVars, threadVars, vars

(* At every place in the code a goroutine has the answer the control flow  *)
(* gives it.                                                               *)
THEOREM AnswersInvariant == Spec => []AnswersInv
<1>1. TypeInv /\ AnswersInv /\ [Next]_vars => AnswersInv'
  BY ThreadStepAnswers, OtherStepAnswers, TypeOKGoroutines
     DEF Next, Quiescent, RequestStep, TypeInv
<1>2. QED
  BY <1>1, InitAnswers, TypeInvariant, PTL DEF Spec

-----------------------------------------------------------------------------
(* Operator calls, from the accepted header to the forced state. *)

(* An accepted call carries the token; once past the store its override is *)
(* there, and once past Forcibly its intent is at a standstill.            *)
Accepted(o) ==
    /\ opc[o] \in {"flag", "force", "ledger", "done"} => Authorized(oreq[o].header)
    /\ opc[o] \in {"force", "ledger", "done"} => oreq[o].kind \in Overrides(oreq[o].intent)
    /\ opc[o] \in {"ledger", "done"} => IsTerminal(states[oreq[o].intent])

AcceptedInv == \A o \in Operators : Accepted(o)

(* Whoever is told of an override, and whatever stands still, has one. *)
Told(a) == a.rule = "Lambda.6" \/ a.err \in Conflicts

ScopedInv ==
    /\ \A t \in Threads : Told(out[t]) => Overrides(Intent(t)) # {}
    /\ \A i \in Intents : IsTerminal(states[i]) => Overrides(i) # {}

(* No step withdraws an override. *)
LEMMA OverridesGrow ==
  ASSUME [Next]_vars, NEW i
  PROVE  Overrides(i) \subseteq Overrides(i)'
<1>1. interrupt \subseteq interrupt' /\ corrected \subseteq corrected' /\ terminate \subseteq terminate'
  <2>1. ASSUME NEW t \in Threads, RejectMalformed(t) \/ RouteHandler(t) \/ RunWorkflow(t)
        PROVE  UNCHANGED interruptVars
    BY <2>1 DEF RejectMalformed, RouteHandler, RunWorkflow, Turned, Call
  <2>2. ASSUME NEW t \in Threads, ThreadStep(t)
        PROVE  UNCHANGED interruptVars
    BY <2>2 DEF ThreadStep, CheckLedger, CheckTerminated, CheckInterrupted, GREGates, GRETerminated,
       GREInterrupted, GRECorrection, ProviderGates, FinalTerminated, FinalCorrection,
       FinalInterrupted, Receive, TimeOut, Gate, RecheckTerminated, RecheckInterrupted, ForceState,
       WriteDecision, FinalForce, ReadCurrent, TransitionToRunning, StartGenerate, WriteExecution
  <2>3. ASSUME NEW o \in Operators, OperatorHandler(o) \/ OperatorStep(o)
        PROVE  /\ interrupt \subseteq interrupt' /\ corrected \subseteq corrected'
               /\ terminate \subseteq terminate'
    BY <2>3 DEF OperatorHandler, OperatorStep, StoreOverride, ForceOverride, operatorLedger,
       routerVars, interruptVars, Interrupt, Correct, Terminate
  <2>4. QED
    BY <2>1, <2>2, <2>3 DEF Next, Quiescent, RequestStep, ProviderReturns, SteerDrift, vars,
       routerVars, interruptVars
<1>2. QED
  BY <1>1 DEF Overrides

(* A state changes only by a transition to RUNNING or by force, and force  *)
(* is used on an overridden intent only.                                   *)
StatesMove ==
    \/ UNCHANGED states
    \/ \E i : states[i] = "ADMITTED" /\ states' = [states EXCEPT ![i] = "RUNNING"]
    \/ \E i, s : /\ s \in {"HALTED", "TERMINATED"} /\ Overrides(i) # {}
                 /\ states' = [states EXCEPT ![i] = s]

LEMMA StatesStep ==
  ASSUME TypeInv, AnswersInv, AcceptedInv, ScopedInv, [Next]_vars
  PROVE  StatesMove
<1>1. ASSUME NEW t \in Threads, ThreadStep(t)
      PROVE  StatesMove
  <2>1. CASE ForceState(t) \/ FinalForce(t)
    <3>1. out[t].err \in Conflicts
      <4>1. CASE ForceState(t)
        BY <4>1 DEF ForceState, AnswersInv, Holds
      <4>2. CASE FinalForce(t)
        <5>1. Withdrawn(out[t])
          BY <4>2 DEF FinalForce, AnswersInv, Holds
        <5>2. QED
          BY <5>1, AnswerFields DEF Withdrawn
      <4>3. QED
        BY <2>1, <4>1, <4>2
    <3>2. Overrides(Intent(t)) # {}
      BY <3>1 DEF ScopedInv, Told
    <3>3. QED
      BY <2>1, <3>2 DEF ForceState, FinalForce, Forcibly, ForcedState, StatesMove
  <2>2. CASE TransitionToRunning(t)
    <3>1. ASSUME Current(Intent(t)) = expect[t], "RUNNING" \in legalTransitions[Current(Intent(t))]
          PROVE  states[Intent(t)] = "ADMITTED"
      <4>1. Current(Intent(t)) \in ExecStates
        BY DEF Current, TypeInv, TypeOK, ExecStates
      <4>2. Current(Intent(t)) = "ADMITTED"
        BY <3>1, <4>1 DEF legalTransitions, ExecStates
      <4>3. QED
        BY <4>2 DEF Current
    <3>2. QED
      BY <2>2, <3>1 DEF TransitionToRunning, Transition, StatesMove
  <2>3. CASE UNCHANGED states
    BY <2>3 DEF StatesMove
  <2>4. QED
    BY <1>1, <2>1, <2>2, <2>3 DEF ThreadStep, CheckLedger, CheckTerminated, CheckInterrupted,
       GREGates, GRETerminated, GREInterrupted, GRECorrection, ProviderGates, FinalTerminated,
       FinalCorrection, FinalInterrupted, Receive, TimeOut, Gate, RecheckTerminated,
       RecheckInterrupted, WriteDecision, ReadCurrent, StartGenerate, WriteExecution
<1>2. ASSUME NEW o \in Operators, OperatorHandler(o) \/ OperatorStep(o)
      PROVE  StatesMove
  <2>1. CASE ForceOverride(o)
    <3>1. Overrides(oreq[o].intent) # {}
      BY <2>1 DEF ForceOverride, AcceptedInv, Accepted
    <3>2. QED
      BY <2>1, <3>1 DEF ForceOverride, Forcibly, StatesMove
  <2>2. CASE OperatorHandler(o) \/ StoreOverride(o) \/ operatorLedger(o)
    BY <2>2 DEF OperatorHandler, StoreOverride, operatorLedger, routerVars, StatesMove
  <2>3. QED
    BY <1>2, <2>1, <2>2 DEF OperatorStep
<1>3. ASSUME NEW t \in Threads, RejectMalformed(t) \/ RouteHandler(t) \/ RunWorkflow(t)
      PROVE  StatesMove
  BY <1>3 DEF RejectMalformed, RouteHandler, RunWorkflow, Turned, Call, StatesMove
<1>4. QED
  BY <1>1, <1>2, <1>3 DEF Next, Quiescent, RequestStep, ProviderReturns, SteerDrift, vars,
     routerVars, StatesMove

LEMMA TerminalStays ==
  ASSUME TypeOK, StatesMove, NEW i \in Intents, IsTerminal(states[i])
  PROVE  IsTerminal(states'[i])
BY DEF TypeOK, StatesMove, IsTerminal

LEMMA TerminalIsForced ==
  ASSUME TypeOK, StatesMove, NEW i \in Intents, IsTerminal(states'[i])
  PROVE  IsTerminal(states[i]) \/ Overrides(i) # {}
BY DEF TypeOK, StatesMove, IsTerminal

LEMMA OperatorAccepted ==
  ASSUME TypeInv, AcceptedInv, StatesMove, [Next]_vars,
         NEW o \in Operators, OperatorHandler(o) \/ OperatorStep(o)
  PROVE  AcceptedInv'
<1> SUFFICES ASSUME NEW u \in Operators
             PROVE  Accepted(u)'
  BY DEF AcceptedInv
<1>1. Accepted(u) /\ Accepted(o)
  BY DEF AcceptedInv
<1>2. opc[u] \in {"flag", "force", "ledger", "done"} => oreq[u].intent \in Intents
  BY DEF TypeInv, AcceptedNamesIntent
<1>3. CASE opc'[u] = opc[u] /\ oreq'[u] = oreq[u]
  <2>1. Overrides(oreq[u].intent) \subseteq Overrides(oreq[u].intent)'
    <3>1. \A i : Overrides(i) \subseteq Overrides(i)'
      BY OverridesGrow
    <3>2. QED
      BY <1>3, <3>1 DEF Overrides
  <2>2. opc[u] \in {"ledger", "done"} => IsTerminal(states'[oreq[u].intent])
    BY <1>1, <1>2, TerminalStays DEF Accepted, TypeInv
  <2>3. QED
    BY <1>1, <1>3, <2>1, <2>2 DEF Accepted
<1>4. CASE u = o /\ OperatorHandler(o)
  BY <1>4 DEF OperatorHandler, Accepted, TypeInv, TypeOK
<1>5. CASE u = o /\ StoreOverride(o)
  <2>1. oreq' = oreq /\ opc'[o] = "force" /\ opc[o] = "flag"
    BY <1>5 DEF StoreOverride, TypeInv, TypeOK
  <2>2. (oreq[o].kind \in Overrides(oreq[o].intent))'
    BY <1>5, <2>1 DEF StoreOverride, Interrupt, Correct, Terminate, Overrides
  <2>3. QED
    BY <1>1, <1>5, <2>1, <2>2 DEF Accepted
<1>6. CASE u = o /\ ForceOverride(o)
  <2>1. oreq' = oreq /\ opc'[o] = "ledger" /\ opc[o] = "force" /\ UNCHANGED interruptVars
    BY <1>6 DEF ForceOverride, TypeInv, TypeOK
  <2>2. IsTerminal(states'[oreq[o].intent])
    BY <1>2, <1>6 DEF ForceOverride, Forcibly, IsTerminal, TypeInv, TypeOK
  <2>3. QED
    BY <1>1, <1>6, <2>1, <2>2 DEF Accepted, Overrides, interruptVars
<1>7. CASE u = o /\ operatorLedger(o)
  <2>1. /\ oreq' = oreq /\ opc'[o] = "done" /\ opc[o] = "ledger"
        /\ UNCHANGED <<interruptVars, states>>
    BY <1>7 DEF operatorLedger, TypeInv, TypeOK
  <2>2. QED
    BY <1>1, <1>7, <2>1 DEF Accepted, Overrides, interruptVars
<1>8. u # o => opc'[u] = opc[u] /\ oreq'[u] = oreq[u]
  BY DEF OperatorHandler, OperatorStep, StoreOverride, ForceOverride, operatorLedger, TypeInv, TypeOK
<1>9. QED
  BY <1>3, <1>4, <1>5, <1>6, <1>7, <1>8 DEF OperatorStep

(* Nothing else touches an operator call. *)
LEMMA BystanderAccepted ==
  ASSUME TypeInv, AcceptedInv, StatesMove, [Next]_vars, UNCHANGED operatorVars
  PROVE  AcceptedInv'
<1> SUFFICES ASSUME NEW u \in Operators
             PROVE  Accepted(u)'
  BY DEF AcceptedInv
<1>1. Accepted(u) /\ oreq' = oreq /\ opc' = opc
  BY DEF AcceptedInv, operatorVars
<1>2. opc[u] \in {"ledger", "done"} => oreq[u].intent \in Intents
  BY DEF TypeInv, AcceptedNamesIntent
<1>3. Overrides(oreq[u].intent) \subseteq Overrides(oreq[u].intent)'
  <2>1. \A i : Overrides(i) \subseteq Overrides(i)'
    BY OverridesGrow
  <2>2. QED
    BY <1>1, <2>1 DEF Overrides
<1>4. opc[u] \in {"ledger", "done"} => IsTerminal(states'[oreq[u].intent])
  BY <1>1, <1>2, TerminalStays DEF Accepted, TypeInv
<1>5. QED
  BY <1>1, <1>3, <1>4 DEF Accepted

LEMMA FlowTold ==
  ASSUME NEW p, NEW v, NEW a, NEW now, NEW q, NEW b, Flow(p, v, a, now, q, b),
         Told(a) => now # {}
  PROVE  Told(b) => now # {}
<1>1. ~Told(Admit) /\ ~Told(ExecutionDenied)
  BY DEF Told, Admit, ExecutionDenied, Answer, Conflicts
<1>2. QED
  BY <1>1 DEF Flow, Passes, Refuses, Admits, Withdraws, Forces, Writes, Fails, Told

LEMMA NextScoped ==
  ASSUME TypeInv, AnswersInv, AcceptedInv, ScopedInv, [Next]_vars
  PROVE  ScopedInv'
<1>1. \A i : Overrides(i) \subseteq Overrides(i)'
  BY OverridesGrow
<1>2. \A i \in Intents : IsTerminal(states'[i]) => Overrides(i)' # {}
  BY <1>1, StatesStep, TerminalIsForced DEF ScopedInv, TypeInv
<1>3. ASSUME NEW u \in Threads, out'[u] = out[u], req'[u] = req[u], Told(out'[u])
      PROVE  Overrides(Intent(u))' # {}
  <2>1. Overrides(Intent(u)) # {}
    BY <1>3 DEF ScopedInv, Told
  <2>2. QED
    BY <1>1, <1>3, <2>1 DEF Overrides, Intent
<1>4. ASSUME NEW t \in Threads, ThreadStep(t)
      PROVE  \A u \in Threads : Told(out'[u]) => Overrides(Intent(u))' # {}
  <2>1. PICK q, b : Moves(t, q, b)
    BY <1>4, ThreadMoves, TypeOKGoroutines DEF TypeInv
  <2>2. Told(b) => Overrides(Intent(t)) # {}
    BY <2>1, FlowTold DEF Moves, ScopedInv
  <2>3. req' = req /\ UNCHANGED interruptVars /\ out' = [out EXCEPT ![t] = b]
    BY <2>1 DEF Moves
  <2>4. ASSUME NEW u \in Threads, Told(out'[u])
        PROVE  Overrides(Intent(u))' # {}
    <3>1. CASE u = t
      <4>1. Told(b)
        BY <2>3, <2>4, <3>1 DEF TypeInv, TypeOK
      <4>2. QED
        BY <2>2, <2>3, <3>1, <4>1 DEF Overrides, Intent, interruptVars
    <3>2. CASE u # t
      BY <1>3, <2>3, <2>4, <3>2 DEF TypeInv, TypeOK
    <3>3. QED
      BY <3>1, <3>2
  <2>5. QED
    BY <2>4
<1>5. ASSUME NEW t \in Threads, RejectMalformed(t) \/ RouteHandler(t) \/ RunWorkflow(t)
      PROVE  \A u \in Threads : Told(out'[u]) => Overrides(Intent(u))' # {}
  <2>1. out[t] = NoAnswer /\ ~Told(NoAnswer)
    <3>1. pc[t] = "idle"
      BY <1>5 DEF RejectMalformed, RouteHandler, RunWorkflow, Turned, Call
    <3>2. QED
      BY <3>1 DEF AnswersInv, Holds, Told, NoAnswer, Answer, Conflicts
  <2>2. ~Told(out'[t])
    <3>1. \A err \in {"method", "malformed", "ErrWorkflow"} : ~Told(Answer(0, "", "", err))
      BY DEF Told, Answer, Conflicts
    <3>2. ASSUME NEW endpoint, NEW err \in {"method", "malformed", "ErrWorkflow"},
                 Turned(t, endpoint, err)
          PROVE  ~Told(out'[t])
      <4>1. out'[t] = Answer(0, "", "", err)
        BY <3>2, Zenon DEF Turned, TypeInv, TypeOK
      <4>2. QED
        BY <3>1, <4>1, Zenon
    <3>3. ASSUME NEW endpoint, NEW r, Call(t, endpoint, r)
          PROVE  ~Told(out'[t])
      BY <2>1, <3>3 DEF Call
    <3>4. QED
      BY <1>5, <3>2, <3>3 DEF RejectMalformed, RouteHandler, RunWorkflow
  <2>3. ASSUME NEW u \in Threads, u # t
        PROVE  out'[u] = out[u] /\ req'[u] = req[u]
    BY <1>5, <2>3 DEF RejectMalformed, RouteHandler, RunWorkflow, Turned, Call, TypeInv, TypeOK
  <2>4. QED
    BY <1>3, <2>2, <2>3
<1>6. CASE UNCHANGED <<out, req>>
  BY <1>2, <1>3, <1>6 DEF ScopedInv, Told
<1>7. (\A u \in Threads : Told(out'[u]) => Overrides(Intent(u))' # {}) => ScopedInv'
  BY <1>2 DEF ScopedInv, Told
<1>8. QED
  BY <1>4, <1>5, <1>6, <1>7 DEF Next, Quiescent, RequestStep, ProviderReturns, SteerDrift, vars,
     routerVars, threadVars, OperatorHandler, OperatorStep, StoreOverride, ForceOverride, operatorLedger

LEMMA NextAccepted ==
  ASSUME TypeInv, AnswersInv, AcceptedInv, ScopedInv, [Next]_vars
  PROVE  AcceptedInv'
<1>1. StatesMove
  BY StatesStep
<1>2. CASE UNCHANGED operatorVars
  BY <1>1, <1>2, BystanderAccepted
<1>3. CASE \E o \in Operators : OperatorHandler(o) \/ OperatorStep(o)
  BY <1>1, <1>3, OperatorAccepted
<1>4. QED
  BY <1>2, <1>3 DEF Next, Quiescent, RequestStep, RejectMalformed, RouteHandler, RunWorkflow, Turned, vars

OverridesInv == AcceptedInv /\ ScopedInv

(* An accepted operator call has the effect of its steps, for good, and    *)
(* overrides are felt on their own intents only.                           *)
THEOREM OverridesInvariant == Spec => []OverridesInv
<1>1. Init => OverridesInv
  <2>1. ASSUME Init
        PROVE  AcceptedInv
    BY <2>1 DEF Init, AcceptedInv, Accepted
  <2>2. ASSUME Init
        PROVE  ScopedInv
    BY <2>2 DEF Init, RouterInit, ExecutionInit, ScopedInv, Told, NoAnswer, Answer, Conflicts, IsTerminal
  <2>3. QED
    BY <2>1, <2>2 DEF OverridesInv
<1>2. TypeInv /\ AnswersInv /\ OverridesInv /\ [Next]_vars => OverridesInv'
  BY NextAccepted, NextScoped DEF OverridesInv
<1>3. QED
  BY <1>1, <1>2, TypeInvariant, AnswersInvariant, PTL DEF Spec

(* Once an operator call has forced the state of its intent, the override  *)
(* stays in the store and the intent stays HALTED or TERMINATED, whatever  *)
(* requests and operators do (ExecutionState.Forcibly, Transition).        *)
THEOREM OverridesAreFinal == Spec => []OverrideHolds
<1>1. OverridesInv => OverrideHolds
  BY DEF OverridesInv, AcceptedInv, Accepted, OverrideHolds
<1>2. QED
  BY <1>1, OverridesInvariant, PTL

(* A request is refused under Lambda.6 or answered 409, and an intent      *)
(* comes to a standstill, only if that very intent has been overridden.    *)
THEOREM OverridesReachTheirIntentOnly == Spec => []OverridesAreScoped
<1>1. OverridesInv => OverridesAreScoped
  <2> SUFFICES ASSUME OverridesInv
               PROVE  OverridesAreScoped
    OBVIOUS
  <2>1. \A t \in Threads : Status(t) = 409 => Told(out[t])
    BY DEF Status, Told, Conflicts
  <2>2. QED
    BY <2>1 DEF OverridesInv, ScopedInv, OverridesAreScoped, Told
<1>2. QED
  BY <1>1, OverridesInvariant, PTL

-----------------------------------------------------------------------------
(* The answer to a request on an intent already overridden. *)

(* A goroutine at p whose answer carries err, up against overrides b: the  *)
(* gate that answers with a conflict is still ahead, or has answered.      *)
Conflicted(p, err, b) ==
    LET answered == p \in {"force", "write", "done"} /\ err \in Conflicts
    IN  /\ "terminate" \in b => p \in BeforeTerminated \/ answered
        /\ "interrupt" \in b => p \in BeforeInterrupted \/ answered

ConflictInv == \A t \in Threads : Conflicted(pc[t], out[t].err, barred[t])

(* Over an intact ledger the first check lets every request pass. *)
LEMMA IntactPasses ==
  ASSUME Verify, NEW t \in Threads, ThreadStep(t), pc[t] = "verify",
         NEW q, NEW b, Moves(t, q, b), GoroutineTypes
  PROVE  q = "terminated"
<1>1. CheckLedger(t)
  BY DEF ThreadStep, CheckLedger, CheckTerminated, CheckInterrupted, GREGates, GRETerminated,
     GREInterrupted, GRECorrection, ProviderGates, FinalTerminated, FinalCorrection,
     FinalInterrupted, Receive, TimeOut, Gate, RecheckTerminated, RecheckInterrupted, ForceState,
     WriteDecision, FinalForce, ReadCurrent, TransitionToRunning, StartGenerate, WriteExecution
<1>2. pc' = [pc EXCEPT ![t] = "terminated"]
  BY <1>1 DEF CheckLedger, Gate, Goto
<1>3. QED
  BY <1>2 DEF Moves, GoroutineTypes

LEMMA FlowConflicted ==
  ASSUME NEW p, NEW v, NEW a, NEW b, NEW f, NEW now, NEW q, NEW c,
         Guarded(p, a.result, b, f, now), Conflicted(p, a.err, b), Flow(p, v, a, now, q, c),
         p = "verify" => q = "terminated"
  PROVE  Conflicted(q, c.err, b)
<1> USE DEF Conflicted, Guarded, Refused, BeforeTerminated, BeforeInterrupted
<1>1. CASE Passes(p, a, now, q, c)
  BY <1>1 DEF Passes, PassesTo, StoppedAt
<1>2. CASE Refuses(p, now, q, c)
  BY <1>2 DEF Refuses, Gates, Admission, Conflicts
<1>3. CASE Writes(p, v, a, q, c)
  BY <1>3 DEF Writes
<1>4. CASE Forces(p, a, q, c)
  BY <1>4 DEF Forces
<1>5. QED
  BY <1>1, <1>2, <1>3, <1>4 DEF Flow, Admits, Withdraws, Fails

LEMMA NextConflict ==
  ASSUME TypeInv, ChainInv, PrecedenceInv, ConflictInv, [Next]_vars
  PROVE  ConflictInv'
<1>1. ASSUME NEW t \in Threads, ThreadStep(t)
      PROVE  ConflictInv'
  <2>1. PICK q, c : Moves(t, q, c)
    BY <1>1, ThreadMoves, TypeOKGoroutines DEF TypeInv
  <2>2. pc[t] = "verify" => q = "terminated"
    BY <1>1, <2>1, IntactPasses, TypeOKGoroutines DEF TypeInv, ChainInv, ChainIntact
  <2>3. Conflicted(q, c.err, barred[t])
    BY <2>1, <2>2, FlowConflicted, ThreadFacts DEF Moves, ConflictInv
  <2>4. QED
    BY <2>1, <2>3 DEF Moves, ConflictInv, TypeInv, TypeOK
<1>2. ASSUME NEW t \in Threads, NEW endpoint, NEW err, Turned(t, endpoint, err)
      PROVE  ConflictInv'
  <2>1. "terminate" \notin barred[t] /\ "interrupt" \notin barred[t]
    BY <1>2 DEF Turned, ConflictInv, Conflicted, BeforeTerminated, BeforeInterrupted
  <2>2. QED
    BY <1>2, <2>1 DEF Turned, Goto, ConflictInv, Conflicted, TypeInv, TypeOK, historyVars
<1>3. ASSUME NEW t \in Threads, NEW endpoint, NEW r, Call(t, endpoint, r)
      PROVE  ConflictInv'
  BY <1>3 DEF Call, Goto, ConflictInv, Conflicted, BeforeTerminated, BeforeInterrupted, TypeInv, TypeOK
<1>4. ASSUME NEW t \in Threads, RejectMalformed(t) \/ RouteHandler(t) \/ RunWorkflow(t)
      PROVE  ConflictInv'
  BY <1>2, <1>3, <1>4 DEF RejectMalformed, RouteHandler, RunWorkflow
<1>5. CASE UNCHANGED <<pc, out, barred>>
  BY <1>5 DEF ConflictInv
<1>6. QED
  BY <1>1, <1>4, <1>5 DEF Next, Quiescent, RequestStep, ProviderReturns, SteerDrift, vars, historyVars,
     routerVars, threadVars, OperatorHandler, OperatorStep, StoreOverride, ForceOverride, operatorLedger

(* A request on an intent that was terminated or interrupted before it     *)
(* arrived is answered 409, whatever else goes on (Router.Admit's first    *)
(* two override checks, the handlers' status codes).                       *)
THEOREM OverriddenIsConflict == Spec => []OverriddenConflicts
<1>1. Init => ConflictInv
  BY DEF Init, RouterInit, ConflictInv, Conflicted
<1>2. TypeInv /\ ChainInv /\ PrecedenceInv /\ ConflictInv /\ [Next]_vars => ConflictInv'
  BY NextConflict
<1>3. ConflictInv => OverriddenConflicts
  BY DEF ConflictInv, Conflicted, BeforeTerminated, BeforeInterrupted, OverriddenConflicts, Status,
     Conflicts
<1>4. QED
  BY <1>1, <1>2, <1>3, TypeInvariant, ChainInvariant, PrecedenceInvariant, PTL DEF Spec
=============================================================================
