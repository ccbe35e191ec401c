-------------------------- MODULE ServerImplements --------------------------
(***************************************************************************)
(* The router service implements GovernedRuntime, for any number of        *)
(* requests and operator calls.  The phase of a request is a function of   *)
(* its goroutine's place, endpoint and answer, and the audit trail is the  *)
(* ledger, entry by entry; so each step is matched by looking at where the *)
(* goroutine goes (Flow) and at what it appends (RecordsInv).              *)
(***************************************************************************)
EXTENDS ServerRefinement, ServerRecords, SequenceTheorems

(* The admission has not been withdrawn. *)
Stood(a) == a.result = "ADMIT" /\ a.err = ""

(* PhaseOf, as a function of one goroutine's place, endpoint and answer. *)
Phase(p, v, a) ==
    IF p \in {"await", "execution"} \/ (p = "write" /\ a.attempt = 2) THEN "executing"
    ELSE IF p \in Admission                            THEN "requested"
    ELSE IF p \in Execution                            THEN "admitted"
    ELSE IF a.attempt = 0                              THEN "idle"
    ELSE IF ~Stood(a)                                  THEN "halted"
    ELSE IF v = "route"                                THEN "admitted"
    ELSE "completed"

(* The variables of GovernedRuntime, under the refinement mapping. *)
phases   == [t \in Threads |-> PhaseOf(t)]
subjects == [t \in Threads |-> Intent(t)]
blocks   == [t \in Threads |-> barred[t] \cap OverrideKinds # {}]
trails   == [i \in 1..Len(entries) |-> RecordOf(entries[i].body)]

LEMMA PhaseOfPhase ==
  ASSUME NEW t
  PROVE  /\ PhaseOf(t) = Phase(pc[t], via[t], out[t])
         /\ PhaseOf(t)' = Phase(pc'[t], via'[t], out'[t])
BY DEF PhaseOf, Phase, Stood, Executing, Stands

-----------------------------------------------------------------------------
(* The trail. *)

LEMMA AppendIsFunction ==
  ASSUME NEW n \in Nat, NEW S, NEW f \in [1..n -> S], NEW e \in S, NEW g \in [1..(n + 1) -> S],
         g[n + 1] = e, \A i \in 1..n : g[i] = f[i]
  PROVE  g = Append(f, e)
<1>1. f \in Seq(S) /\ g \in Seq(S)
  BY SeqDef
<1>2. Len(f) = n /\ Len(g) = n + 1
  BY <1>1
<1>3. QED
  BY <1>1, <1>2, SeqEqual

LEMMA TrailAppends ==
  ASSUME TypeOK, NEW b \in Bodies, AppendEntry(b)
  PROVE  trails' = Append(trails, RecordOf(b))
<1> DEFINE S == {RecordOf(c) : c \in Bodies}
<1>1. PICK n \in Nat : /\ Len(entries) = n /\ Len(entries') = n + 1 /\ entries'[n + 1].body = b
                      /\ \A i \in 1..n : entries'[i] = entries[i]
  BY AppendedEntry
<1>2. \A i \in 1..n : entries[i].body \in Bodies
  <2>1. entries \in Seq(Entries)
    BY DEF TypeOK
  <2>2. \A i \in 1..n : entries[i] \in Entries
    BY <1>1, <2>1
  <2>3. QED
    BY <2>2 DEF Entries
<1>3. trails = [i \in 1..n |-> RecordOf(entries[i].body)]
  BY <1>1 DEF trails
<1>4. trails' = [i \in 1..(n + 1) |-> RecordOf(entries'[i].body)]
  BY <1>1 DEF trails, RecordOf
<1>5. trails \in [1..n -> S] /\ RecordOf(b) \in S
  BY <1>2, <1>3
<1>6. trails' \in [1..(n + 1) -> S]
  <2>1. \A i \in 1..(n + 1) : entries'[i].body \in Bodies
    BY <1>1, <1>2
  <2>2. QED
    BY <1>4, <2>1
<1>7. trails'[n + 1] = RecordOf(b) /\ \A i \in 1..n : trails'[i] = trails[i]
  BY <1>1, <1>3, <1>4
<1>8. QED
  BY <1>5, <1>6, <1>7, AppendIsFunction

LEMMA TrailKept ==
  ASSUME UNCHANGED ledgerVars
  PROVE  UNCHANGED trails
BY DEF ledgerVars, trails, RecordOf

-----------------------------------------------------------------------------
(* The phases. *)

LEMMA NoAnswerAttempt == NoAnswer.attempt = 0
BY DEF NoAnswer, Answer

LEMMA RefusalAttempt ==
  ASSUME NEW a, Refusal(a)
  PROVE  a.attempt = 1 /\ a.result # "ADMIT"
BY DEF Refusal

LEMMA PhaseRequested ==
  ASSUME NEW p \in Admission, NEW v, NEW a, p = "write" => a.attempt # 2
  PROVE  Phase(p, v, a) = "requested"
BY DEF Phase, Admission

LEMMA PhaseAdmitted ==
  ASSUME NEW p \in Execution \ {"await", "execution"}, NEW v, NEW a
  PROVE  Phase(p, v, a) = "admitted"
BY DEF Phase, Admission, Execution

LEMMA PhaseExecuting ==
  ASSUME NEW p, NEW v, NEW a, p \in {"await", "execution"} \/ (p = "write" /\ a.attempt = 2)
  PROVE  Phase(p, v, a) = "executing"
BY DEF Phase

LEMMA PhaseIdle ==
  ASSUME NEW p \in {"idle", "done"}, NEW v, NEW a, a.attempt = 0
  PROVE  Phase(p, v, a) = "idle"
BY DEF Phase, Admission, Execution

LEMMA PhaseHalted ==
  ASSUME NEW v, NEW a, a.attempt # 0, ~Stood(a)
  PROVE  Phase("done", v, a) = "halted"
BY DEF Phase, Admission, Execution

LEMMA PhaseStands ==
  ASSUME NEW v, NEW a, a.attempt # 0, Stood(a)
  PROVE  Phase("done", v, a) = IF v = "route" THEN "admitted" ELSE "completed"
BY DEF Phase, Admission, Execution

(* A goroutine that writes nothing keeps its phase, except where it calls  *)
(* the provider and where its admission is withdrawn.                      *)
LEMMA QuietPhase ==
  ASSUME NEW p, NEW v, NEW a, NEW g, NEW now, NEW q, NEW b,
         Holds(p, v, a, g), Flow(p, v, a, now, q, b), p \notin {"write", "execution"}
  PROVE  \/ p = "generate" /\ Phase(p, v, a) = "admitted" /\ Phase(q, v, b) = "executing"
         \/ p = "final.force" /\ Phase(p, v, a) = "admitted" /\ Phase(q, v, b) = "halted"
         \/ Phase(q, v, b) = Phase(p, v, a)
<1>1. ExecutionDenied.attempt = 2 /\ Admit.attempt = 1
  BY DEF Admit, ExecutionDenied, Answer
<1>2. CASE Passes(p, a, now, q, b)
  BY <1>2 DEF Passes, PassesTo, Phase, Admission, Execution
<1>3. CASE Refuses(p, now, q, b)
  <2>1. q \in {"force", "write"} /\ b.attempt = 1 /\ p \in Gates
    BY <1>3, RefusalAttempt DEF Refuses
  <2>2. Phase(p, v, a) = "requested" /\ Phase(q, v, b) = "requested"
    BY <2>1, PhaseRequested DEF Gates, Admission
  <2>3. QED
    BY <2>2
<1>4. CASE Admits(p, now, q, b)
  BY <1>1, <1>4 DEF Admits, Phase, Admission
<1>5. CASE Withdraws(p, a, now, q, b)
  BY <1>5 DEF Withdraws, Phase, Admission, Execution
<1>6. CASE Forces(p, a, q, b)
  <2>1. CASE p = "force"
    <3>1. q = "write" /\ b = a /\ a.attempt = 1
      BY <1>6, <2>1, RefusalAttempt DEF Forces, Holds
    <3>2. Phase(p, v, a) = "requested" /\ Phase(q, v, b) = "requested"
      BY <2>1, <3>1, PhaseRequested DEF Admission
    <3>3. QED
      BY <3>2
  <2>2. CASE p = "final.force"
    <3>1. PICK err \in Conflicts : a = Answer(1, "ADMIT", "usl.gate", err)
      BY <2>2 DEF Holds, Withdrawn
    <3>2. a.attempt = 1 /\ ~Stood(a)
      <4>1. a.attempt = 1 /\ a.err = err
        BY <3>1, AnswerFields
      <4>2. ~Stood(a)
        BY <4>1 DEF Stood, Conflicts
      <4>3. QED
        BY <4>1, <4>2
    <3>3. q = "done" /\ b = a
      BY <1>6, <2>2 DEF Forces
    <3>4. Phase(q, v, b) = "halted" /\ Phase(p, v, a) = "admitted"
      <4>1. Phase("done", v, a) = "halted"
        BY <3>2, PhaseHalted
      <4>2. QED
        BY <2>2, <3>3, <4>1, PhaseAdmitted DEF Execution
    <3>5. QED
      BY <2>2, <3>4
  <2>3. QED
    BY <1>6, <2>1, <2>2 DEF Forces
<1>7. CASE Fails(p, q, b)
  BY <1>1, <1>7 DEF Fails, Phase
<1>8. CASE p = "generate" /\ q = "await" /\ b = a
  BY <1>8 DEF Phase, Admission, Execution
<1>9. QED
  BY <1>2, <1>3, <1>4, <1>5, <1>6, <1>7, <1>8 DEF Flow, Writes

(* A step of goroutine t moves its own phase only. *)
LEMMA PhaseStep ==
  ASSUME NEW t \in Threads,
         \A u \in Threads \ {t} : pc'[u] = pc[u] /\ via'[u] = via[u] /\ out'[u] = out[u]
  PROVE  phases' = [phases EXCEPT ![t] = Phase(pc'[t], via'[t], out'[t])]
<1>1. \A u \in Threads : /\ PhaseOf(u) = Phase(pc[u], via[u], out[u])
                         /\ PhaseOf(u)' = Phase(pc'[u], via'[u], out'[u])
  BY PhaseOfPhase
<1>2. phases' = [u \in Threads |-> Phase(pc'[u], via'[u], out'[u])]
  BY <1>1 DEF phases
<1>3. phases = [u \in Threads |-> Phase(pc[u], via[u], out[u])]
  BY <1>1 DEF phases
<1>4. QED
  BY <1>2, <1>3

LEMMA SubjectsAndBlocksKept ==
  ASSUME UNCHANGED <<req, barred>>
  PROVE  UNCHANGED <<subjects, blocks>>
BY DEF subjects, blocks, Intent

-----------------------------------------------------------------------------
(* What a step of the service has to show to be one of GovernedRuntime. *)

AbstractStep == [Abstract!AbstractNext]_(Abstract!abstractVars)

Goes(t, from, to) == phases[t] = from /\ phases' = [phases EXCEPT ![t] = to]

Logs(what, by, s) == trails' = Append(trails, [what |-> what, by |-> by, subject |-> s])

LEMMA IsStutter ==
  ASSUME UNCHANGED <<phases, subjects, blocks, trails>>
  PROVE  AbstractStep
BY DEF AbstractStep, Abstract!abstractVars, phases, subjects, blocks, trails

LEMMA IsWithdraw ==
  ASSUME NEW t \in Threads, Goes(t, "admitted", "halted"), UNCHANGED <<subjects, blocks, trails>>
  PROVE  AbstractStep
<1>1. Abstract!Withdraw(t)
  BY DEF Goes, Abstract!Withdraw, Abstract!Advance, phases, subjects, blocks, trails
<1>2. QED
  BY <1>1 DEF AbstractStep, Abstract!AbstractNext

LEMMA IsRefuse ==
  ASSUME NEW t \in Threads, NEW from \in {"requested", "executing"}, Goes(t, from, "halted"),
         Logs("refuse", t, Intent(t)), UNCHANGED <<subjects, blocks>>
  PROVE  AbstractStep
<1>1. Abstract!Refuse(t)
  BY DEF Goes, Logs, Abstract!Refuse, Abstract!Advance, Abstract!OnRecord, Abstract!Entry,
     phases, subjects, blocks, trails
<1>2. QED
  BY <1>1 DEF AbstractStep, Abstract!AbstractNext

LEMMA IsComplete ==
  ASSUME NEW t \in Threads, Goes(t, "executing", "completed"),
         Logs("result", t, Intent(t)), UNCHANGED <<subjects, blocks>>
  PROVE  AbstractStep
<1>1. Abstract!Complete(t)
  BY DEF Goes, Logs, Abstract!Complete, Abstract!Advance, Abstract!OnRecord, Abstract!Entry,
     phases, subjects, blocks, trails
<1>2. QED
  BY <1>1 DEF AbstractStep, Abstract!AbstractNext

LEMMA IsAdmit ==
  ASSUME NEW t \in Threads, Goes(t, "requested", "admitted"), barred[t] \cap OverrideKinds = {},
         Logs("admit", t, Intent(t)), UNCHANGED <<subjects, blocks>>
  PROVE  AbstractStep
<1>1. Abstract!AdmitRequest(t)
  BY DEF Goes, Logs, Abstract!AdmitRequest, Abstract!Advance, Abstract!OnRecord, Abstract!Entry,
     phases, subjects, blocks, trails
<1>2. QED
  BY <1>1 DEF AbstractStep, Abstract!AbstractNext

LEMMA IsOverrideSubject ==
  ASSUME NEW o \in Operators, NEW s \in Intents, Logs("override", o, s),
         UNCHANGED <<phases, subjects, blocks>>
  PROVE  AbstractStep
<1>1. Abstract!OverrideSubject(o)
  BY DEF Logs, Abstract!OverrideSubject, Abstract!OnRecord, Abstract!Entry,
     phases, subjects, blocks, trails
<1>2. QED
  BY <1>1 DEF AbstractStep, Abstract!AbstractNext

(* An override of s is among the first n records. *)
OverrideLogged(n, s) ==
    \E k \in 1..(n - 1) : trails[k].what = "override" /\ trails[k].subject = s

LEMMA IsBeginExecution ==
  ASSUME NEW t \in Threads, Goes(t, "admitted", "executing"), UNCHANGED <<subjects, blocks, trails>>,
         \A n \in 1..Len(trails) :
            trails[n] = [what |-> "admit", by |-> t, subject |-> Intent(t)]
            => ~OverrideLogged(n, Intent(t))
  PROVE  AbstractStep
<1>1. Abstract!BeginExecution(t)
  BY DEF Goes, OverrideLogged, Abstract!BeginExecution, Abstract!Advance, Abstract!Entry,
     Abstract!OverriddenBefore, phases, subjects, blocks, trails
<1>2. QED
  BY <1>1 DEF AbstractStep, Abstract!AbstractNext

LEMMA IsBeginRequest ==
  ASSUME NEW t \in Threads, Goes(t, "idle", "requested"), UNCHANGED trails,
         NEW s \in Intents \cup {""}, NEW b \in BOOLEAN,
         subjects' = [subjects EXCEPT ![t] = s], blocks' = [blocks EXCEPT ![t] = b],
         OverrideLogged(Len(trails) + 1, s) => b
  PROVE  AbstractStep
<1>1. Abstract!BeginRequest(t)
  BY DEF Goes, OverrideLogged, Abstract!BeginRequest, Abstract!Advance, Abstract!OverriddenBefore,
     phases, subjects, blocks, trails
<1>2. QED
  BY <1>1 DEF AbstractStep, Abstract!AbstractNext

LEMMA TrailLength ==
  ASSUME TypeOK
  PROVE  Len(trails) = Len(entries) /\ Len(entries) \in Nat
<1> DEFINE S == {RecordOf(c) : c \in Bodies}
<1>1. PICK n \in Nat : n = Len(entries)
  BY DEF TypeOK
<1>2. \A i \in 1..n : entries[i].body \in Bodies
  <2>1. entries \in Seq(Entries)
    BY DEF TypeOK
  <2>2. \A i \in 1..n : entries[i] \in Entries
    BY <1>1, <2>1
  <2>3. QED
    BY <2>2 DEF Entries
<1>3. trails \in [1..n -> S]
  BY <1>1, <1>2 DEF trails
<1> HIDE DEF S
<1>4. trails \in Seq(S)
  BY <1>3, SeqDef
<1>5. QED
  BY <1>1, <1>3, <1>4

(* An override on record in the trail is one in the ledger. *)
LEMMA LoggedOverride ==
  ASSUME TypeOK, NEW n \in 1..(Len(entries) + 1), NEW s, OverrideLogged(n, s)
  PROVE  \E i \in Positions : i < n /\ IsOverride(Body(i), s)
<1>1. Len(entries) \in Nat
  BY TrailLength
<1>2. PICK k \in 1..(n - 1) : trails[k].what = "override" /\ trails[k].subject = s
  BY DEF OverrideLogged
<1>3. k \in Positions /\ k < n
  BY <1>1 DEF Positions
<1>4. trails[k] = RecordOf(Body(k))
  BY <1>3 DEF trails, Positions, Body
<1>5. Body(k).kind \in OverrideKinds /\ Body(k).intent = s
  BY <1>2, <1>4 DEF RecordOf
<1>6. QED
  BY <1>3, <1>5 DEF IsOverride

-----------------------------------------------------------------------------
(* Every step of the service is one of GovernedRuntime, or none. *)

LEMMA MovesPhase ==
  ASSUME GoroutineTypes, NEW t \in Threads, NEW q, NEW b, Moves(t, q, b)
  PROVE  /\ phases[t] = Phase(pc[t], via[t], out[t])
         /\ phases' = [phases EXCEPT ![t] = Phase(q, via[t], b)]
         /\ UNCHANGED <<subjects, blocks>>
<1>1. pc'[t] = q /\ out'[t] = b /\ via' = via
  BY DEF Moves, GoroutineTypes
<1>2. \A u \in Threads \ {t} : pc'[u] = pc[u] /\ via'[u] = via[u] /\ out'[u] = out[u]
  BY DEF Moves, GoroutineTypes
<1>3. phases' = [phases EXCEPT ![t] = Phase(q, via[t], b)]
  BY <1>1, <1>2, PhaseStep
<1>4. phases[t] = Phase(pc[t], via[t], out[t])
  BY PhaseOfPhase DEF phases
<1>5. QED
  BY <1>3, <1>4, SubjectsAndBlocksKept DEF Moves

(* Only an admission that no override precedes on record is executed. *)
LEMMA ExecutedUnoverridden ==
  ASSUME TypeInv, RecordsInv, NEW t \in Threads, pc[t] = "generate", NEW n \in 1..Len(trails),
         trails[n] = [what |-> "admit", by |-> t, subject |-> Intent(t)]
  PROVE  ~OverrideLogged(n, Intent(t))
<1>1. Len(trails) = Len(entries) /\ Len(entries) \in Nat
  BY TrailLength DEF TypeInv
<1>2. n \in Positions
  BY <1>1 DEF Positions
<1>3. trails[n] = RecordOf(Body(n))
  BY <1>2 DEF trails, Positions, Body
<1>4. Body(n).kind \notin OverrideKinds /\ Body(n).kind # "execution" /\ Body(n).id[1] = t
  BY <1>3 DEF RecordOf
<1>5. Body(n).kind \in {"decision", "execution"} \cup OverrideKinds
  <2>1. entries \in Seq(Entries)
    BY DEF TypeInv, TypeOK
  <2>2. entries[n] \in Entries
    BY <1>2, <2>1 DEF Positions
  <2>3. QED
    BY <2>2 DEF Entries, Bodies, Body
<1>6. n \in Own(t)
  BY <1>2, <1>4, <1>5 DEF Own, OwnBody
<1>7. Body(n) = AdmissionBody(t)
  <2>1. Once(t, AdmissionBody(t))
    BY DEF RecordsInv, RecordedInv, Recorded, InExecution, Execution
  <2>2. QED
    BY <1>6, <2>1 DEF Once
<1>8. IsAdmission(Body(n), t)
  BY <1>7 DEF IsAdmission, AdmissionBody
<1>9. ASSUME OverrideLogged(n, Intent(t))
      PROVE  FALSE
  <2>1. PICK i \in Positions : i < n /\ IsOverride(Body(i), Intent(t))
    <3>1. n \in 1..(Len(entries) + 1)
      BY <1>1
    <3>2. QED
      BY <1>9, <3>1, LoggedOverride DEF TypeInv
  <2>2. Caught(pc[t], Body(i).kind)
    BY <1>2, <1>8, <2>1 DEF RecordsInv, AuditInv, Audited
  <2>3. QED
    BY <2>2 DEF Caught
<1>10. QED
  BY <1>9

LEMMA QuietImplements ==
  ASSUME TypeInv, AnswersInv, RecordsInv, NEW t \in Threads, NEW q, NEW b, Moves(t, q, b),
         UNCHANGED ledgerVars, pc[t] \notin {"write", "execution"}
  PROVE  AbstractStep
<1>1. /\ phases[t] = Phase(pc[t], via[t], out[t])
      /\ phases' = [phases EXCEPT ![t] = Phase(q, via[t], b)]
      /\ UNCHANGED <<subjects, blocks>>
  BY MovesPhase, TypeOKGoroutines DEF TypeInv
<1>2. UNCHANGED trails
  BY TrailKept
<1>3. /\ Holds(pc[t], via[t], out[t], gen[t])
      /\ Flow(pc[t], via[t], out[t], Overrides(Intent(t)), q, b)
  BY DEF AnswersInv, Moves
<1>4. CASE /\ pc[t] = "generate" /\ Phase(pc[t], via[t], out[t]) = "admitted"
           /\ Phase(q, via[t], b) = "executing"
  <2>1. Goes(t, "admitted", "executing")
    BY <1>1, <1>4 DEF Goes
  <2>2. QED
    BY <1>1, <1>2, <1>4, <2>1, ExecutedUnoverridden, IsBeginExecution
<1>5. CASE /\ Phase(pc[t], via[t], out[t]) = "admitted" /\ Phase(q, via[t], b) = "halted"
  BY <1>1, <1>2, <1>5, IsWithdraw DEF Goes
<1>6. CASE Phase(q, via[t], b) = Phase(pc[t], via[t], out[t])
  <2>1. phases' = phases
    BY <1>1, <1>6 DEF phases
  <2>2. QED
    BY <1>1, <1>2, <2>1, IsStutter
<1>7. QED
  BY <1>3, <1>4, <1>5, <1>6, QuietPhase

LEMMA DecisionImplements ==
  ASSUME TypeInv, AnswersInv, PrecedenceInv, NEW t \in Threads, WriteDecision(t)
  PROVE  AbstractStep
<1> DEFINE q == IF via[t] = "workflow" /\ out[t].result = "ADMIT" THEN "final.terminated" ELSE "done"
<1>1. /\ pc[t] = "write" /\ out' = out /\ via' = via /\ pc' = [pc EXCEPT ![t] = q]
      /\ UNCHANGED <<req, barred>>
  BY DEF WriteDecision, Goto, historyVars
<1>2. UNCHANGED <<subjects, blocks>>
  BY <1>1, SubjectsAndBlocksKept
<1>3. phases[t] = Phase("write", via[t], out[t])
  BY <1>1, PhaseOfPhase DEF phases
<1>4. phases' = [phases EXCEPT ![t] = Phase(q, via[t], out[t])]
  <2>1. pc'[t] = q /\ \A u \in Threads \ {t} : pc'[u] = pc[u]
    BY <1>1 DEF TypeInv, TypeOK
  <2>2. QED
    BY <1>1, <2>1, PhaseStep
<1>5. trails' = Append(trails, RecordOf(DecisionBody(t)))
  BY WrittenBodies, TrailAppends DEF WriteDecision, TypeInv
<1>6. RecordOf(DecisionBody(t)) =
        [what |-> IF out[t].result = "ADMIT" THEN "admit" ELSE "refuse", by |-> t,
         subject |-> Intent(t)]
  BY DEF RecordOf, DecisionBody, OverrideKinds
<1>7. Refusal(out[t]) \/ out[t] = Admit \/ out[t] = ExecutionDenied
  BY <1>1 DEF AnswersInv, Holds
<1>8. /\ Admit.attempt = 1 /\ Admit.result = "ADMIT" /\ Stood(Admit)
      /\ ExecutionDenied.attempt = 2 /\ ExecutionDenied.result = "DENY"
  BY DEF Admit, ExecutionDenied, Answer, Stood
<1>9. ASSUME NEW from \in {"requested", "executing"}, phases[t] = from,
             out[t].result # "ADMIT", out[t].attempt # 0
      PROVE  AbstractStep
  <2>1. ~Stood(out[t])
    BY <1>9 DEF Stood
  <2>2. Phase("done", via[t], out[t]) = "halted"
    BY <1>9, <2>1, PhaseHalted
  <2>3. q = "done"
    BY <1>9
  <2>4. Goes(t, from, "halted")
    BY <1>4, <1>9, <2>2, <2>3 DEF Goes
  <2>5. Logs("refuse", t, Intent(t))
    BY <1>5, <1>6, <1>9 DEF Logs
  <2>6. QED
    BY <1>2, <2>4, <2>5, IsRefuse
<1>10. CASE out[t] = ExecutionDenied
  BY <1>3, <1>8, <1>9, <1>10, PhaseExecuting
<1>11. CASE Refusal(out[t])
  <2>1. out[t].attempt = 1 /\ out[t].result # "ADMIT"
    BY <1>11, RefusalAttempt
  <2>2. phases[t] = "requested"
    BY <1>3, <2>1, PhaseRequested DEF Admission
  <2>3. QED
    BY <1>9, <2>1, <2>2
<1>12. CASE out[t] = Admit
  <2>1. phases[t] = "requested"
    BY <1>3, <1>8, <1>12, PhaseRequested DEF Admission
  <2>2. Phase(q, via[t], out[t]) = "admitted"
    <3>1. CASE via[t] = "workflow"
      BY <1>8, <1>12, <3>1, PhaseAdmitted DEF Execution
    <3>2. CASE via[t] = "route"
      <4>1. Phase("done", via[t], out[t]) = "admitted"
        BY <1>8, <1>12, <3>2, PhaseStands
      <4>2. QED
        BY <3>2, <4>1
    <3>3. QED
      BY <3>1, <3>2 DEF TypeInv, TypeOK
  <2>3. barred[t] \cap OverrideKinds = {}
    <3>1. Guarded("write", "ADMIT", barred[t], inflight[t], Overrides(Intent(t)))
      BY <1>1, <1>8, <1>12, ThreadFacts
    <3>2. QED
      BY <3>1 DEF Guarded, Refused, OverrideKinds, BeforeTerminated, BeforeInterrupted, BeforeCorrection
  <2>4. Goes(t, "requested", "admitted")
    BY <1>4, <2>1, <2>2 DEF Goes
  <2>5. Logs("admit", t, Intent(t))
    BY <1>5, <1>6, <1>8, <1>12 DEF Logs
  <2>6. QED
    BY <1>2, <2>3, <2>4, <2>5, IsAdmit
<1>13. QED
  BY <1>7, <1>10, <1>11, <1>12

LEMMA ExecutionImplements ==
  ASSUME TypeInv, AnswersInv, NEW t \in Threads, WriteExecution(t)
  PROVE  AbstractStep
<1>1. /\ pc[t] = "execution" /\ out' = out /\ via' = via /\ pc' = [pc EXCEPT ![t] = "done"]
      /\ UNCHANGED <<req, barred>>
  BY DEF WriteExecution, Goto, historyVars
<1>2. UNCHANGED <<subjects, blocks>>
  BY <1>1, SubjectsAndBlocksKept
<1>3. phases[t] = "executing"
  BY <1>1, PhaseOfPhase, PhaseExecuting DEF phases
<1>4. Phase("done", via[t], out[t]) = "completed"
  <2>1. via[t] = "workflow" /\ out[t] = Admit
    BY <1>1 DEF AnswersInv, Holds, Execution
  <2>2. Admit.attempt = 1 /\ Stood(Admit)
    BY DEF Admit, Answer, Stood
  <2>3. QED
    BY <2>1, <2>2, PhaseStands
<1>5. Goes(t, "executing", "completed")
  <2>1. pc'[t] = "done" /\ \A u \in Threads \ {t} : pc'[u] = pc[u]
    BY <1>1 DEF TypeInv, TypeOK
  <2>2. phases' = [phases EXCEPT ![t] = Phase("done", via[t], out[t])]
    BY <1>1, <2>1, PhaseStep
  <2>3. QED
    BY <1>3, <1>4, <2>2 DEF Goes
<1>6. Logs("result", t, Intent(t))
  <2>1. trails' = Append(trails, RecordOf(ExecutionBody(t)))
    BY WrittenBodies, TrailAppends DEF WriteExecution, TypeInv
  <2>2. RecordOf(ExecutionBody(t)) = [what |-> "result", by |-> t, subject |-> Intent(t)]
    BY DEF RecordOf, ExecutionBody
  <2>3. QED
    BY <2>1, <2>2 DEF Logs
<1>7. QED
  BY <1>2, <1>5, <1>6, IsComplete

LEMMA ArrivalImplements ==
  ASSUME TypeInv, AnswersInv, RecordsInv, NEW t \in Threads,
         RejectMalformed(t) \/ RouteHandler(t) \/ RunWorkflow(t)
  PROVE  AbstractStep
<1>1. PICK q, v, r, a : Arrives(t, q, v, r, a)
  BY ArrivalMoves DEF TypeInv
<1>2. UNCHANGED trails
  BY <1>1, TrailKept DEF Arrives
<1>3. phases[t] = "idle"
  <2>1. out[t] = NoAnswer /\ pc[t] = "idle"
    BY <1>1 DEF Arrives, AnswersInv, Holds
  <2>2. out[t].attempt = 0
    BY <2>1, NoAnswerAttempt
  <2>3. QED
    BY <2>1, <2>2, PhaseOfPhase, PhaseIdle DEF phases
<1>4. phases' = [phases EXCEPT ![t] = Phase(q, v, a)]
  <2>1. /\ pc'[t] = q /\ via'[t] = v /\ out'[t] = a
        /\ \A u \in Threads \ {t} : pc'[u] = pc[u] /\ via'[u] = via[u] /\ out'[u] = out[u]
    BY <1>1 DEF Arrives, TypeInv, TypeOK
  <2>2. QED
    BY <2>1, PhaseStep
<1>5. CASE q = "done" /\ a.attempt = 0 /\ r = req[t] /\ barred' = barred
  <2>1. Phase(q, v, a) = "idle"
    BY <1>5, PhaseIdle
  <2>2. phases' = phases
    BY <1>3, <1>4, <2>1 DEF phases
  <2>3. req' = req
    BY <1>1, <1>5 DEF Arrives, TypeInv, TypeOK
  <2>4. QED
    BY <1>2, <1>5, <2>2, <2>3, SubjectsAndBlocksKept, IsStutter
<1>6. CASE q = "verify" /\ Call(t, v, r)
  <2> DEFINE b == barred'[t] \cap OverrideKinds # {}
             s == r.intent
  <2>1. Goes(t, "idle", "requested")
    BY <1>3, <1>4, <1>6, PhaseRequested DEF Goes, Admission
  <2>2. /\ req' = [req EXCEPT ![t] = r]
        /\ barred' = [barred EXCEPT ![t] = barred'[t]]
        /\ Overrides(s) \subseteq barred'[t]
    BY <1>6 DEF Call, TypeInv, TypeOK
  <2>3. s \in Intents \cup {""}
    <3>1. r \in Calls
      <4>1. TypeOK'
        BY HandlerType DEF TypeInv
      <4>2. req'[t] = r
        BY <2>2 DEF TypeInv, TypeOK
      <4>3. QED
        BY <4>1, <4>2 DEF TypeOK
    <3>2. QED
      BY <3>1, CallIntent
  <2>4. subjects' = [subjects EXCEPT ![t] = s]
    BY <2>2 DEF subjects, Intent, TypeInv, TypeOK
  <2>5. blocks' = [blocks EXCEPT ![t] = b]
    BY <2>2 DEF blocks, TypeInv, TypeOK
  <2>6. ASSUME OverrideLogged(Len(trails) + 1, s)
        PROVE  b
    <3>1. Len(trails) = Len(entries) /\ Len(entries) \in Nat
      BY TrailLength DEF TypeInv
    <3>2. PICK i \in Positions : IsOverride(Body(i), s)
      BY <2>6, <3>1, LoggedOverride DEF TypeInv
    <3>3. Body(i).kind \in Overrides(s) /\ Body(i).kind \in OverrideKinds
      BY <3>2 DEF IsOverride, RecordsInv, SignedInv, SignedBody
    <3>4. QED
      BY <2>2, <3>3
  <2>7. b \in BOOLEAN
    OBVIOUS
  <2> HIDE DEF b, s
  <2>8. QED
    BY <1>2, <2>1, <2>3, <2>4, <2>5, <2>6, <2>7, IsBeginRequest
<1>7. QED
  BY <1>1, <1>5, <1>6 DEF Arrives

LEMMA OperatorImplements ==
  ASSUME TypeInv, NEW o \in Operators, OperatorHandler(o) \/ OperatorStep(o)
  PROVE  AbstractStep
<1>1. UNCHANGED threadVars
  BY DEF OperatorHandler, OperatorStep, StoreOverride, ForceOverride, operatorLedger, routerVars
<1>2. UNCHANGED <<phases, subjects, blocks>>
  <2>1. \A t \in Threads : PhaseOf(t)' = PhaseOf(t)
    BY <1>1 DEF threadVars, PhaseOf, Executing, Stands
  <2>2. phases' = phases
    BY <2>1 DEF phases
  <2>3. QED
    BY <1>1, <2>2, SubjectsAndBlocksKept DEF threadVars, historyVars
<1>3. CASE operatorLedger(o)
  <2>1. trails' = Append(trails, RecordOf(OverrideBody(o)))
    BY <1>3, OverrideBodies, TrailAppends DEF operatorLedger, TypeInv
  <2>2. RecordOf(OverrideBody(o)) = [what |-> "override", by |-> o, subject |-> oreq[o].intent]
    <3>1. OverrideBody(o).kind \in OverrideKinds /\ OverrideBody(o).kind # "execution"
      BY <1>3, OverrideBodies DEF OverrideKinds
    <3>2. QED
      BY <3>1 DEF RecordOf, OverrideBody
  <2>3. oreq[o].intent \in Intents
    BY <1>3 DEF operatorLedger, TypeInv, AcceptedNamesIntent
  <2>4. QED
    BY <1>2, <2>1, <2>2, <2>3, IsOverrideSubject DEF Logs
<1>4. CASE UNCHANGED ledgerVars
  BY <1>2, <1>4, TrailKept, IsStutter
<1>5. QED
  BY <1>3, <1>4 DEF OperatorHandler, OperatorStep, StoreOverride, ForceOverride, routerVars

LEMMA NextImplements ==
  ASSUME TypeInv, AnswersInv, PrecedenceInv, RecordsInv, [Next]_vars
  PROVE  AbstractStep
<1>1. ASSUME NEW t \in Threads, RejectMalformed(t) \/ RouteHandler(t) \/ RunWorkflow(t)
      PROVE  AbstractStep
  BY <1>1, ArrivalImplements
<1>2. ASSUME NEW t \in Threads, ThreadStep(t)
      PROVE  AbstractStep
  <2>1. PICK q, b : Moves(t, q, b)
    BY <1>2, ThreadMoves, TypeOKGoroutines DEF TypeInv
  <2>2. QED
    BY <1>2, <2>1, ThreadWrites, QuietImplements, DecisionImplements, ExecutionImplements
<1>3. ASSUME NEW o \in Operators, OperatorHandler(o) \/ OperatorStep(o)
      PROVE  AbstractStep
  BY <1>3, OperatorImplements
<1>4. CASE UNCHANGED <<ledgerVars, pc, via, out, req, barred>>
  <2>1. \A t \in Threads : PhaseOf(t)' = PhaseOf(t)
    BY <1>4 DEF PhaseOf, Executing, Stands
  <2>2. phases' = phases
    BY <2>1 DEF phases
  <2>3. QED
    BY <1>4, <2>2, TrailKept, SubjectsAndBlocksKept, IsStutter
<1>5. QED
  BY <1>1, <1>2, <1>3, <1>4 DEF Next, Quiescent, RequestStep, ProviderReturns, SteerDrift, vars,
     routerVars, threadVars, historyVars

LEMMA InitImplements == Init => Abstract!AbstractInit
<1> SUFFICES ASSUME Init PROVE Abstract!AbstractInit
  OBVIOUS
<1>1. phases = [t \in Threads |-> "idle"]
  <2>1. ASSUME NEW t \in Threads
        PROVE  PhaseOf(t) = "idle"
    <3>1. pc[t] = "idle" /\ out[t] = NoAnswer
      BY DEF Init, RouterInit
    <3>2. out[t].attempt = 0
      BY <3>1, NoAnswerAttempt
    <3>3. QED
      BY <3>1, <3>2, PhaseOfPhase, PhaseIdle
  <2>2. QED
    BY <2>1 DEF phases
<1>2. subjects = [t \in Threads |-> ""]
  BY DEF Init, RouterInit, subjects, Intent, NoRequest
<1>3. blocks = [t \in Threads |-> FALSE]
  BY DEF Init, RouterInit, blocks
<1>4. trails = << >>
  <2>1. entries = << >>
    BY DEF Init, LedgerInit
  <2>2. QED
    BY <2>1 DEF trails
<1>5. QED
  BY <1>1, <1>2, <1>3, <1>4 DEF Abstract!AbstractInit, phases, subjects, blocks, trails

(* The router service implements the abstract runtime: whatever requests   *)
(* and operator calls interleave, a request advances along the documented  *)
(* life cycle, an admission, a refusal and a result are on record in the   *)
(* step that makes them, nothing blocked is admitted, and no provider is   *)
(* called for an admission that follows an override on record              *)
(* (Router.Admit, Router.GovernAndExecute).                                *)
THEOREM ServiceImplementsRuntime == Spec => ImplementsGovernedRuntime
<1>1. TypeInv /\ AnswersInv /\ PrecedenceInv /\ RecordsInv /\ [Next]_vars
      => [Abstract!AbstractNext]_(Abstract!abstractVars)
  BY NextImplements DEF AbstractStep
<1>2. QED
  BY <1>1, InitImplements, TypeInvariant, AnswersInvariant, PrecedenceInvariant, RecordsInvariant, PTL
     DEF Spec, ImplementsGovernedRuntime, Abstract!AbstractSpec
=============================================================================
