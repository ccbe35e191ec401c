---------------------------- MODULE ServerRecords ----------------------------
(***************************************************************************)
(* What the ledger of the router service holds about each request, for any *)
(* number of requests and operator calls: at every place in the code a     *)
(* goroutine's own entries are exactly the ones the control flow has it    *)
(* write.  What an auditor reads off the ledger follows.                   *)
(***************************************************************************)
EXTENDS ServerAnswers

(* An entry that a goroutine wrote, and those of goroutine t. *)
OwnBody(b, t) == b.kind \in {"decision", "execution"} /\ b.id[1] = t

Own(t) == {i \in Positions : OwnBody(Body(i), t)}

(* The goroutine has written nothing, one entry, or two. *)
Nothing(t) == Own(t) = {}
Once(t, b) == \E i \in Positions : Own(t) = {i} /\ Body(i) = b
Twice(t, b, c) ==
    \E i, j \in Positions : i < j /\ Own(t) = {i, j} /\ Body(i) = b /\ Body(j) = c

AdmissionBody(t) ==
    [id |-> <<t, 1>>, kind |-> "decision", intent |-> Intent(t), result |-> "ADMIT",
     rule |-> "usl.gate"]

(* A goroutine at p on endpoint v with answer a has written nothing, its   *)
(* admission, its one decision, or its admission and what came of it.      *)
Undecided(p, a) ==
    \/ p \in {"idle", "force"} \cup Gates
    \/ p = "write" /\ a.attempt = 1
    \/ p = "done" /\ a.attempt = 0

InExecution(p, a) == p \in Execution \/ (p = "write" /\ a.attempt = 2)

Completed(p, v, a) == p = "done" /\ v = "workflow" /\ a = Admit

Settled(p, v, a) == p = "done" /\ a.attempt = 1 /\ ~Completed(p, v, a)

Failed(p, a) == p = "done" /\ a.attempt = 2

Recorded(t) ==
    /\ Undecided(pc[t], out[t]) => Nothing(t)
    /\ InExecution(pc[t], out[t]) => Once(t, AdmissionBody(t))
    /\ Settled(pc[t], via[t], out[t]) => Once(t, DecisionBody(t))
    /\ Completed(pc[t], via[t], out[t]) => Twice(t, AdmissionBody(t), ExecutionBody(t))
    /\ Failed(pc[t], out[t]) => Twice(t, AdmissionBody(t), DecisionBody(t))

(* Override entries are numbered 0 and stand for an override in the store; *)
(* the others carry the id of a goroutine.                                 *)
SignedBody(b) ==
    IF b.kind \in OverrideKinds THEN b.id[2] = 0 /\ b.kind \in Overrides(b.intent)
                                ELSE b.id \in Threads \X {1, 2}

(* A goroutine at p that was admitted after an override of kind k went on  *)
(* record: the final check for that kind is still ahead, or has stopped it.*)
Caught(p, k) ==
    \/ p \in {"final.terminated", "final.force", "done"}
    \/ p = "final.correction" /\ k \in {"correct", "interrupt"}
    \/ p = "final.interrupted" /\ k = "interrupt"

SignedInv == \A i \in Positions : SignedBody(Body(i))

RecordedInv == \A t \in Threads : Recorded(t)

Audited(t) ==
    \A i, j \in Positions :
        i < j /\ IsOverride(Body(i), Intent(t)) /\ IsAdmission(Body(j), t)
        => gen[t] = "none" /\ Caught(pc[t], Body(i).kind)

AuditInv == \A t \in Threads : Audited(t)

RecordsInv == SignedInv /\ RecordedInv /\ AuditInv

-----------------------------------------------------------------------------
(* What one step does to the ledger. *)

(* The goroutine's entries stay as they are, or one is added after them.   *)
KeepsOwn(t) == Own(t)' = Own(t) /\ \A i \in Own(t) : i \in Positions' /\ entries'[i] = entries[i]

AddsOwn(t, b) ==
    \E n \in Positions' :
        /\ Own(t)' = Own(t) \cup {n} /\ entries'[n].body = b
        /\ \A i \in Own(t) : i < n /\ i \in Positions' /\ entries'[i] = entries[i]

LEMMA AppendedEntry ==
  ASSUME TypeOK, NEW b \in Bodies, AppendEntry(b)
  PROVE  /\ Len(entries) \in Nat /\ Len(entries') = Len(entries) + 1
         /\ entries'[Len(entries) + 1].body = b
         /\ \A i \in 1..Len(entries) : entries'[i] = entries[i]
<1>1. hashEntry(nextIdx, b) \in Hashes
  BY DEF hashEntry, Hashes, TypeOK
<1>2. NextEntry(b) \in Entries /\ NextEntry(b).body = b
  BY <1>1 DEF NextEntry, Entries, TypeOK
<1>3. entries \in Seq(Entries)
  BY DEF TypeOK
<1>4. QED
  BY <1>2, <1>3 DEF AppendEntry

LEMMA AppendedOwn ==
  ASSUME TypeOK, NEW b \in Bodies, AppendEntry(b), NEW t
  PROVE  IF OwnBody(b, t) THEN AddsOwn(t, b) ELSE KeepsOwn(t)
<1>1. PICK n \in Nat : /\ Len(entries) = n /\ Len(entries') = n + 1 /\ entries'[n + 1].body = b
                      /\ \A i \in 1..n : entries'[i] = entries[i]
  BY AppendedEntry
<1>2. /\ Positions = 1..n /\ Positions' = 1..(n + 1)
      /\ \A i \in 1..n : i < n + 1 /\ i \in 1..(n + 1)
      /\ \A i \in 1..(n + 1) : i \in 1..n \/ i = n + 1
  BY <1>1 DEF Positions
<1>3. Own(t) = {i \in 1..n : OwnBody(entries[i].body, t)}
  BY <1>2 DEF Own, Body
<1>4. Own(t)' = {i \in 1..(n + 1) : OwnBody(entries'[i].body, t)}
  BY <1>2 DEF Own, Body, OwnBody
<1>5. CASE OwnBody(b, t)
  <2>1. Own(t)' = Own(t) \cup {n + 1}
    BY <1>1, <1>2, <1>3, <1>4, <1>5
  <2>2. QED
    BY <1>1, <1>2, <1>3, <1>5, <2>1 DEF AddsOwn
<1>6. CASE ~OwnBody(b, t)
  <2>1. Own(t)' = Own(t)
    BY <1>1, <1>2, <1>3, <1>4, <1>6
  <2>2. QED
    BY <1>1, <1>2, <1>3, <1>6, <2>1 DEF KeepsOwn
<1>7. QED
  BY <1>5, <1>6

LEMMA UnchangedOwn ==
  ASSUME UNCHANGED ledgerVars, NEW t
  PROVE  KeepsOwn(t)
BY DEF ledgerVars, KeepsOwn, Own, OwnBody, Positions, Body

(* A goroutine writes where the code has it write, and nowhere else. *)
LEMMA ThreadWrites ==
  ASSUME NEW t \in Threads, ThreadStep(t)
  PROVE  \/ pc[t] \notin {"write", "execution"} /\ UNCHANGED ledgerVars
         \/ WriteDecision(t)
         \/ WriteExecution(t)
BY DEF ThreadStep, CheckLedger, CheckTerminated, CheckInterrupted, GREGates, GRETerminated,
   GREInterrupted, GRECorrection, ProviderGates, FinalTerminated, FinalCorrection,
   FinalInterrupted, Receive, TimeOut, Gate, RecheckTerminated, RecheckInterrupted, ForceState,
   FinalForce, ReadCurrent, TransitionToRunning, StartGenerate

(* The bodies the service writes have their types, and their writer's id. *)
LEMMA WrittenBodies ==
  ASSUME TypeInv, NEW t \in Threads
  PROVE  /\ WriteDecision(t) => /\ DecisionBody(t) \in Bodies
                                /\ \A u : OwnBody(DecisionBody(t), u) <=> u = t
         /\ WriteExecution(t) => /\ ExecutionBody(t) \in Bodies
                                 /\ \A u : OwnBody(ExecutionBody(t), u) <=> u = t
<1>1. WriteDecision(t) \/ WriteExecution(t) => out[t] \in Decisions
  BY DEF WriteDecision, WriteExecution, TypeInv, DecidedAnswers, Decided, Execution
<1>2. \A u : (OwnBody(DecisionBody(t), u) <=> u = t) /\ (OwnBody(ExecutionBody(t), u) <=> u = t)
  BY DEF OwnBody, DecisionBody, ExecutionBody
<1>3. QED
  BY <1>1, <1>2, DecisionBodyType, ExecutionBodyType DEF TypeInv

LEMMA OverrideBodies ==
  ASSUME TypeInv, NEW o \in Operators, operatorLedger(o)
  PROVE  OverrideBody(o) \in Bodies /\ OverrideBody(o).kind \in OverrideKinds
<1>1. OverrideBody(o) \in Bodies
  BY OverrideBodyType DEF operatorLedger
<1>2. oreq[o].kind \in OverrideKinds
  BY RequestsAssumption DEF operatorLedger, TypeInv, AcceptedNamesIntent, OverrideKinds
<1>3. QED
  BY <1>1, <1>2 DEF OverrideBody

-----------------------------------------------------------------------------
(* Each goroutine's own entries. *)

OnceNext(t, b) == \E i \in Positions' : Own(t)' = {i} /\ entries'[i].body = b
TwiceNext(t, b, c) ==
    \E i, j \in Positions' :
        i < j /\ Own(t)' = {i, j} /\ entries'[i].body = b /\ entries'[j].body = c

LEMMA KeptRecords ==
  ASSUME NEW t, KeepsOwn(t)
  PROVE  /\ Nothing(t) => Own(t)' = {}
         /\ \A b : Once(t, b) => OnceNext(t, b)
         /\ \A b, c : Twice(t, b, c) => TwiceNext(t, b, c)
BY DEF KeepsOwn, Nothing, Once, OnceNext, Twice, TwiceNext, Body

LEMMA AddedRecords ==
  ASSUME NEW t, NEW c, AddsOwn(t, c)
  PROVE  /\ Nothing(t) => OnceNext(t, c)
         /\ \A b : Once(t, b) => TwiceNext(t, b, c)
<1>1. PICK n \in Positions' :
        /\ Own(t)' = Own(t) \cup {n} /\ entries'[n].body = c
        /\ \A i \in Own(t) : i < n /\ i \in Positions' /\ entries'[i] = entries[i]
  BY DEF AddsOwn
<1>2. Nothing(t) => OnceNext(t, c)
  BY <1>1 DEF Nothing, OnceNext
<1>3. ASSUME NEW b, Once(t, b)
      PROVE  TwiceNext(t, b, c)
  <2>1. PICK i \in Positions : Own(t) = {i} /\ Body(i) = b
    BY <1>3 DEF Once
  <2>2. /\ i \in Positions' /\ i < n /\ Own(t)' = {i, n}
        /\ entries'[i].body = b /\ entries'[n].body = c
    BY <1>1, <2>1 DEF Body
  <2>3. QED
    BY <2>2 DEF TwiceNext
<1>4. QED
  BY <1>2, <1>3

(* The five stages exclude each other. *)
LEMMA StagesDiffer ==
  ASSUME NEW p, NEW v, NEW a
  PROVE  /\ Undecided(p, a) => /\ ~InExecution(p, a) /\ ~Settled(p, v, a)
                               /\ ~Completed(p, v, a) /\ ~Failed(p, a)
         /\ InExecution(p, a) => ~Settled(p, v, a) /\ ~Completed(p, v, a) /\ ~Failed(p, a)
         /\ Settled(p, v, a) => ~Completed(p, v, a) /\ ~Failed(p, a)
         /\ Completed(p, v, a) => ~Failed(p, a)
<1>1. Admit.attempt = 1
  BY DEF Admit, Answer
<1>2. QED
  BY <1>1 DEF Undecided, InExecution, Settled, Completed, Failed, Gates, Admission, Execution

(* A goroutine that writes nothing stays in its stage, or its admission is *)
(* withdrawn.                                                              *)
LEMMA QuietStage ==
  ASSUME NEW p, NEW v, NEW a, NEW g, NEW now, NEW q, NEW b,
         Holds(p, v, a, g), Flow(p, v, a, now, q, b), p \notin {"write", "execution"}
  PROVE  \/ Undecided(p, a) /\ Undecided(q, b)
         \/ InExecution(p, a) /\ InExecution(q, b)
         \/ InExecution(p, a) /\ Settled(q, v, b) /\ b = a /\ Withdrawn(a)
<1> USE DEF Undecided, InExecution, Gates, Admission, Execution
<1>1. ExecutionDenied.attempt = 2 /\ Admit.attempt = 1 /\ Admit.err = ""
  BY DEF Admit, ExecutionDenied, Answer
<1>2. CASE Passes(p, a, now, q, b)
  BY <1>2 DEF Passes, PassesTo
<1>3. CASE Refuses(p, now, q, b)
  BY <1>3 DEF Refuses, Refusal
<1>4. CASE Admits(p, now, q, b)
  BY <1>1, <1>4 DEF Admits
<1>5. CASE Withdraws(p, a, now, q, b)
  BY <1>5 DEF Withdraws
<1>6. CASE Forces(p, a, q, b)
  <2>1. CASE p = "force"
    BY <1>6, <2>1 DEF Forces, Holds, Refusal
  <2>2. CASE p = "final.force"
    <3>1. Withdrawn(a)
      BY <2>2 DEF Holds
    <3>2. PICK err \in Conflicts : a = Answer(1, "ADMIT", "usl.gate", err)
      BY <3>1 DEF Withdrawn
    <3>3. a.attempt = 1 /\ a.err # ""
      BY <3>2 DEF Answer, Conflicts
    <3>4. Settled(q, v, b)
      BY <1>1, <1>6, <2>2, <3>3 DEF Forces, Settled, Completed
    <3>5. QED
      BY <1>6, <2>2, <3>1, <3>4 DEF Forces
  <2>3. QED
    BY <1>6, <2>1, <2>2 DEF Forces
<1>7. CASE Fails(p, q, b)
  BY <1>1, <1>7 DEF Fails
<1>8. QED
  BY <1>2, <1>3, <1>4, <1>5, <1>6, <1>7 DEF Flow, Writes

LEMMA SameRecorded ==
  ASSUME NEW t \in Threads, Recorded(t), KeepsOwn(t), pc'[t] = pc[t], via'[t] = via[t],
         out'[t] = out[t], req'[t] = req[t]
  PROVE  Recorded(t)'
<1>1. /\ AdmissionBody(t)' = AdmissionBody(t)
      /\ DecisionBody(t)' = DecisionBody(t)
      /\ ExecutionBody(t)' = ExecutionBody(t)
  BY DEF AdmissionBody, DecisionBody, ExecutionBody, Intent
<1>2. QED
  BY <1>1, KeptRecords DEF Recorded, Nothing, Once, OnceNext, Twice, TwiceNext, Undecided,
     InExecution, Settled, Completed, Failed, Body

LEMMA QuietRecorded ==
  ASSUME NEW t \in Threads, GoroutineTypes, AnswersInv, Recorded(t), KeepsOwn(t),
         pc[t] \notin {"write", "execution"}, NEW q, NEW b, Moves(t, q, b)
  PROVE  Recorded(t)'
<1>1. pc'[t] = q /\ out'[t] = b /\ via'[t] = via[t] /\ req'[t] = req[t]
  BY DEF Moves, GoroutineTypes
<1>2. AdmissionBody(t)' = AdmissionBody(t)
  BY <1>1 DEF AdmissionBody, Intent
<1>3. CASE Undecided(pc[t], out[t]) /\ Undecided(q, b)
  <2>1. Nothing(t)'
    BY <1>3, KeptRecords DEF Recorded, Nothing
  <2>2. QED
    BY <1>1, <1>3, <2>1, StagesDiffer DEF Recorded
<1>4. CASE InExecution(pc[t], out[t]) /\ InExecution(q, b)
  <2>1. Once(t, AdmissionBody(t))'
    BY <1>2, <1>4, KeptRecords DEF Recorded, Once, OnceNext, Body
  <2>2. QED
    BY <1>1, <1>4, <2>1, StagesDiffer DEF Recorded
<1>5. CASE InExecution(pc[t], out[t]) /\ Settled(q, via[t], b) /\ b = out[t] /\ Withdrawn(out[t])
  <2>1. out[t].attempt = 1 /\ out[t].result = "ADMIT" /\ out[t].rule = "usl.gate"
    BY <1>5, AnswerFields DEF Withdrawn
  <2>2. DecisionBody(t)' = AdmissionBody(t)
    BY <1>1, <1>5, <2>1 DEF DecisionBody, AdmissionBody, Intent
  <2>3. Once(t, DecisionBody(t))'
    BY <1>5, <2>2, KeptRecords DEF Recorded, Once, OnceNext, Body
  <2>4. QED
    BY <1>1, <1>5, <2>3, StagesDiffer DEF Recorded
<1>6. Holds(pc[t], via[t], out[t], gen[t])
  BY DEF AnswersInv
<1>7. QED
  BY <1>3, <1>4, <1>5, <1>6, QuietStage DEF Moves

(* WriteDecision records the first decision or the denial of an execution. *)
LEMMA DecisionRecorded ==
  ASSUME NEW t \in Threads, TypeInv, AnswersInv, Recorded(t), WriteDecision(t)
  PROVE  Recorded(t)'
<1> DEFINE q == IF via[t] = "workflow" /\ out[t].result = "ADMIT" THEN "final.terminated" ELSE "done"
<1>1. /\ pc[t] = "write" /\ pc'[t] = q
      /\ out'[t] = out[t] /\ via'[t] = via[t] /\ req'[t] = req[t]
  BY DEF WriteDecision, Goto, TypeInv, TypeOK
<1>2. /\ AdmissionBody(t)' = AdmissionBody(t) /\ DecisionBody(t)' = DecisionBody(t)
  BY <1>1 DEF AdmissionBody, DecisionBody, Intent
<1>3. AddsOwn(t, DecisionBody(t))
  BY WrittenBodies, AppendedOwn DEF WriteDecision, TypeInv
<1>4. /\ Refusal(out[t]) \/ out[t] = Admit \/ out[t] = ExecutionDenied
      /\ out[t] = ExecutionDenied => via[t] = "workflow"
  <2>1. Admit.attempt = 1 /\ ExecutionDenied.attempt = 2
    BY DEF Admit, ExecutionDenied, Answer
  <2>2. Holds("write", via[t], out[t], gen[t])
    BY <1>1 DEF AnswersInv
  <2>3. \/ Refusal(out[t]) \/ out[t] = Admit
        \/ out[t] = ExecutionDenied /\ via[t] = "workflow"
    BY <2>2 DEF Holds
  <2>4. Refusal(out[t]) => out[t].attempt = 1
    BY DEF Refusal
  <2>5. QED
    BY <2>1, <2>3, <2>4
<1>5. /\ Admit.attempt = 1 /\ Admit.result = "ADMIT" /\ Admit.rule = "usl.gate"
      /\ ExecutionDenied.attempt = 2 /\ ExecutionDenied.result = "DENY"
  BY DEF Admit, ExecutionDenied, Answer
<1>6. CASE out[t] = ExecutionDenied
  <2>1. InExecution(pc[t], out[t]) /\ Failed(q, out[t])
    BY <1>1, <1>5, <1>6 DEF InExecution, Failed
  <2>2. TwiceNext(t, AdmissionBody(t), DecisionBody(t))
    BY <1>3, <2>1, AddedRecords DEF Recorded
  <2>3. Twice(t, AdmissionBody(t), DecisionBody(t))'
    BY <1>2, <2>2 DEF Twice, TwiceNext, Body
  <2>4. QED
    BY <1>1, <2>1, <2>3, StagesDiffer DEF Recorded
<1>7. CASE Refusal(out[t]) \/ out[t] = Admit
  <2>1. Undecided(pc[t], out[t])
    BY <1>1, <1>5, <1>7 DEF Undecided, Refusal
  <2>2. OnceNext(t, DecisionBody(t))
    BY <1>3, <2>1, AddedRecords DEF Recorded
  <2>3. Once(t, DecisionBody(t))'
    BY <1>2, <2>2 DEF Once, OnceNext, Body
  <2>4. CASE out[t] = Admit /\ via[t] = "workflow"
    <3>1. InExecution(q, out[t])
      BY <1>5, <2>4 DEF InExecution, Execution
    <3>2. DecisionBody(t)' = AdmissionBody(t)'
      BY <1>2, <1>5, <2>4 DEF DecisionBody, AdmissionBody
    <3>3. Once(t, AdmissionBody(t))'
      BY <2>3, <3>2 DEF Once
    <3>4. QED
      BY <1>1, <3>1, <3>3, StagesDiffer DEF Recorded
  <2>5. CASE ~(out[t] = Admit /\ via[t] = "workflow")
    <3>1. Settled(q, via[t], out[t])
      BY <1>5, <1>7, <2>5 DEF Settled, Completed, Refusal
    <3>2. QED
      BY <1>1, <2>3, <3>1, StagesDiffer DEF Recorded
  <2>6. QED
    BY <2>4, <2>5
<1>8. QED
  BY <1>4, <1>6, <1>7

(* WriteExecution records what came of the admission. *)
LEMMA ExecutionRecorded ==
  ASSUME NEW t \in Threads, TypeInv, AnswersInv, Recorded(t), WriteExecution(t)
  PROVE  Recorded(t)'
<1>1. /\ pc[t] = "execution" /\ pc'[t] = "done"
      /\ out'[t] = out[t] /\ via'[t] = via[t] /\ req'[t] = req[t]
  BY DEF WriteExecution, Goto, TypeInv, TypeOK
<1>2. AdmissionBody(t)' = AdmissionBody(t) /\ ExecutionBody(t)' = ExecutionBody(t)
  BY <1>1 DEF AdmissionBody, ExecutionBody, Intent
<1>3. AddsOwn(t, ExecutionBody(t))
  BY WrittenBodies, AppendedOwn DEF WriteExecution, TypeInv
<1>4. via[t] = "workflow" /\ out[t] = Admit
  BY <1>1 DEF AnswersInv, Holds, Execution
<1>5. InExecution(pc[t], out[t]) /\ Completed("done", via[t], out[t])
  BY <1>1, <1>4 DEF InExecution, Execution, Completed
<1>6. TwiceNext(t, AdmissionBody(t), ExecutionBody(t))
  BY <1>3, <1>5, AddedRecords DEF Recorded
<1>7. Twice(t, AdmissionBody(t), ExecutionBody(t))'
  BY <1>2, <1>6 DEF Twice, TwiceNext, Body
<1>8. QED
  BY <1>1, <1>5, <1>7, StagesDiffer DEF Recorded

LEMMA OthersKept ==
  ASSUME TypeInv, NEW t \in Threads, ThreadStep(t), NEW u \in Threads, u # t
  PROVE  KeepsOwn(u)
<1>1. CASE UNCHANGED ledgerVars
  BY <1>1, UnchangedOwn
<1>2. CASE WriteDecision(t)
  BY <1>2, WrittenBodies, AppendedOwn DEF WriteDecision, TypeInv
<1>3. CASE WriteExecution(t)
  BY <1>3, WrittenBodies, AppendedOwn DEF WriteExecution, TypeInv
<1>4. QED
  BY <1>1, <1>2, <1>3, ThreadWrites

LEMMA OperatorKept ==
  ASSUME TypeInv, NEW o \in Operators, OperatorHandler(o) \/ OperatorStep(o), NEW u
  PROVE  KeepsOwn(u)
<1>1. CASE UNCHANGED ledgerVars
  BY <1>1, UnchangedOwn
<1>2. CASE operatorLedger(o)
  <2>1. ~OwnBody(OverrideBody(o), u)
    BY <1>2, OverrideBodies DEF OwnBody, OverrideKinds
  <2>2. QED
    BY <1>2, <2>1, OverrideBodies, AppendedOwn DEF operatorLedger, TypeInv
<1>3. QED
  BY <1>1, <1>2 DEF OperatorHandler, OperatorStep, StoreOverride, ForceOverride, routerVars

LEMMA ThreadStepRecorded ==
  ASSUME TypeInv, AnswersInv, RecordedInv, NEW t \in Threads, ThreadStep(t)
  PROVE  RecordedInv'
<1>1. GoroutineTypes
  BY TypeOKGoroutines DEF TypeInv
<1>2. PICK q, b : Moves(t, q, b)
  BY <1>1, ThreadMoves
<1>3. Recorded(t)'
  <2>1. Recorded(t)
    BY DEF RecordedInv
  <2>2. CASE pc[t] \notin {"write", "execution"} /\ UNCHANGED ledgerVars
    BY <1>1, <1>2, <2>1, <2>2, UnchangedOwn, QuietRecorded
  <2>3. QED
    BY <2>1, <2>2, ThreadWrites, DecisionRecorded, ExecutionRecorded
<1>4. ASSUME NEW u \in Threads, u # t
      PROVE  Recorded(u)'
  <2>1. pc'[u] = pc[u] /\ via'[u] = via[u] /\ out'[u] = out[u] /\ req'[u] = req[u]
    BY <1>1, <1>2, <1>4 DEF Moves, GoroutineTypes
  <2>2. Recorded(u) /\ KeepsOwn(u)
    BY <1>4, OthersKept DEF RecordedInv
  <2>3. QED
    BY <2>1, <2>2, SameRecorded
<1>5. QED
  BY <1>3, <1>4 DEF RecordedInv

(* A request arrives at the router with nothing in hand, or is turned away *)
(* with an answer that carries no decision.                                *)
Arrives(t, q, v, r, a) ==
    /\ pc[t] = "idle"
    /\ pc' = [pc EXCEPT ![t] = q] /\ via' = [via EXCEPT ![t] = v]
    /\ req' = [req EXCEPT ![t] = r] /\ out' = [out EXCEPT ![t] = a]
    /\ UNCHANGED <<ledgerVars, states, interruptVars, gen>>
    /\ \/ q = "verify" /\ a = out[t] /\ Call(t, v, r)
       \/ q = "done" /\ a.attempt = 0 /\ r = req[t] /\ barred' = barred

LEMMA ArrivalMoves ==
  ASSUME TypeOK, NEW t \in Threads, RejectMalformed(t) \/ RouteHandler(t) \/ RunWorkflow(t)
  PROVE  \E q, v, r, a : Arrives(t, q, v, r, a)
<1>1. ASSUME NEW endpoint, NEW err, Turned(t, endpoint, err)
      PROVE  \E q, v, r, a : Arrives(t, q, v, r, a)
  <2> DEFINE a == Answer(0, "", "", err)
  <2>1. a.attempt = 0
    BY DEF Answer
  <2>2. out' = [out EXCEPT ![t] = a]
    BY <1>1 DEF Turned
  <2> HIDE DEF a
  <2>3. req' = [req EXCEPT ![t] = req[t]]
    BY <1>1 DEF Turned, TypeOK
  <2>4. Arrives(t, "done", endpoint, req[t], a)
    BY <1>1, <2>1, <2>2, <2>3 DEF Turned, Goto, Arrives, historyVars
  <2>5. QED
    BY <2>4
<1>2. ASSUME NEW endpoint, NEW r, Call(t, endpoint, r)
      PROVE  \E q, v, s, a : Arrives(t, q, v, s, a)
  <2>1. out' = [out EXCEPT ![t] = out[t]]
    BY <1>2 DEF Call, TypeOK
  <2>2. Arrives(t, "verify", endpoint, r, out[t])
    BY <1>2, <2>1 DEF Call, Goto, Arrives
  <2>3. QED
    BY <2>2
<1>3. QED
  BY <1>1, <1>2 DEF RejectMalformed, RouteHandler, RunWorkflow

LEMMA ArrivalRecorded ==
  ASSUME TypeInv, RecordedInv, NEW t \in Threads,
         RejectMalformed(t) \/ RouteHandler(t) \/ RunWorkflow(t)
  PROVE  RecordedInv'
<1>1. PICK q, v, r, a : Arrives(t, q, v, r, a)
  BY ArrivalMoves DEF TypeInv
<1>2. Undecided(pc'[t], out'[t])
  BY <1>1 DEF Arrives, Undecided, Gates, Admission, TypeInv, TypeOK
<1>3. Recorded(t)'
  <2>1. Nothing(t)
    BY <1>1 DEF Arrives, RecordedInv, Recorded, Undecided
  <2>2. Nothing(t)'
    BY <1>1, <2>1, UnchangedOwn, KeptRecords DEF Nothing, Arrives
  <2>3. QED
    BY <1>2, <2>2, StagesDiffer DEF Recorded
<1>4. ASSUME NEW u \in Threads, u # t
      PROVE  Recorded(u)'
  <2>1. pc'[u] = pc[u] /\ via'[u] = via[u] /\ out'[u] = out[u] /\ req'[u] = req[u]
    BY <1>1, <1>4 DEF Arrives, TypeInv, TypeOK
  <2>2. Recorded(u) /\ KeepsOwn(u)
    BY <1>1, UnchangedOwn DEF RecordedInv, Arrives
  <2>3. QED
    BY <2>1, <2>2, SameRecorded
<1>5. QED
  BY <1>3, <1>4 DEF RecordedInv

LEMMA NextRecorded ==
  ASSUME TypeInv, AnswersInv, RecordedInv, [Next]_vars
  PROVE  RecordedInv'
<1>1. ASSUME UNCHANGED <<pc, via, out, req>>, \A u \in Threads : KeepsOwn(u)
      PROVE  RecordedInv'
  BY <1>1, SameRecorded DEF RecordedInv
<1>2. ASSUME NEW t \in Threads, RejectMalformed(t) \/ RouteHandler(t) \/ RunWorkflow(t)
      PROVE  RecordedInv'
  BY <1>2, ArrivalRecorded
<1>3. ASSUME NEW t \in Threads, RequestStep(t)
      PROVE  RecordedInv'
  BY <1>3, ThreadStepRecorded DEF RequestStep
<1>4. ASSUME NEW o \in Operators, OperatorHandler(o) \/ OperatorStep(o)
      PROVE  RecordedInv'
  <2>1. UNCHANGED <<pc, via, out, req>>
    BY <1>4 DEF OperatorHandler, OperatorStep, StoreOverride, ForceOverride, operatorLedger,
       routerVars, threadVars
  <2>2. QED
    BY <1>1, <1>4, <2>1, OperatorKept
<1>5. CASE UNCHANGED <<ledgerVars, pc, via, out, req>>
  BY <1>1, <1>5, UnchangedOwn
<1>6. QED
  BY <1>2, <1>3, <1>4, <1>5 DEF Next, Quiescent, ProviderReturns, SteerDrift, vars, routerVars,
     threadVars

-----------------------------------------------------------------------------
(* Whose entries they are. *)

LEMMA NextSigned ==
  ASSUME TypeInv, AcceptedInv, SignedInv, [Next]_vars
  PROVE  SignedInv'
<1>1. \A x : Overrides(x) \subseteq Overrides(x)'
  BY OverridesGrow
<1>2. ASSUME NEW b, SignedBody(b)
      PROVE  SignedBody(b)'
  BY <1>1, <1>2 DEF SignedBody
<1>3. CASE UNCHANGED ledgerVars
  BY <1>2, <1>3 DEF SignedInv, ledgerVars, Positions, Body
<1>4. ASSUME NEW b \in Bodies, AppendEntry(b), SignedBody(b)
      PROVE  SignedInv'
  <2>1. PICK n \in Nat : /\ Len(entries) = n /\ Len(entries') = n + 1 /\ entries'[n + 1].body = b
                        /\ \A i \in 1..n : entries'[i] = entries[i]
    BY <1>4, AppendedEntry DEF TypeInv
  <2>2. ASSUME NEW i \in 1..(n + 1)
        PROVE  SignedBody(entries'[i].body)
    <3>1. CASE i = n + 1
      BY <1>4, <2>1, <3>1
    <3>2. CASE i \in 1..n
      BY <2>1, <3>2 DEF SignedInv, Positions, Body
    <3>3. QED
      BY <3>1, <3>2
  <2>3. SUFFICES ASSUME NEW i \in 1..(n + 1)
                 PROVE  SignedBody(Body(i))'
    BY <2>1 DEF SignedInv, Positions
  <2>4. PICK c : c = entries'[i].body
    OBVIOUS
  <2>5. SignedBody(c)'
    BY <1>2, <2>2, <2>4
  <2>6. QED
    BY <2>4, <2>5 DEF SignedBody, Body
<1>5. ASSUME NEW t \in Threads, ThreadStep(t)
      PROVE  SignedInv'
  <2>1. WriteDecision(t) \/ WriteExecution(t) => <<t, out[t].attempt>> \in Threads \X {1, 2}
    BY DEF WriteDecision, WriteExecution, TypeInv, DecidedAnswers, Decided, Decisions, Execution
  <2>2. WriteDecision(t) => SignedBody(DecisionBody(t))
    BY <2>1 DEF SignedBody, DecisionBody, OverrideKinds
  <2>3. WriteExecution(t) => SignedBody(ExecutionBody(t))
    BY <2>1 DEF SignedBody, ExecutionBody, OverrideKinds
  <2>4. QED
    BY <1>3, <1>4, <1>5, <2>2, <2>3, ThreadWrites, WrittenBodies DEF WriteDecision, WriteExecution
<1>6. ASSUME NEW o \in Operators, OperatorHandler(o) \/ OperatorStep(o)
      PROVE  SignedInv'
  <2>1. operatorLedger(o) => SignedBody(OverrideBody(o))
    BY DEF operatorLedger, AcceptedInv, Accepted, SignedBody, OverrideBody, Overrides, OverrideKinds
  <2>2. QED
    BY <1>3, <1>4, <1>6, <2>1, OverrideBodies DEF OperatorHandler, OperatorStep, StoreOverride,
       ForceOverride, operatorLedger, routerVars
<1>7. ASSUME NEW t \in Threads, RejectMalformed(t) \/ RouteHandler(t) \/ RunWorkflow(t)
      PROVE  UNCHANGED ledgerVars
  BY <1>7 DEF RejectMalformed, RouteHandler, RunWorkflow, Turned, Call
<1>8. QED
  BY <1>3, <1>5, <1>6, <1>7 DEF Next, Quiescent, RequestStep, ProviderReturns, SteerDrift, vars,
     routerVars

-----------------------------------------------------------------------------
(* The order of overrides and admissions. *)

(* Every admission of t on record was there before the step, and so was    *)
(* everything before it.                                                   *)
NoNewAdmission(t) ==
    \A j \in Positions' : IsAdmission(entries'[j].body, t) =>
        j \in Positions /\ \A i \in 1..j : i \in Positions /\ entries'[i] = entries[i]

LEMMA AppendedNoAdmission ==
  ASSUME TypeOK, NEW b \in Bodies, AppendEntry(b), NEW t, ~IsAdmission(b, t)
  PROVE  NoNewAdmission(t)
<1>1. PICK n \in Nat : /\ Len(entries) = n /\ Len(entries') = n + 1 /\ entries'[n + 1].body = b
                      /\ \A i \in 1..n : entries'[i] = entries[i]
  BY AppendedEntry
<1>2. Positions = 1..n /\ Positions' = 1..(n + 1)
  BY <1>1 DEF Positions
<1>3. ASSUME NEW j \in 1..(n + 1), IsAdmission(entries'[j].body, t)
      PROVE  j \in 1..n /\ \A i \in 1..j : i \in 1..n /\ entries'[i] = entries[i]
  <2>1. j # n + 1
    BY <1>1, <1>3
  <2>2. QED
    BY <1>1, <2>1
<1>4. QED
  BY <1>2, <1>3 DEF NoNewAdmission

LEMMA UnchangedNoAdmission ==
  ASSUME TypeOK, UNCHANGED ledgerVars, NEW t
  PROVE  NoNewAdmission(t)
<1>1. Len(entries) \in Nat /\ entries' = entries
  BY DEF TypeOK, ledgerVars
<1>2. QED
  BY <1>1 DEF NoNewAdmission, Positions

(* Whoever was caught stays caught. *)
LEMMA AuditedKept ==
  ASSUME SignedInv, TypeOK, NEW t \in Threads, Audited(t), NoNewAdmission(t), req'[t] = req[t],
         \A k \in Overrides(Intent(t)) :
            gen[t] = "none" /\ Caught(pc[t], k) => gen'[t] = "none" /\ Caught(pc'[t], k)
  PROVE  Audited(t)'
<1> SUFFICES ASSUME NEW i \in Positions', NEW j \in Positions', i < j,
                    entries'[i].body.kind \in OverrideKinds, entries'[i].body.intent = Intent(t),
                    IsAdmission(entries'[j].body, t)
             PROVE  gen'[t] = "none" /\ Caught(pc'[t], entries'[i].body.kind)
  BY DEF Audited, Body, IsOverride, IsAdmission, Intent, Caught
<1>1. i \in 1..j
  BY DEF Positions
<1>2. i \in Positions /\ j \in Positions /\ entries'[i] = entries[i] /\ entries'[j] = entries[j]
  BY <1>1 DEF NoNewAdmission, Positions
<1>3. gen[t] = "none" /\ Caught(pc[t], Body(i).kind)
  BY <1>2 DEF Audited, IsOverride, Body
<1>4. Body(i).kind \in Overrides(Intent(t))
  BY <1>2 DEF SignedInv, SignedBody, Body
<1>5. QED
  BY <1>2, <1>3, <1>4 DEF Body

(* The final checks stop a goroutine that is caught. *)
LEMMA FlowCaught ==
  ASSUME NEW p, NEW v, NEW a, NEW now, NEW q, NEW b, Flow(p, v, a, now, q, b),
         NEW k \in now \cap OverrideKinds, Caught(p, k)
  PROVE  Caught(q, k) /\ p # "generate"
BY DEF Flow, OverrideKinds, Caught, Passes, PassesTo, StoppedAt, Refuses, Gates, Admission, Admits, Withdraws,
   Forces, Writes, Fails

LEMMA ThreadStepAudited ==
  ASSUME TypeInv, AnswersInv, SignedInv, AuditInv, NEW t \in Threads, ThreadStep(t)
  PROVE  AuditInv'
<1>1. GoroutineTypes
  BY TypeOKGoroutines DEF TypeInv
<1>2. PICK q, b : Moves(t, q, b)
  BY <1>1, ThreadMoves
<1>3. /\ pc' = [pc EXCEPT ![t] = q] /\ req' = req
      /\ gen' = IF pc[t] = "generate" THEN [gen EXCEPT ![t] = "running"] ELSE gen
  BY <1>2 DEF Moves
<1>4. ASSUME NoNewAdmission(t)
      PROVE  Audited(t)'
  <2>1. ASSUME NEW k \in Overrides(Intent(t)), gen[t] = "none", Caught(pc[t], k)
        PROVE  gen'[t] = "none" /\ Caught(pc'[t], k)
    <3>1. k \in OverrideKinds
      BY <2>1 DEF Overrides, OverrideKinds
    <3>2. Caught(q, k) /\ pc[t] # "generate"
      BY <1>2, <2>1, <3>1, FlowCaught DEF Moves
    <3>3. QED
      BY <1>1, <1>3, <2>1, <3>2 DEF GoroutineTypes
  <2>2. Audited(t)
    BY DEF AuditInv
  <2>3. QED
    BY <1>3, <1>4, <2>1, <2>2, AuditedKept DEF TypeInv
<1>5. ASSUME WriteDecision(t), IsAdmission(DecisionBody(t), t)
      PROVE  Audited(t)'
  <2>1. out[t] = Admit /\ gen[t] = "none"
    <3>1. Holds("write", via[t], out[t], gen[t])
      BY <1>5 DEF WriteDecision, AnswersInv
    <3>2. out[t].result = "ADMIT"
      BY <1>5 DEF IsAdmission, DecisionBody
    <3>3. ExecutionDenied.result = "DENY"
      BY DEF ExecutionDenied, Answer
    <3>4. Refusal(out[t]) => out[t].result # "ADMIT"
      BY DEF Refusal
    <3>5. QED
      BY <3>1, <3>2, <3>3, <3>4 DEF Holds
  <2>2. pc'[t] \in {"final.terminated", "done"} /\ gen'[t] = "none"
    BY <1>5, <2>1 DEF WriteDecision, Goto, TypeInv, TypeOK
  <2>3. QED
    BY <2>2 DEF Audited, Caught
<1>6. Audited(t)'
  <2>1. UNCHANGED ledgerVars => NoNewAdmission(t)
    BY UnchangedNoAdmission DEF TypeInv
  <2>2. CASE WriteDecision(t) /\ ~IsAdmission(DecisionBody(t), t)
    BY <1>4, <2>2, WrittenBodies, AppendedNoAdmission DEF WriteDecision, TypeInv
  <2>3. CASE WriteExecution(t)
    <3>1. ~IsAdmission(ExecutionBody(t), t)
      BY DEF IsAdmission, ExecutionBody
    <3>2. QED
      BY <1>4, <2>3, <3>1, WrittenBodies, AppendedNoAdmission DEF WriteExecution, TypeInv
  <2>4. QED
    BY <1>4, <1>5, <2>1, <2>2, <2>3, ThreadWrites
<1>7. ASSUME NEW u \in Threads, u # t
      PROVE  Audited(u)'
  <2>1. NoNewAdmission(u)
    <3>1. ~IsAdmission(DecisionBody(t), u) /\ ~IsAdmission(ExecutionBody(t), u)
      BY <1>7 DEF IsAdmission, DecisionBody, ExecutionBody
    <3>2. QED
      BY <3>1, ThreadWrites, WrittenBodies, AppendedNoAdmission, UnchangedNoAdmission
         DEF WriteDecision, WriteExecution, TypeInv
  <2>2. gen'[u] = gen[u] /\ pc'[u] = pc[u] /\ req'[u] = req[u]
    BY <1>1, <1>3, <1>7 DEF GoroutineTypes
  <2>3. Audited(u)
    BY DEF AuditInv
  <2>4. QED
    BY <2>1, <2>2, <2>3, AuditedKept DEF TypeInv
<1>8. QED
  BY <1>6, <1>7 DEF AuditInv

LEMMA NextAudited ==
  ASSUME TypeInv, AnswersInv, SignedInv, RecordedInv, AuditInv, [Next]_vars
  PROVE  AuditInv'
<1>1. ASSUME UNCHANGED <<pc, gen, req>>, \A u \in Threads : NoNewAdmission(u)
      PROVE  AuditInv'
  BY <1>1, AuditedKept DEF AuditInv, TypeInv
<1>2. ASSUME NEW t \in Threads, RejectMalformed(t) \/ RouteHandler(t) \/ RunWorkflow(t)
      PROVE  AuditInv'
  <2>1. PICK q, v, r, a : Arrives(t, q, v, r, a)
    BY <1>2, ArrivalMoves DEF TypeInv
  <2>2. UNCHANGED ledgerVars /\ pc[t] = "idle" /\ gen' = gen
    BY <2>1 DEF Arrives
  <2>3. Audited(t)'
    <3>1. Own(t)' = {}
      BY <2>2, UnchangedOwn, KeptRecords DEF RecordedInv, Recorded, Undecided
    <3>2. ASSUME NEW j \in Positions', IsAdmission(entries'[j].body, t)
          PROVE  j \in Own(t)'
      BY <3>2 DEF Own, OwnBody, IsAdmission, Body
    <3>3. QED
      BY <3>1, <3>2 DEF Audited, IsAdmission, Body
  <2>4. ASSUME NEW u \in Threads, u # t
        PROVE  Audited(u)'
    <3>1. gen'[u] = gen[u] /\ pc'[u] = pc[u] /\ req'[u] = req[u]
      BY <2>1, <2>4 DEF Arrives, TypeInv, TypeOK
    <3>2. Audited(u) /\ NoNewAdmission(u)
      BY <2>2, UnchangedNoAdmission DEF AuditInv, TypeInv
    <3>3. QED
      BY <3>1, <3>2, AuditedKept DEF TypeInv
  <2>5. QED
    BY <2>3, <2>4 DEF AuditInv
<1>3. ASSUME NEW t \in Threads, RequestStep(t)
      PROVE  AuditInv'
  BY <1>3, ThreadStepAudited DEF RequestStep
<1>4. ASSUME NEW o \in Operators, OperatorHandler(o) \/ OperatorStep(o)
      PROVE  AuditInv'
  <2>1. UNCHANGED <<pc, gen, req>>
    BY <1>4 DEF OperatorHandler, OperatorStep, StoreOverride, ForceOverride, operatorLedger,
       routerVars, threadVars
  <2>2. ASSUME NEW u \in Threads
        PROVE  NoNewAdmission(u)
    <3>1. CASE operatorLedger(o)
      <4>1. ~IsAdmission(OverrideBody(o), u)
        BY <3>1, OverrideBodies DEF IsAdmission, OverrideKinds
      <4>2. QED
        BY <3>1, <4>1, OverrideBodies, AppendedNoAdmission DEF operatorLedger, TypeInv
    <3>2. CASE UNCHANGED ledgerVars
      BY <3>2, UnchangedNoAdmission DEF TypeInv
    <3>3. QED
      BY <1>4, <3>1, <3>2 DEF OperatorHandler, OperatorStep, StoreOverride, ForceOverride, routerVars
  <2>3. QED
    BY <1>1, <2>1, <2>2
<1>5. ASSUME NEW t \in Threads, ProviderReturns(t)
      PROVE  AuditInv'
  <2>1. ASSUME NEW u \in Threads
        PROVE  Audited(u)'
    <3>1. /\ UNCHANGED <<ledgerVars, pc, req>>
          /\ gen[u] = "none" => gen'[u] = "none"
      BY <1>5 DEF ProviderReturns, TypeInv, TypeOK
    <3>2. Audited(u) /\ NoNewAdmission(u)
      BY <3>1, UnchangedNoAdmission DEF AuditInv, TypeInv
    <3>3. QED
      BY <3>1, <3>2, AuditedKept DEF TypeInv
  <2>2. QED
    BY <2>1 DEF AuditInv
<1>6. CASE UNCHANGED <<ledgerVars, pc, gen, req>>
  BY <1>1, <1>6, UnchangedNoAdmission DEF TypeInv
<1>7. QED
  BY <1>2, <1>3, <1>4, <1>5, <1>6 DEF Next, Quiescent, SteerDrift, vars, routerVars, threadVars

-----------------------------------------------------------------------------
(* The invariant, and what an auditor may conclude from it. *)

LEMMA InitRecords == Init => RecordsInv
<1> SUFFICES ASSUME Init PROVE RecordsInv
  OBVIOUS
<1>1. entries = << >>
  BY DEF Init, LedgerInit
<1>2. Positions = {}
  BY <1>1 DEF Positions
<1>3. SignedInv /\ AuditInv /\ \A t \in Threads : Nothing(t)
  BY <1>2 DEF SignedInv, AuditInv, Audited, Nothing, Own
<1>4. \A t \in Threads : Undecided(pc[t], out[t])
  BY DEF Init, RouterInit, Undecided
<1>5. RecordedInv
  BY <1>3, <1>4, StagesDiffer DEF RecordedInv, Recorded
<1>6. QED
  BY <1>3, <1>5 DEF RecordsInv

(* At every place in the code a goroutine has written exactly the entries  *)
(* the control flow has it write.                                          *)
THEOREM RecordsInvariant == Spec => []RecordsInv
<1>1. TypeInv /\ AnswersInv /\ OverridesInv /\ RecordsInv /\ [Next]_vars => RecordsInv'
  BY NextSigned, NextRecorded, NextAudited DEF RecordsInv, OverridesInv
<1>2. QED
  BY <1>1, InitRecords, TypeInvariant, AnswersInvariant, OverridesInvariant, PTL DEF Spec

(* If an override of an intent is on record before the ADMIT of a request  *)
(* for it, the provider is never called for that request (the final check  *)
(* of GovernAndExecute).                                                   *)
THEOREM LedgerOrderIsTrustworthy == Spec => []AuditOrder
<1>1. RecordsInv => AuditOrder
  BY DEF RecordsInv, AuditInv, Audited, AuditOrder
<1>2. QED
  BY <1>1, RecordsInvariant, PTL

(* Every goroutine is in one of the five stages. *)
LEMMA SomeStage ==
  ASSUME TypeOK, AnswersInv, NEW t \in Threads
  PROVE  \/ Undecided(pc[t], out[t]) \/ InExecution(pc[t], out[t])
         \/ Settled(pc[t], via[t], out[t]) \/ Completed(pc[t], via[t], out[t])
         \/ Failed(pc[t], out[t])
<1>1. pc[t] \in {"idle", "force", "write", "done"} \cup Gates \cup Execution
  BY DEF TypeOK, PCs, Gates
<1>2. out[t].attempt \in {0, 1, 2}
  BY DEF TypeOK, Answers
<1>3. pc[t] = "write" => out[t].attempt # 0
  <2>1. Admit.attempt = 1 /\ ExecutionDenied.attempt = 2
    BY DEF Admit, ExecutionDenied, Answer
  <2>2. Refusal(out[t]) => out[t].attempt = 1
    BY DEF Refusal
  <2>3. pc[t] = "write" => Refusal(out[t]) \/ out[t] = Admit \/ out[t] = ExecutionDenied
    BY DEF AnswersInv, Holds
  <2>4. QED
    BY <2>1, <2>2, <2>3
<1>4. QED
  BY <1>1, <1>2, <1>3 DEF Undecided, InExecution, Settled, Failed

(* An execution on record belongs to a goroutine that has completed. *)
LEMMA ExecutionMeansCompleted ==
  ASSUME TypeInv, AnswersInv, RecordsInv, NEW t \in Threads,
         NEW i \in Own(t), Body(i).kind = "execution"
  PROVE  Completed(pc[t], via[t], out[t])
<1>1. DecisionBody(t).kind = "decision" /\ AdmissionBody(t).kind = "decision"
  BY DEF DecisionBody, AdmissionBody
<1>2. Recorded(t)
  BY DEF RecordsInv, RecordedInv
<1>3. ~Nothing(t)
  BY DEF Nothing
<1>4. \A b : b.kind = "decision" => ~Once(t, b)
  BY DEF Once
<1>5. \A b, c : b.kind = "decision" /\ c.kind = "decision" => ~Twice(t, b, c)
  BY DEF Twice
<1>6. QED
  BY <1>1, <1>2, <1>3, <1>4, <1>5, SomeStage DEF Recorded, TypeInv

(* Every execution that GenerateCER certifies leads back to the ADMIT of   *)
(* the same request and intent, which is the first entry under its id      *)
(* (WriteExecution).                                                       *)
THEOREM ExecutionsAreBound == Spec => []ExecutionBoundToDecision
<1>1. ASSUME TypeInv, AnswersInv, RecordsInv
      PROVE  ExecutionBoundToDecision
  <2> SUFFICES ASSUME NEW i \in Positions, Body(i).kind = "execution"
               PROVE  LET c == GenerateCER(Body(i).id)
                      IN  /\ 0 < c /\ c < i
                          /\ Body(c).kind = "decision"
                          /\ Body(c).result = "ADMIT"
                          /\ Body(c).intent = Body(i).intent
    BY DEF ExecutionBoundToDecision
  <2>1. Body(i).id \in Threads \X {1, 2}
    BY <1>1 DEF RecordsInv, SignedInv, SignedBody, OverrideKinds
  <2>2. PICK t \in Threads : t = Body(i).id[1]
    BY <2>1
  <2>3. i \in Own(t)
    BY <2>2 DEF Own, OwnBody
  <2>4. Completed(pc[t], via[t], out[t])
    BY <1>1, <2>3, ExecutionMeansCompleted
  <2>5. PICK c \in Positions, j \in Positions :
          c < j /\ Own(t) = {c, j} /\ Body(c) = AdmissionBody(t) /\ Body(j) = ExecutionBody(t)
    BY <1>1, <2>4 DEF RecordsInv, RecordedInv, Recorded, Twice
  <2>6. /\ AdmissionBody(t).kind = "decision" /\ AdmissionBody(t).id = <<t, 1>>
        /\ AdmissionBody(t).result = "ADMIT" /\ AdmissionBody(t).intent = Intent(t)
        /\ ExecutionBody(t).id = <<t, 1>> /\ ExecutionBody(t).intent = Intent(t)
    <3>1. Admit.attempt = 1
      BY DEF Admit, Answer
    <3>2. out[t].attempt = 1
      BY <2>4, <3>1 DEF Completed
    <3>3. QED
      BY <3>2 DEF AdmissionBody, ExecutionBody
  <2>7. j = i
    BY <2>3, <2>5, <2>6
  <2>8. GenerateCER(Body(i).id) = c
    <3> DEFINE At == {k \in 1..Len(entries) : entries[k].body.id = Body(i).id}
    <3>1. Body(i).id = <<t, 1>>
      BY <2>5, <2>6, <2>7
    <3>2. ASSUME NEW k \in Positions, Body(k).id = <<t, 1>>
          PROVE  k \in Own(t)
      <4>1. Body(k).kind \notin OverrideKinds
        BY <1>1, <3>2 DEF RecordsInv, SignedInv, SignedBody
      <4>2. Body(k).kind \in {"decision", "execution"} \cup OverrideKinds
        <5>1. entries \in Seq(Entries)
          BY <1>1 DEF TypeInv, TypeOK
        <5>2. entries[k] \in Entries
          BY <5>1 DEF Positions
        <5>3. QED
          BY <5>2 DEF Entries, Bodies, Body
      <4>3. QED
        BY <3>2, <4>1, <4>2 DEF Own, OwnBody
    <3>3. At = {c, i}
      BY <2>5, <2>6, <2>7, <3>1, <3>2 DEF Positions, Body
    <3>4. c \in Nat /\ i \in Nat /\ c < i
      BY <2>5, <2>7 DEF Positions
    <3> HIDE DEF At
    <3>5. (CHOOSE k \in At : \A m \in At : k <= m) = c
      BY <3>3, <3>4
    <3>6. QED
      BY <3>3, <3>5 DEF GenerateCER, At
  <2>9. QED
    BY <2>5, <2>6, <2>7, <2>8 DEF Positions
<1>2. QED
  BY <1>1, TypeInvariant, AnswersInvariant, RecordsInvariant, PTL

(* What a governed request is told is what the ledger shows: its decision  *)
(* is recorded once under its id, and a /workflow call is answered 200     *)
(* just when its execution is recorded (Admit, GovernAndExecute and the    *)
(* handlers' status codes).                                                *)
THEOREM AnswersAreOnRecord == Spec => []AnswersMatchLedger
<1>1. ASSUME TypeInv, AnswersInv, RecordsInv
      PROVE  AnswersMatchLedger
  <2> DEFINE OnRecordOnce(t) ==
                 \E i \in Positions :
                    /\ Body(i) = DecisionBody(t)
                    /\ \A j \in Positions :
                          Body(j).kind = "decision" /\ Body(j).id = Body(i).id => j = i
  <2> SUFFICES ASSUME NEW t \in Threads, pc[t] = "done", out[t].attempt # 0
               PROVE  /\ OnRecordOnce(t)
                      /\ Executed(t) <=> via[t] = "workflow" /\ Status(t) = 200
    BY DEF AnswersMatchLedger, Governed
  <2>1. Recorded(t) /\ Holds("done", via[t], out[t], gen[t])
    BY <1>1 DEF RecordsInv, RecordedInv, AnswersInv
  <2>2. /\ DecisionBody(t).kind = "decision" /\ DecisionBody(t).id = <<t, out[t].attempt>>
        /\ AdmissionBody(t).kind = "decision" /\ AdmissionBody(t).id = <<t, 1>>
        /\ ExecutionBody(t).kind = "execution" /\ ExecutionBody(t).id = <<t, out[t].attempt>>
    BY DEF DecisionBody, AdmissionBody, ExecutionBody
  <2>3. ASSUME NEW i \in Own(t), Body(i) = DecisionBody(t),
               \A j \in Own(t) : Body(j).kind = "decision" /\ Body(j).id = Body(i).id => j = i
        PROVE  OnRecordOnce(t)
    <3>1. ASSUME NEW j \in Positions, Body(j).kind = "decision", Body(j).id = Body(i).id
          PROVE  j \in Own(t)
      BY <2>2, <2>3, <3>1 DEF Own, OwnBody
    <3>2. QED
      BY <2>3, <3>1 DEF Own
  <2>4. Executed(t) <=> \E i \in Own(t) : Body(i).kind = "execution"
    BY DEF Executed, IsExecution, Own, OwnBody
  <2>5. Executed(t) => Completed(pc[t], via[t], out[t])
    BY <1>1, <2>4, ExecutionMeansCompleted
  <2>6. Admit.attempt = 1 /\ Admit.result = "ADMIT" /\ Admit.rule = "usl.gate" /\ Admit.err = ""
    BY DEF Admit, Answer
  <2> HIDE DEF OnRecordOnce
  <2>7. CASE Completed(pc[t], via[t], out[t])
    <3>1. PICK i \in Positions, j \in Positions :
            i < j /\ Own(t) = {i, j} /\ Body(i) = AdmissionBody(t) /\ Body(j) = ExecutionBody(t)
      BY <2>1, <2>7 DEF Recorded, Twice
    <3>2. out[t] = Admit /\ via[t] = "workflow"
      BY <2>7 DEF Completed
    <3>3. AdmissionBody(t) = DecisionBody(t)
      BY <2>6, <3>2 DEF AdmissionBody, DecisionBody
    <3>4. OnRecordOnce(t)
      BY <2>2, <2>3, <3>1, <3>3
    <3>5. Executed(t)
      BY <2>2, <2>4, <3>1
    <3>6. Status(t) = 200
      BY <2>6, <3>2 DEF Status
    <3>7. QED
      BY <3>2, <3>4, <3>5, <3>6
  <2>8. ASSUME ~Completed(pc[t], via[t], out[t]), OnRecordOnce(t)
        PROVE  /\ OnRecordOnce(t)
               /\ Executed(t) <=> via[t] = "workflow" /\ Status(t) = 200
    <3>1. ~(via[t] = "workflow" /\ Status(t) = 200)
      <4>1. Refusal(out[t]) => Status(t) # 200
        <5>1. Refusal(out[t]) => out[t].result \in {"DENY", "QUARANTINE"}
          BY DEF Refusal
        <5>2. QED
          BY <5>1 DEF Status
      <4>2. Withdrawn(out[t]) => Status(t) # 200
        <5>1. Withdrawn(out[t]) => out[t].err \in Conflicts
          BY AnswerFields DEF Withdrawn
        <5>2. QED
          BY <5>1 DEF Status, Conflicts
      <4>3. out[t] = ExecutionDenied => Status(t) # 200
        <5>1. ExecutionDenied.result = "DENY"
          BY DEF ExecutionDenied, Answer
        <5>2. QED
          BY <5>1 DEF Status
      <4>4. \/ Refusal(out[t]) \/ out[t] = Admit \/ Withdrawn(out[t]) \/ out[t] = ExecutionDenied
        BY <2>1 DEF Holds
      <4>5. QED
        BY <2>8, <4>1, <4>2, <4>3, <4>4 DEF Completed
    <3>2. QED
      BY <2>5, <2>8, <3>1
  <2>9. CASE Settled(pc[t], via[t], out[t])
    <3>1. PICK i \in Positions : Own(t) = {i} /\ Body(i) = DecisionBody(t)
      BY <2>1, <2>9 DEF Recorded, Once
    <3>2. OnRecordOnce(t)
      BY <2>3, <3>1
    <3>3. QED
      BY <2>8, <2>9, <3>2, StagesDiffer
  <2>10. CASE Failed(pc[t], out[t])
    <3>1. PICK i \in Positions, j \in Positions :
            i < j /\ Own(t) = {i, j} /\ Body(i) = AdmissionBody(t) /\ Body(j) = DecisionBody(t)
      BY <2>1, <2>10 DEF Recorded, Twice
    <3>2. AdmissionBody(t).id # DecisionBody(t).id
      BY <2>2, <2>10 DEF Failed
    <3>3. OnRecordOnce(t)
      BY <2>3, <3>1, <3>2
    <3>4. QED
      BY <2>8, <2>10, <3>3, StagesDiffer
  <2>11. QED
    <3>1. ~Undecided(pc[t], out[t]) /\ ~InExecution(pc[t], out[t])
      BY DEF Undecided, InExecution, Gates, Admission, Execution
    <3>2. QED
      BY <1>1, <2>7, <2>9, <2>10, <3>1, SomeStage DEF TypeInv
<1>2. QED
  BY <1>1, TypeInvariant, AnswersInvariant, RecordsInvariant, PTL
-----------------------------------------------------------------------------
(* Whose overrides they are. *)

(* The entries of operator call o, and that there is just its own. *)
Filed(o) == {n \in Positions : Body(n).id = <<o, 0>>}

FiledOnce(o) == \E n \in Positions : Filed(o) = {n} /\ Body(n) = OverrideBody(o)

Stored(o, k, i) ==
    opc[o] \in {"force", "ledger", "done"} /\ oreq[o].kind = k /\ oreq[o].intent = i

AttributedInv ==
    /\ \A i, k : k \in Overrides(i) => \E o \in Operators : Stored(o, k, i)
    /\ \A o \in Operators : IF opc[o] = "done" THEN FiledOnce(o) ELSE Filed(o) = {}

KeepsFiled(o) ==
    Filed(o)' = Filed(o) /\ \A n \in Filed(o) : n \in Positions' /\ entries'[n] = entries[n]

AddsFiled(o, b) == \E n \in Positions' : Filed(o)' = Filed(o) \cup {n} /\ entries'[n].body = b

LEMMA AppendedFiled ==
  ASSUME TypeOK, NEW b \in Bodies, AppendEntry(b), NEW o
  PROVE  IF b.id = <<o, 0>> THEN AddsFiled(o, b) ELSE KeepsFiled(o)
<1>1. PICK n \in Nat : /\ Len(entries) = n /\ Len(entries') = n + 1 /\ entries'[n + 1].body = b
                      /\ \A i \in 1..n : entries'[i] = entries[i]
  BY AppendedEntry
<1>2. /\ Positions = 1..n /\ Positions' = 1..(n + 1)
      /\ \A i \in 1..n : i \in 1..(n + 1)
      /\ \A i \in 1..(n + 1) : i \in 1..n \/ i = n + 1
  BY <1>1 DEF Positions
<1>3. Filed(o) = {i \in 1..n : entries[i].body.id = <<o, 0>>}
  BY <1>2 DEF Filed, Body
<1>4. Filed(o)' = {i \in 1..(n + 1) : entries'[i].body.id = <<o, 0>>}
  BY <1>2 DEF Filed, Body
<1>5. CASE b.id = <<o, 0>>
  <2>1. Filed(o)' = Filed(o) \cup {n + 1}
    BY <1>1, <1>2, <1>3, <1>4, <1>5
  <2>2. QED
    BY <1>1, <1>2, <1>5, <2>1 DEF AddsFiled
<1>6. CASE b.id # <<o, 0>>
  <2>1. Filed(o)' = Filed(o)
    BY <1>1, <1>2, <1>3, <1>4, <1>6
  <2>2. QED
    BY <1>1, <1>2, <1>3, <1>6, <2>1 DEF KeepsFiled
<1>7. QED
  BY <1>5, <1>6

(* An operator call that does not move keeps its record. *)
LEMMA KeptFiled ==
  ASSUME NEW o, KeepsFiled(o), opc'[o] = opc[o], oreq'[o] = oreq[o],
         IF opc[o] = "done" THEN FiledOnce(o) ELSE Filed(o) = {}
  PROVE  (IF opc[o] = "done" THEN FiledOnce(o) ELSE Filed(o) = {})'
<1>1. CASE opc[o] = "done"
  <2>1. PICK n \in Positions : Filed(o) = {n} /\ Body(n) = OverrideBody(o)
    BY <1>1 DEF FiledOnce
  <2>2. n \in Positions' /\ Filed(o)' = {n} /\ entries'[n] = entries[n]
    BY <2>1 DEF KeepsFiled
  <2>3. OverrideBody(o)' = OverrideBody(o)
    BY DEF OverrideBody
  <2>4. QED
    BY <1>1, <2>1, <2>2, <2>3 DEF FiledOnce, Body
<1>2. CASE opc[o] # "done"
  BY <1>2 DEF KeepsFiled
<1>3. QED
  BY <1>1, <1>2

(* A request's goroutine writes no entry under an operator call's id. *)
LEMMA ThreadKeepsFiled ==
  ASSUME TypeInv, NEW t \in Threads, ThreadStep(t), NEW o
  PROVE  KeepsFiled(o)
<1>1. CASE UNCHANGED ledgerVars
  BY <1>1 DEF ledgerVars, KeepsFiled, Filed, Positions, Body
<1>2. ASSUME WriteDecision(t) \/ WriteExecution(t)
      PROVE  out[t].attempt \in {1, 2}
  BY <1>2 DEF WriteDecision, WriteExecution, TypeInv, DecidedAnswers, Decided, Decisions, Execution
<1>3. CASE WriteDecision(t)
  <2>1. DecisionBody(t).id # <<o, 0>>
    BY <1>2, <1>3 DEF DecisionBody
  <2>2. QED
    BY <1>3, <2>1, WrittenBodies, AppendedFiled DEF WriteDecision, TypeInv
<1>4. CASE WriteExecution(t)
  <2>1. ExecutionBody(t).id # <<o, 0>>
    BY <1>2, <1>4 DEF ExecutionBody
  <2>2. QED
    BY <1>4, <2>1, WrittenBodies, AppendedFiled DEF WriteExecution, TypeInv
<1>5. QED
  BY <1>1, <1>3, <1>4, ThreadWrites

(* No step but an operator call's own touches its record or the store. *)
LEMMA BystanderAttributed ==
  ASSUME AttributedInv, UNCHANGED <<opc, oreq, interruptVars>>, \A o \in Operators : KeepsFiled(o)
  PROVE  AttributedInv'
<1>1. \A i, k : k \in Overrides(i)' => \E o \in Operators : Stored(o, k, i)'
  BY DEF AttributedInv, Stored, Overrides, interruptVars
<1>2. \A o \in Operators : (IF opc[o] = "done" THEN FiledOnce(o) ELSE Filed(o) = {})'
  BY KeptFiled DEF AttributedInv
<1>3. QED
  BY <1>1, <1>2 DEF AttributedInv

LEMMA OperatorAttributed ==
  ASSUME TypeInv, AttributedInv, NEW o \in Operators, OperatorHandler(o) \/ OperatorStep(o)
  PROVE  AttributedInv'
<1>1. \A u \in Operators : u # o => opc'[u] = opc[u] /\ oreq'[u] = oreq[u]
  BY DEF OperatorHandler, OperatorStep, StoreOverride, ForceOverride, operatorLedger, TypeInv, TypeOK
<1>2. ASSUME NEW u \in Operators, NEW k, NEW i, Stored(u, k, i)
      PROVE  Stored(u, k, i)'
  <2>1. CASE u = o
    BY <1>2, <2>1 DEF OperatorHandler, OperatorStep, StoreOverride, ForceOverride, operatorLedger,
       Stored, TypeInv, TypeOK
  <2>2. QED
    BY <1>1, <1>2, <2>1 DEF Stored
<1>3. ASSUME NEW i, NEW k, k \in Overrides(i)'
      PROVE  \E u \in Operators : Stored(u, k, i)'
  <2>1. CASE k \in Overrides(i)
    BY <1>2, <2>1 DEF AttributedInv
  <2>2. CASE k \notin Overrides(i)
    <3>1. StoreOverride(o)
      BY <1>3, <2>2 DEF OperatorHandler, OperatorStep, ForceOverride, operatorLedger, routerVars,
         interruptVars, Overrides
    <3>2. oreq[o].kind = k /\ oreq[o].intent = i
      BY <1>3, <2>2, <3>1 DEF StoreOverride, Interrupt, Correct, Terminate, Overrides
    <3>3. opc'[o] = "force" /\ oreq' = oreq
      BY <3>1 DEF StoreOverride, TypeInv, TypeOK
    <3>4. QED
      BY <3>2, <3>3 DEF Stored
  <2>3. QED
    BY <2>1, <2>2
<1>4. ASSUME NEW u \in Operators
      PROVE  (IF opc[u] = "done" THEN FiledOnce(u) ELSE Filed(u) = {})'
  <2>1. CASE operatorLedger(o) /\ u = o
    <3>1. OverrideBody(o) \in Bodies /\ AppendEntry(OverrideBody(o)) /\ OverrideBody(o).id = <<o, 0>>
      BY <2>1, OverrideBodies DEF operatorLedger, OverrideBody
    <3>2. AddsFiled(o, OverrideBody(o))
      BY <3>1, AppendedFiled DEF TypeInv
    <3>3. Filed(o) = {} /\ opc'[o] = "done" /\ oreq' = oreq
      BY <2>1 DEF operatorLedger, AttributedInv, TypeInv, TypeOK
    <3>4. OverrideBody(o)' = OverrideBody(o)
      BY <3>3 DEF OverrideBody
    <3>5. FiledOnce(o)'
      BY <3>2, <3>3, <3>4 DEF AddsFiled, FiledOnce, Body
    <3>6. QED
      BY <2>1, <3>3, <3>5
  <2>2. CASE operatorLedger(o) /\ u # o
    <3>1. OverrideBody(o) \in Bodies /\ AppendEntry(OverrideBody(o)) /\ OverrideBody(o).id # <<u, 0>>
      BY <2>2, OverrideBodies DEF operatorLedger, OverrideBody
    <3>2. KeepsFiled(u)
      BY <3>1, AppendedFiled DEF TypeInv
    <3>3. QED
      BY <1>1, <2>2, <3>2, KeptFiled DEF AttributedInv
  <2>3. CASE OperatorHandler(o) \/ StoreOverride(o) \/ ForceOverride(o)
    <3>1. KeepsFiled(u)
      BY <2>3 DEF OperatorHandler, StoreOverride, ForceOverride, routerVars, ledgerVars, KeepsFiled,
         Filed, Positions, Body
    <3>2. CASE u # o
      BY <1>1, <3>1, <3>2, KeptFiled DEF AttributedInv
    <3>3. CASE u = o
      <4>1. opc[o] # "done" /\ opc'[o] # "done"
        BY <2>3 DEF OperatorHandler, StoreOverride, ForceOverride, TypeInv, TypeOK
      <4>2. QED
        BY <3>1, <3>3, <4>1 DEF AttributedInv, KeepsFiled
    <3>4. QED
      BY <3>2, <3>3
  <2>4. QED
    BY <2>1, <2>2, <2>3 DEF OperatorStep
<1>5. QED
  BY <1>3, <1>4 DEF AttributedInv

LEMMA NextAttributed ==
  ASSUME TypeInv, AttributedInv, [Next]_vars
  PROVE  AttributedInv'
<1>1. ASSUME UNCHANGED <<ledgerVars, opc, oreq, interruptVars>>
      PROVE  AttributedInv'
  <2>1. \A o \in Operators : KeepsFiled(o)
    BY <1>1 DEF ledgerVars, KeepsFiled, Filed, Positions, Body
  <2>2. QED
    BY <1>1, <2>1, BystanderAttributed
<1>2. ASSUME NEW t \in Threads, RejectMalformed(t) \/ RouteHandler(t) \/ RunWorkflow(t)
      PROVE  AttributedInv'
  <2>1. UNCHANGED <<ledgerVars, opc, oreq, interruptVars>>
    BY <1>2 DEF RejectMalformed, RouteHandler, RunWorkflow, Turned, Call, operatorVars
  <2>2. QED
    BY <1>1, <2>1
<1>3. ASSUME NEW t \in Threads, RequestStep(t)
      PROVE  AttributedInv'
  <2>1. PICK q, b : Moves(t, q, b)
    BY <1>3, ThreadMoves, TypeOKGoroutines DEF RequestStep, TypeInv
  <2>2. UNCHANGED <<opc, oreq, interruptVars>>
    BY <1>3, <2>1 DEF RequestStep, operatorVars, Moves
  <2>3. \A o \in Operators : KeepsFiled(o)
    BY <1>3, ThreadKeepsFiled DEF RequestStep
  <2>4. QED
    BY <2>2, <2>3, BystanderAttributed
<1>4. QED
  BY <1>1, <1>2, <1>3, OperatorAttributed DEF Next, Quiescent, ProviderReturns, SteerDrift, vars,
     routerVars, operatorVars

(* Every override in the store has the call that put it there, and a call  *)
(* has one entry once it is answered and none before.                      *)
THEOREM AttributedInvariant == Spec => []AttributedInv
<1>1. Init => AttributedInv
  <2> SUFFICES ASSUME Init PROVE AttributedInv
    OBVIOUS
  <2>1. \A i : Overrides(i) = {}
    BY DEF Init, InterruptInit, Overrides
  <2>2. Positions = {}
    BY DEF Init, LedgerInit, Positions
  <2>3. \A o \in Operators : opc[o] # "done"
    BY DEF Init
  <2>4. QED
    BY <2>1, <2>2, <2>3 DEF AttributedInv, Filed
<1>2. QED
  BY <1>1, NextAttributed, TypeInvariant, PTL DEF Spec

(* The token of OperatorAuth is set, and header h carries it. *)
Bears(h) == OperatorToken # "" /\ h = [scheme |-> "Bearer", value |-> OperatorToken]

LEMMA AuthorizedBears ==
  ASSUME TypeInv, AcceptedInv, NEW o \in Operators, opc[o] \in {"force", "ledger", "done"}
  PROVE  Bears(oreq[o].header)
<1>1. Authorized(oreq[o].header)
  BY DEF AcceptedInv, Accepted
<1>2. oreq[o].header \in [scheme : STRING, value : STRING]
  BY RequestsAssumption DEF TypeInv, AcceptedNamesIntent
<1>3. QED
  BY <1>1, <1>2 DEF Authorized, Bears

(* Every override in the store, every answer 409 and every override entry  *)
(* of the ledger leads back to an operator call that carried the token,    *)
(* and every answered call is on record once, for any number of requests   *)
(* and operators (OperatorAuth.Authorized, the operator handlers,          *)
(* operatorLedger).                                                        *)
THEOREM OverridesComeFromOperators == Spec => []OverridesAreAttributable
<1>1. ASSUME TypeInv, OverridesInv, SignedInv, AttributedInv
      PROVE  OverridesAreAttributable
  <2>1. ASSUME NEW o \in Operators, NEW k, NEW i, Stored(o, k, i)
        PROVE  Issued(o, k, i)
    <3>1. Bears(oreq[o].header)
      BY <1>1, <2>1, AuthorizedBears DEF Stored, OverridesInv
    <3>2. QED
      BY <2>1, <3>1, Zenon DEF Issued, Stored, Bears
  <2>2. ASSUME NEW i, NEW k, k \in Overrides(i)
        PROVE  k \in OverrideKinds /\ \E o \in Operators : Issued(o, k, i)
    <3>1. k \in OverrideKinds
      BY <2>2 DEF Overrides, OverrideKinds
    <3>2. QED
      BY <1>1, <2>1, <2>2, <3>1 DEF AttributedInv
  <2>3. ASSUME NEW t \in Threads, Status(t) = 409
        PROVE  \E o \in Operators, k \in OverrideKinds : Issued(o, k, Intent(t))
    <3>1. Told(out[t])
      BY <2>3 DEF Status, Told, Conflicts
    <3>2. PICK k : k \in Overrides(Intent(t))
      BY <1>1, <3>1 DEF OverridesInv, ScopedInv
    <3>3. QED
      BY <2>2, <3>2
  <2>4. ASSUME NEW n \in Positions, Body(n).kind \in OverrideKinds
        PROVE  \E o \in Operators : opc[o] = "done" /\ Issued(o, Body(n).kind, Body(n).intent)
    <3>1. Body(n).id \in Ids /\ Body(n).id[2] = 0
      <4>1. Body(n) \in Bodies
        <5>1. entries \in Seq(Entries)
          BY <1>1 DEF TypeInv, TypeOK
        <5>2. entries[n] \in Entries
          BY <5>1 DEF Positions
        <5>3. QED
          BY <5>2 DEF Body, Entries
      <4>2. QED
        BY <1>1, <2>4, <4>1 DEF SignedInv, SignedBody, Bodies
    <3>2. PICK o \in Operators : Body(n).id = <<o, 0>>
      BY <3>1 DEF Ids
    <3>3. n \in Filed(o)
      BY <3>2 DEF Filed
    <3>4. opc[o] = "done" /\ Body(n) = OverrideBody(o)
      BY <1>1, <3>3 DEF AttributedInv, FiledOnce
    <3>5. Stored(o, Body(n).kind, Body(n).intent)
      BY <3>4 DEF Stored, OverrideBody
    <3>6. QED
      BY <2>1, <3>4, <3>5
  <2>5. ASSUME NEW o \in Operators, opc[o] = "done"
        PROVE  \E n \in Positions : /\ Body(n) = OverrideBody(o)
                                    /\ \A m \in Positions : Body(m).id = <<o, 0>> => m = n
    <3>1. PICK n \in Positions : Filed(o) = {n} /\ Body(n) = OverrideBody(o)
      BY <1>1, <2>5 DEF AttributedInv, FiledOnce
    <3>2. QED
      BY <3>1 DEF Filed
  <2>6. QED
    BY <2>2, <2>3, <2>4, <2>5 DEF OverridesAreAttributable
<1>2. QED
  BY <1>1, TypeInvariant, OverridesInvariant, RecordsInvariant, AttributedInvariant, PTL DEF RecordsInv
=============================================================================
