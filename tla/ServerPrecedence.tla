-------------------------- MODULE ServerPrecedence --------------------------
(***************************************************************************)
(* Operator precedence, for any number of requests and operator calls: an  *)
(* override that stood when a request arrived, and an interrupt or a       *)
(* termination stored by the time Admit re-checks, keep the request from   *)
(* being admitted.  The argument follows one goroutine through the gates:  *)
(* overrides are never withdrawn, so each kind it is up against is still   *)
(* in the store when it comes to the gate that looks for that kind.        *)
(***************************************************************************)
EXTENDS ServerChain

(* Where an override of each kind may still be ahead of its first check, *)
(* and where the in-flight re-check has not begun.                       *)
BeforeTerminated  == {"verify", "terminated"}
BeforeInterrupted == BeforeTerminated \cup {"interrupted"}
BeforeCorrection  == BeforeInterrupted \cup
                     {"gre", "gre.terminated", "gre.interrupted", "gre.correction"}
BeforeRecheck     == {"idle", "provider", "reterminated"} \cup BeforeCorrection

(* A goroutine at p with this result, that met overrides b on arrival and  *)
(* f in flight while the store holds now: it has yet to reach the gate for *)
(* each of them, or has been refused.                                      *)
Refused(p, result) == p \in {"force", "write", "done"} /\ result # "ADMIT"

Guarded(p, result, b, f, now) ==
    /\ b \subseteq now /\ f \subseteq now
    /\ "terminate" \in b => p \in BeforeTerminated  \/ Refused(p, result)
    /\ "interrupt" \in b => p \in BeforeInterrupted \/ Refused(p, result)
    /\ "correct"   \in b => p \in BeforeCorrection  \/ Refused(p, result)
    /\ p \in BeforeRecheck => f = {}
    /\ "terminate" \in f => Refused(p, result)
    /\ "interrupt" \in f => p = "reinterrupted" \/ Refused(p, result)

ThreadsGuarded ==
    \A t \in Threads :
        Guarded(pc[t], out[t].result, barred[t], inflight[t], Overrides(Intent(t)))

AdmittedUnbarred ==
    \A t \in Threads : Admitted(t) =>
        /\ pc[t] \in {"write", "done"} \cup Execution
        /\ barred[t] = {}
        /\ inflight[t] \cap {"terminate", "interrupt"} = {}

PrecedenceInv == ThreadsGuarded /\ AdmittedUnbarred

-----------------------------------------------------------------------------
(* The override store, kind by kind. *)

LEMMA OverridesByKind ==
  ASSUME NEW i
  PROVE  /\ "interrupt" \in Overrides(i) <=> IsInterrupted(i)
         /\ "correct"   \in Overrides(i) <=> Correction(i)
         /\ "terminate" \in Overrides(i) <=> IsTerminated(i)
BY DEF Overrides, IsInterrupted, Correction, IsTerminated

(* A growing store keeps a goroutine that does nothing guarded. *)
LEMMA GuardedGrows ==
  ASSUME NEW p, NEW result, NEW b, NEW f, NEW now, NEW later,
         Guarded(p, result, b, f, now), now \subseteq later
  PROVE  Guarded(p, result, b, f, later)
BY DEF Guarded

-----------------------------------------------------------------------------
(* Which entries admit whom. *)

LEMMA SameLedgerSameAdmissions ==
  ASSUME UNCHANGED ledgerVars, NEW u
  PROVE  Admitted(u)' => Admitted(u)
BY DEF ledgerVars, Admitted, Positions, Body

LEMMA AppendedAdmission ==
  ASSUME TypeOK, NEW b \in Bodies, AppendEntry(b), NEW u
  PROVE  Admitted(u)' => Admitted(u) \/ IsAdmission(b, u)
<1> DEFINE n == Len(entries)
           e == NextEntry(b)
<1>1. entries \in Seq(Entries) /\ n \in Nat
  BY DEF TypeOK
<1>2. e \in Entries
  <2>1. hashEntry(nextIdx, b) \in Hashes
    BY DEF hashEntry, Hashes, TypeOK
  <2>2. QED
    BY <2>1 DEF NextEntry, Entries, TypeOK
<1>3. e.body = b /\ entries' = Append(entries, e)
  BY DEF NextEntry, AppendEntry
<1> HIDE DEF e
<1>4. Len(entries') = n + 1 /\ entries'[n + 1] = e /\ \A i \in 1..n : entries'[i] = entries[i]
  BY <1>1, <1>2, <1>3
<1>5. ASSUME NEW i \in 1..(n + 1), IsAdmission(entries'[i].body, u)
      PROVE  Admitted(u) \/ IsAdmission(b, u)
  <2>1. CASE i = n + 1
    BY <1>3, <1>4, <1>5, <2>1
  <2>2. CASE i \in 1..n
    BY <1>4, <1>5, <2>2 DEF Admitted, Positions, Body
  <2>3. QED
    BY <1>1, <2>1, <2>2
<1>6. QED
  BY <1>4, <1>5 DEF Admitted, Positions, Body

-----------------------------------------------------------------------------
(* One goroutine moves. *)

(* A step of one goroutine that leaves the ledger and the store alone      *)
(* keeps the invariant if it keeps that goroutine guarded and does not     *)
(* take back a goroutine already admitted.                                 *)
LEMMA QuietStep ==
  ASSUME TypeInv, PrecedenceInv, NEW t \in Threads,
         UNCHANGED <<ledgerVars, interruptVars>>,
         NEW p, NEW a, NEW r, NEW b, NEW f,
         pc' = [pc EXCEPT ![t] = p], out' = [out EXCEPT ![t] = a],
         req' = [req EXCEPT ![t] = r],
         barred' = [barred EXCEPT ![t] = b], inflight' = [inflight EXCEPT ![t] = f],
         Guarded(p, a.result, b, f, Overrides(r.intent)),
         Admitted(t) => /\ p \in {"write", "done"} \cup Execution
                        /\ b = barred[t] /\ f = inflight[t]
  PROVE  PrecedenceInv'
<1>1. \A i : Overrides(i)' = Overrides(i)
  BY DEF Overrides, interruptVars
<1>2. ThreadsGuarded'
  <2> SUFFICES ASSUME NEW u \in Threads
               PROVE  Guarded(pc'[u], out'[u].result, barred'[u], inflight'[u],
                              Overrides(req'[u].intent))
    BY <1>1 DEF ThreadsGuarded, Intent
  <2>1. CASE u = t
    BY <2>1 DEF TypeInv, TypeOK
  <2>2. CASE u # t
    BY <2>2 DEF TypeInv, TypeOK, PrecedenceInv, ThreadsGuarded, Intent
  <2>3. QED
    BY <2>1, <2>2
<1>3. AdmittedUnbarred'
  <2> SUFFICES ASSUME NEW u \in Threads, Admitted(u)'
               PROVE  /\ pc'[u] \in {"write", "done"} \cup Execution
                      /\ barred'[u] = {}
                      /\ inflight'[u] \cap {"terminate", "interrupt"} = {}
    BY DEF AdmittedUnbarred
  <2>1. Admitted(u)
    BY SameLedgerSameAdmissions
  <2>2. /\ pc[u] \in {"write", "done"} \cup Execution
        /\ barred[u] = {}
        /\ inflight[u] \cap {"terminate", "interrupt"} = {}
    BY <2>1 DEF PrecedenceInv, AdmittedUnbarred
  <2>3. CASE u = t
    BY <2>1, <2>2, <2>3 DEF TypeInv, TypeOK
  <2>4. CASE u # t
    BY <2>2, <2>4 DEF TypeInv, TypeOK
  <2>5. QED
    BY <2>3, <2>4
<1>4. QED
  BY <1>2, <1>3 DEF PrecedenceInv

(* The same, for a step that keeps the request and its history. *)
LEMMA MoveStep ==
  ASSUME TypeInv, PrecedenceInv, NEW t \in Threads,
         UNCHANGED <<ledgerVars, interruptVars, req, historyVars>>,
         NEW p, NEW a, pc' = [pc EXCEPT ![t] = p], out' = [out EXCEPT ![t] = a],
         Guarded(p, a.result, barred[t], inflight[t], Overrides(Intent(t))),
         Admitted(t) => p \in {"write", "done"} \cup Execution
  PROVE  PrecedenceInv'
<1>1. /\ req' = [req EXCEPT ![t] = req[t]]
      /\ barred' = [barred EXCEPT ![t] = barred[t]]
      /\ inflight' = [inflight EXCEPT ![t] = inflight[t]]
  BY DEF historyVars, TypeInv, TypeOK
<1>2. QED
  BY <1>1, QuietStep DEF Intent

LEMMA GatePrecedence ==
  ASSUME TypeInv, PrecedenceInv, NEW t \in Threads, NEW at, NEW refused, NEW answer,
         NEW refusedTo, NEW passedTo,
         Gate(t, at, refused, answer, refusedTo, passedTo),
         refused => /\ Guarded(refusedTo, answer.result, barred[t], inflight[t], Overrides(Intent(t)))
                    /\ Admitted(t) => refusedTo \in {"write", "done"} \cup Execution,
         ~refused => /\ Guarded(passedTo, out[t].result, barred[t], inflight[t], Overrides(Intent(t)))
                     /\ Admitted(t) => passedTo \in {"write", "done"} \cup Execution
  PROVE  PrecedenceInv'
<1>1. CASE refused
  BY <1>1, MoveStep DEF Gate, Goto
<1>2. CASE ~refused
  <2>1. out' = [out EXCEPT ![t] = out[t]]
    BY <1>2 DEF Gate, TypeInv, TypeOK
  <2>2. QED
    BY <1>2, <2>1, MoveStep DEF Gate, Goto
<1>3. QED
  BY <1>1, <1>2

(* What the invariant says of one goroutine. *)
LEMMA ThreadFacts ==
  ASSUME PrecedenceInv, NEW t \in Threads
  PROVE  /\ Guarded(pc[t], out[t].result, barred[t], inflight[t], Overrides(Intent(t)))
         /\ Admitted(t) => pc[t] \in {"write", "done"} \cup Execution
BY DEF PrecedenceInv, ThreadsGuarded, AdmittedUnbarred

(* A refusal guards against whatever stands against the request. *)
LEMMA RefusalGuards ==
  ASSUME NEW p, NEW result, NEW b, NEW f, NEW now, Guarded(p, result, b, f, now),
         NEW q \in {"force", "write", "done"}, NEW verdict, verdict # "ADMIT"
  PROVE  Guarded(q, verdict, b, f, now)
BY DEF Guarded, Refused, BeforeRecheck, BeforeCorrection, BeforeInterrupted, BeforeTerminated

LEMMA OverriddenRefuses ==
  ASSUME NEW err
  PROVE  Overridden(err).result # "ADMIT"
BY DEF Overridden, Answer

(* A gate of Admit refuses whoever it finds overridden, and lets the       *)
(* others pass on to the next one.                                         *)
NextGate(at, passedTo, refused, now) ==
    \/ at = "verify"          /\ passedTo = "terminated"
    \/ at = "terminated"      /\ passedTo = "interrupted" /\ ("terminate" \in now => refused)
    \/ at = "interrupted"     /\ passedTo = "gre"         /\ ("interrupt" \in now => refused)
    \/ at = "gre"             /\ passedTo = "gre.terminated"
    \/ at = "gre.terminated"  /\ passedTo = "gre.interrupted"
    \/ at = "gre.interrupted" /\ passedTo = "gre.correction"
    \/ at = "gre.correction"  /\ passedTo = "provider"    /\ ("correct" \in now => refused)
    \/ at = "provider"        /\ passedTo = "reterminated"

LEMMA AdmitGatePrecedence ==
  ASSUME TypeInv, PrecedenceInv, NEW t \in Threads, NEW at, NEW refused, NEW answer,
         NEW refusedTo \in {"force", "write"}, NEW passedTo,
         Gate(t, at, refused, answer, refusedTo, passedTo),
         refused => answer.result # "ADMIT",
         NextGate(at, passedTo, refused, Overrides(Intent(t)))
  PROVE  PrecedenceInv'
<1> DEFINE now == Overrides(Intent(t))
<1>1. pc[t] = at /\ ~Admitted(t)
  BY ThreadFacts DEF Gate, Execution, NextGate
<1>2. Guarded(at, out[t].result, barred[t], inflight[t], now)
  BY <1>1, ThreadFacts
<1>3. refused => Guarded(refusedTo, answer.result, barred[t], inflight[t], now)
  BY <1>2, RefusalGuards
<1>4. ~refused => Guarded(passedTo, out[t].result, barred[t], inflight[t], now)
  BY <1>2 DEF NextGate, Guarded, Refused, BeforeRecheck, BeforeCorrection, BeforeInterrupted,
     BeforeTerminated
<1>5. QED
  BY <1>1, <1>3, <1>4, GatePrecedence

LEMMA AdmitGatesPrecedence ==
  ASSUME TypeInv, PrecedenceInv, NEW t \in Threads,
         \/ CheckLedger(t)   \/ CheckTerminated(t) \/ CheckInterrupted(t)
         \/ GREGates(t)      \/ GRETerminated(t)   \/ GREInterrupted(t)
         \/ GRECorrection(t) \/ ProviderGates(t)
  PROVE  PrecedenceInv'
<1>1. CASE CheckLedger(t)
  <2>1. Answer(1, "DENY", "ledger.integrity", "ErrLedgerBreak").result # "ADMIT"
    BY DEF Answer
  <2>2. QED
    BY <1>1, <2>1, AdmitGatePrecedence DEF CheckLedger, NextGate
<1>2. CASE CheckTerminated(t)
  BY <1>2, OverriddenRefuses, OverridesByKind, AdmitGatePrecedence DEF CheckTerminated, NextGate
<1>3. CASE CheckInterrupted(t)
  BY <1>3, OverriddenRefuses, OverridesByKind, AdmitGatePrecedence DEF CheckInterrupted, NextGate
<1>4. CASE GREGates(t)
  <2>1. Answer(1, "DENY", StagesToDrift(req[t], drift), "").result # "ADMIT"
    BY DEF Answer
  <2>2. QED
    BY <1>4, <2>1, AdmitGatePrecedence DEF GREGates, NextGate
<1>5. CASE GRETerminated(t)
  BY <1>5, OverriddenRefuses, AdmitGatePrecedence DEF GRETerminated, NextGate
<1>6. CASE GREInterrupted(t)
  BY <1>6, OverriddenRefuses, AdmitGatePrecedence DEF GREInterrupted, NextGate
<1>7. CASE GRECorrection(t)
  BY <1>7, OverriddenRefuses, OverridesByKind, AdmitGatePrecedence DEF GRECorrection, NextGate
<1>8. CASE ProviderGates(t)
  BY <1>8, AdmitGatePrecedence DEF ProviderGates, NextGate
<1>9. QED
  BY <1>1, <1>2, <1>3, <1>4, <1>5, <1>6, <1>7, <1>8

LEMMA RecheckPrecedence ==
  ASSUME TypeInv, PrecedenceInv, NEW t \in Threads,
         RecheckTerminated(t) \/ RecheckInterrupted(t)
  PROVE  PrecedenceInv'
<1> DEFINE now == Overrides(Intent(t))
<1>1. Guarded(pc[t], out[t].result, barred[t], inflight[t], now) /\ ~Admitted(t)
  BY ThreadFacts DEF RecheckTerminated, RecheckInterrupted, Execution
<1>2. CASE RecheckTerminated(t)
  <2>1. PICK p, a :
          /\ pc' = [pc EXCEPT ![t] = p] /\ out' = [out EXCEPT ![t] = a]
          /\ \/ p = "force" /\ a.result # "ADMIT"
             \/ p = "reinterrupted" /\ "terminate" \notin now
    <3>1. CASE IsTerminated(Intent(t))
      BY <1>2, <3>1, OverriddenRefuses DEF RecheckTerminated, Goto
    <3>2. CASE ~IsTerminated(Intent(t))
      <4>1. out' = [out EXCEPT ![t] = out[t]]
        BY <1>2, <3>2 DEF RecheckTerminated, TypeInv, TypeOK
      <4>2. QED
        BY <1>2, <3>2, <4>1, OverridesByKind DEF RecheckTerminated, Goto
    <3>3. QED
      BY <3>1, <3>2
  <2>2. /\ UNCHANGED <<ledgerVars, interruptVars>>
        /\ req' = [req EXCEPT ![t] = req[t]]
        /\ barred' = [barred EXCEPT ![t] = barred[t]]
        /\ inflight' = [inflight EXCEPT ![t] = now]
    BY <1>2 DEF RecheckTerminated, TypeInv, TypeOK
  <2>3. Guarded(p, a.result, barred[t], now, now)
    BY <1>1, <1>2, <2>1 DEF RecheckTerminated, Guarded, Refused, BeforeRecheck, BeforeCorrection,
       BeforeInterrupted, BeforeTerminated
  <2>4. QED
    BY <1>1, <2>1, <2>2, <2>3, QuietStep DEF Intent
<1>3. CASE RecheckInterrupted(t)
  <2>1. PICK p, a :
          /\ pc' = [pc EXCEPT ![t] = p] /\ out' = [out EXCEPT ![t] = a]
          /\ \/ p = "force" /\ a.result # "ADMIT"
             \/ p = "write" /\ "interrupt" \notin now
    BY <1>3, OverriddenRefuses, OverridesByKind DEF RecheckInterrupted, Goto
  <2>2. Guarded(p, a.result, barred[t], inflight[t], now)
    BY <1>1, <1>3, <2>1 DEF RecheckInterrupted, Guarded, Refused, BeforeRecheck, BeforeCorrection,
       BeforeInterrupted, BeforeTerminated
  <2>3. QED
    BY <1>1, <1>3, <2>1, <2>2, MoveStep DEF RecheckInterrupted
<1>4. QED
  BY <1>2, <1>3

LEMMA ForcePrecedence ==
  ASSUME TypeInv, PrecedenceInv, NEW t \in Threads, ForceState(t) \/ FinalForce(t)
  PROVE  PrecedenceInv'
<1>1. PICK p \in {"write", "done"} :
        /\ pc' = [pc EXCEPT ![t] = p]
        /\ pc[t] \in {"force", "final.force"}
  BY DEF ForceState, FinalForce, Goto
<1>2. /\ UNCHANGED <<ledgerVars, interruptVars, req, historyVars>>
      /\ out' = [out EXCEPT ![t] = out[t]]
  BY DEF ForceState, FinalForce, TypeInv, TypeOK
<1>3. Guarded(p, out[t].result, barred[t], inflight[t], Overrides(Intent(t)))
  BY <1>1, ThreadFacts DEF Guarded, Refused, BeforeRecheck, BeforeCorrection, BeforeInterrupted,
     BeforeTerminated
<1>4. QED
  BY <1>1, <1>2, <1>3, MoveStep

(* Past its admission nothing bars a goroutine, so any move between the    *)
(* labels of an execution, or to its end, will do.                         *)
LEMMA ExecutionGuards ==
  ASSUME NEW p \in Execution, NEW result, NEW b, NEW f, NEW now, Guarded(p, result, b, f, now),
         NEW q \in Execution \cup {"write", "done"}, NEW verdict
  PROVE  Guarded(q, verdict, b, f, now)
BY DEF Guarded, Refused, Execution, BeforeRecheck, BeforeCorrection, BeforeInterrupted,
   BeforeTerminated

LEMMA ExecutionPrecedence ==
  ASSUME TypeInv, PrecedenceInv, NEW t \in Threads,
         \/ FinalTerminated(t) \/ FinalCorrection(t) \/ FinalInterrupted(t)
         \/ ReadCurrent(t) \/ TransitionToRunning(t) \/ StartGenerate(t)
         \/ Receive(t) \/ TimeOut(t)
  PROVE  PrecedenceInv'
<1> DEFINE now == Overrides(Intent(t))
<1>1. ASSUME NEW at \in Execution, NEW refused, NEW answer,
             NEW refusedTo \in Execution \cup {"write"}, NEW passedTo \in Execution,
             Gate(t, at, refused, answer, refusedTo, passedTo)
      PROVE  PrecedenceInv'
  <2>1. pc[t] = at
    BY <1>1 DEF Gate
  <2>2. /\ Guarded(refusedTo, answer.result, barred[t], inflight[t], now)
        /\ Guarded(passedTo, out[t].result, barred[t], inflight[t], now)
    BY <2>1, ThreadFacts, ExecutionGuards
  <2>3. QED
    BY <1>1, <2>2, GatePrecedence
<1>2. CASE FinalTerminated(t) \/ FinalCorrection(t) \/ FinalInterrupted(t)
  BY <1>1, <1>2 DEF FinalTerminated, FinalCorrection, FinalInterrupted, Execution
<1>3. CASE Receive(t) \/ TimeOut(t)
  BY <1>1, <1>3 DEF Receive, TimeOut, Execution
<1>4. CASE ReadCurrent(t) \/ TransitionToRunning(t) \/ StartGenerate(t)
  <2>1. PICK p \in Execution : pc' = [pc EXCEPT ![t] = p]
    BY <1>4 DEF ReadCurrent, TransitionToRunning, StartGenerate, Goto, Execution
  <2>2. /\ UNCHANGED <<ledgerVars, interruptVars, req, historyVars>>
        /\ out' = [out EXCEPT ![t] = out[t]]
    BY <1>4 DEF ReadCurrent, TransitionToRunning, StartGenerate, TypeInv, TypeOK
  <2>3. pc[t] \in Execution
    BY <1>4 DEF ReadCurrent, TransitionToRunning, StartGenerate, Execution
  <2>4. Guarded(p, out[t].result, barred[t], inflight[t], now)
    BY <2>3, ThreadFacts, ExecutionGuards
  <2>5. QED
    BY <2>1, <2>2, <2>4, MoveStep
<1>5. QED
  BY <1>2, <1>3, <1>4

(* Writing a decision admits its own goroutine at most, and that one only  *)
(* if nothing stands against it.                                           *)
LEMMA WriteDecisionPrecedence ==
  ASSUME TypeInv, PrecedenceInv, NEW t \in Threads, WriteDecision(t)
  PROVE  PrecedenceInv'
<1> DEFINE Clear(u) == /\ barred[u] = {}
                       /\ inflight[u] \cap {"terminate", "interrupt"} = {}
<1>1. Guarded("write", out[t].result, barred[t], inflight[t], Overrides(Intent(t)))
  BY ThreadFacts DEF WriteDecision
<1>2. out[t].result = "ADMIT" => Clear(t)
  <2>1. barred[t] \subseteq OverrideKinds
    BY <1>1, OverridesType DEF Guarded
  <2>2. QED
    BY <1>1, <2>1 DEF Guarded, Refused, OverrideKinds, BeforeCorrection, BeforeInterrupted,
       BeforeTerminated
<1>3. PICK p \in {"final.terminated", "done"} :
        /\ pc' = [pc EXCEPT ![t] = p]
        /\ p = "final.terminated" => out[t].result = "ADMIT"
  BY DEF WriteDecision, Goto
<1>4. UNCHANGED <<interruptVars, req, out, barred, inflight>>
  BY DEF WriteDecision, historyVars
<1>5. ThreadsGuarded'
  <2>1. \A i : Overrides(i)' = Overrides(i)
    BY <1>4 DEF Overrides, interruptVars
  <2>2. Guarded(p, out[t].result, barred[t], inflight[t], Overrides(Intent(t)))
    BY <1>1, <1>2, <1>3 DEF Guarded, Refused, BeforeRecheck, BeforeCorrection, BeforeInterrupted,
       BeforeTerminated
  <2>3. QED
    BY <1>3, <1>4, <2>1, <2>2 DEF TypeInv, TypeOK, PrecedenceInv, ThreadsGuarded, Intent
<1>6. AdmittedUnbarred'
  <2> SUFFICES ASSUME NEW u \in Threads, Admitted(u)'
               PROVE  pc'[u] \in {"write", "done"} \cup Execution /\ Clear(u)
    BY <1>4 DEF AdmittedUnbarred
  <2>1. DecisionBody(t) \in Bodies
    BY DecisionBodyType DEF WriteDecision, TypeInv, DecidedAnswers, Decided
  <2>2. Admitted(u) \/ IsAdmission(DecisionBody(t), u)
    BY <2>1, AppendedAdmission DEF WriteDecision, TypeInv
  <2>3. IsAdmission(DecisionBody(t), u) => u = t /\ out[t].result = "ADMIT"
    BY DEF IsAdmission, DecisionBody
  <2>4. Admitted(u) => pc[u] \in {"write", "done"} \cup Execution /\ Clear(u)
    BY DEF PrecedenceInv, AdmittedUnbarred
  <2>5. pc'[t] \in {"write", "done"} \cup Execution
    BY <1>3 DEF TypeInv, TypeOK, Execution
  <2>6. u # t => pc'[u] = pc[u]
    BY <1>3 DEF TypeInv, TypeOK
  <2> HIDE DEF Clear
  <2>7. QED
    BY <1>2, <2>2, <2>3, <2>4, <2>5, <2>6
<1>7. QED
  BY <1>5, <1>6 DEF PrecedenceInv

LEMMA WriteExecutionPrecedence ==
  ASSUME TypeInv, PrecedenceInv, NEW t \in Threads, WriteExecution(t)
  PROVE  PrecedenceInv'
<1>1. UNCHANGED <<interruptVars, req, out, barred, inflight>>
  BY DEF WriteExecution, historyVars
<1>2. pc[t] = "execution" /\ pc' = [pc EXCEPT ![t] = "done"]
  BY DEF WriteExecution, Goto
<1>3. ThreadsGuarded'
  <2>1. \A i : Overrides(i)' = Overrides(i)
    BY <1>1 DEF Overrides, interruptVars
  <2>2. Guarded("done", out[t].result, barred[t], inflight[t], Overrides(Intent(t)))
    BY <1>2, ThreadFacts, ExecutionGuards DEF Execution
  <2>3. QED
    BY <1>1, <1>2, <2>1, <2>2 DEF TypeInv, TypeOK, PrecedenceInv, ThreadsGuarded, Intent
<1>4. AdmittedUnbarred'
  <2>1. ExecutionBody(t) \in Bodies
    BY <1>2, ExecutionBodyType DEF TypeInv, DecidedAnswers, Decided, Execution
  <2>2. ASSUME NEW u \in Threads, Admitted(u)' PROVE Admitted(u)
    <3>1. ~IsAdmission(ExecutionBody(t), u)
      BY DEF IsAdmission, ExecutionBody
    <3>2. QED
      BY <2>1, <2>2, <3>1, AppendedAdmission DEF WriteExecution, TypeInv
  <2>3. QED
    BY <1>1, <1>2, <2>2 DEF PrecedenceInv, AdmittedUnbarred, TypeInv, TypeOK
<1>5. QED
  BY <1>3, <1>4 DEF PrecedenceInv

LEMMA ThreadStepPrecedence ==
  ASSUME TypeInv, PrecedenceInv, NEW t \in Threads, ThreadStep(t)
  PROVE  PrecedenceInv'
BY AdmitGatesPrecedence, RecheckPrecedence, ForcePrecedence, ExecutionPrecedence,
   WriteDecisionPrecedence, WriteExecutionPrecedence DEF ThreadStep

-----------------------------------------------------------------------------
(* Calls arrive and operators act. *)

LEMMA CallPrecedence ==
  ASSUME TypeInv, ChainInv, PrecedenceInv, NEW t \in Threads, NEW endpoint, NEW r,
         Call(t, endpoint, r)
  PROVE  PrecedenceInv'
<1>1. barred' = [barred EXCEPT ![t] = Overrides(r.intent)]
  <2>1. Verify
    BY DEF ChainInv, ChainIntact
  <2>2. Overrides(r.intent) \cup (IF Verify THEN {} ELSE {"broken"}) = Overrides(r.intent)
    BY <2>1
  <2>3. QED
    BY <2>2 DEF Call
<1>2. /\ pc' = [pc EXCEPT ![t] = "verify"]
      /\ out' = [out EXCEPT ![t] = out[t]]
      /\ req' = [req EXCEPT ![t] = r]
      /\ inflight' = [inflight EXCEPT ![t] = inflight[t]]
      /\ UNCHANGED <<ledgerVars, interruptVars>>
  BY DEF Call, Goto, TypeInv, TypeOK
<1>3. inflight[t] = {} /\ ~Admitted(t)
  BY ThreadFacts DEF Call, Guarded, BeforeRecheck, Execution
<1>4. Guarded("verify", out[t].result, Overrides(r.intent), inflight[t], Overrides(r.intent))
  BY <1>3 DEF Guarded, Refused, BeforeRecheck, BeforeCorrection, BeforeInterrupted, BeforeTerminated
<1>5. QED
  BY <1>1, <1>2, <1>3, <1>4, QuietStep

LEMMA TurnedPrecedence ==
  ASSUME TypeInv, PrecedenceInv, NEW t \in Threads, NEW endpoint, NEW err,
         Turned(t, endpoint, err)
  PROVE  PrecedenceInv'
<1>1. Answer(0, "", "", err).result # "ADMIT"
  BY DEF Answer
<1>2. Guarded("done", Answer(0, "", "", err).result, barred[t], inflight[t], Overrides(Intent(t)))
  BY <1>1, ThreadFacts, RefusalGuards
<1>3. QED
  BY <1>2, MoveStep DEF Turned, Goto

(* Steps that leave every goroutine where it is, admit no one and withdraw *)
(* no override.                                                            *)
LEMMA BystanderStep ==
  ASSUME PrecedenceInv, UNCHANGED <<pc, req, out, barred, inflight>>,
         interrupt \subseteq interrupt', corrected \subseteq corrected',
         terminate \subseteq terminate',
         \A u \in Threads : Admitted(u)' => Admitted(u)
  PROVE  PrecedenceInv'
<1>1. ThreadsGuarded'
  <2> SUFFICES ASSUME NEW u \in Threads
               PROVE  Guarded(pc[u], out[u].result, barred[u], inflight[u], Overrides(Intent(u))')
    BY DEF ThreadsGuarded
  <2>1. Overrides(Intent(u)) \subseteq Overrides(Intent(u))'
    BY DEF Overrides, Intent
  <2>2. QED
    BY <2>1, ThreadFacts, GuardedGrows
<1>2. AdmittedUnbarred'
  BY DEF PrecedenceInv, AdmittedUnbarred
<1>3. QED
  BY <1>1, <1>2 DEF PrecedenceInv

LEMMA OperatorPrecedence ==
  ASSUME TypeInv, PrecedenceInv, NEW o \in Operators, OperatorHandler(o) \/ OperatorStep(o)
  PROVE  PrecedenceInv'
<1>1. UNCHANGED <<pc, req, out, barred, inflight>>
  BY DEF OperatorHandler, OperatorStep, StoreOverride, ForceOverride, operatorLedger, routerVars,
     threadVars, historyVars
<1>2. interrupt \subseteq interrupt' /\ corrected \subseteq corrected' /\ terminate \subseteq terminate'
  BY DEF OperatorHandler, OperatorStep, StoreOverride, ForceOverride, operatorLedger, routerVars,
     interruptVars, Interrupt, Correct, Terminate
<1>3. ASSUME NEW u \in Threads, Admitted(u)' PROVE Admitted(u)
  <2>1. CASE operatorLedger(o)
    <3>1. OverrideBody(o) \in Bodies /\ OverrideBody(o).kind \in OverrideKinds
      <4>1. oreq[o] \in OperatorRequests
        BY <2>1 DEF operatorLedger, TypeInv, AcceptedNamesIntent
      <4>2. QED
        BY <2>1, <4>1, OverrideBodyType, RequestsAssumption
           DEF operatorLedger, OverrideBody, OverrideKinds
    <3>2. ~IsAdmission(OverrideBody(o), u)
      BY <3>1 DEF IsAdmission, OverrideKinds
    <3>3. QED
      BY <1>3, <2>1, <3>1, <3>2, AppendedAdmission DEF operatorLedger, TypeInv
  <2>2. CASE OperatorHandler(o) \/ StoreOverride(o) \/ ForceOverride(o)
    BY <1>3, <2>2, SameLedgerSameAdmissions DEF OperatorHandler, StoreOverride, ForceOverride, routerVars
  <2>3. QED
    BY <2>1, <2>2 DEF OperatorStep
<1>4. QED
  BY <1>1, <1>2, <1>3, BystanderStep

LEMMA NextPrecedence ==
  ASSUME TypeInv, ChainInv, PrecedenceInv, [Next]_vars
  PROVE  PrecedenceInv'
<1>1. ASSUME NEW t \in Threads, RejectMalformed(t) \/ RouteHandler(t) \/ RunWorkflow(t)
      PROVE  PrecedenceInv'
  BY <1>1, CallPrecedence, TurnedPrecedence DEF RejectMalformed, RouteHandler, RunWorkflow
<1>2. ASSUME NEW t \in Threads, RequestStep(t)
      PROVE  PrecedenceInv'
  BY <1>2, ThreadStepPrecedence DEF RequestStep
<1>3. CASE \/ \E t \in Threads : ProviderReturns(t)
           \/ \E v \in DriftScores : SteerDrift(v)
           \/ UNCHANGED vars
  <2>1. UNCHANGED <<ledgerVars, interruptVars, pc, req, out, barred, inflight>>
    BY <1>3 DEF ProviderReturns, SteerDrift, vars, routerVars, threadVars, historyVars
  <2>2. QED
    BY <2>1, SameLedgerSameAdmissions, BystanderStep DEF interruptVars
<1>4. QED
  BY <1>1, <1>2, <1>3, OperatorPrecedence DEF Next, Quiescent

LEMMA InitPrecedence == Init => PrecedenceInv
<1> SUFFICES ASSUME Init PROVE PrecedenceInv
  OBVIOUS
<1>1. ThreadsGuarded
  BY DEF Init, RouterInit, ThreadsGuarded, Guarded
<1>2. AdmittedUnbarred
  <2>1. Len(entries) = 0
    BY DEF Init, LedgerInit
  <2>2. \A t \in Threads : ~Admitted(t)
    BY <2>1 DEF Admitted, Positions
  <2>3. QED
    BY <2>2 DEF AdmittedUnbarred
<1>3. QED
  BY <1>1, <1>2 DEF PrecedenceInv

-----------------------------------------------------------------------------

(* Every goroutine has the gates for the overrides it is up against still  *)
(* ahead of it or has been refused, and none that was admitted was up      *)
(* against one.                                                            *)
THEOREM PrecedenceInvariant == Spec => []PrecedenceInv
<1>1. TypeInv /\ ChainInv /\ PrecedenceInv /\ [Next]_vars => PrecedenceInv'
  BY NextPrecedence
<1>2. QED
  BY <1>1, InitPrecedence, TypeInvariant, ChainInvariant, PTL DEF Spec

(* An override in force before a request arrives keeps it from ever being  *)
(* admitted, however many requests and operators there are (Router.Admit,  *)
(* GRE1001.stageOperatorCorrigibility).                                    *)
THEOREM OverriddenIsNeverAdmitted == Spec => []BarredNeverAdmitted
<1>1. PrecedenceInv => BarredNeverAdmitted
  BY DEF PrecedenceInv, AdmittedUnbarred, BarredNeverAdmitted
<1>2. QED
  BY <1>1, PrecedenceInvariant, PTL

(* An interrupt or a termination stored while the request was passing the  *)
(* gates wins over its admission (the re-check in Router.Admit).           *)
THEOREM InFlightOverrideIsHonoured == Spec => []InFlightOverrideWins
<1>1. PrecedenceInv => InFlightOverrideWins
  BY DEF PrecedenceInv, AdmittedUnbarred, InFlightOverrideWins
<1>2. QED
  BY <1>1, PrecedenceInvariant, PTL
=============================================================================
