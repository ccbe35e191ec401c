-------------------------- MODULE ServerProperties --------------------------
(***************************************************************************)
(* What the router service promises.  Sources of the promises: the         *)
(* repository's README and docs/, and the comments of the code itself.     *)
(***************************************************************************)
EXTENDS Server

Positions == 1..Len(entries)
Body(i) == entries[i].body

IsAdmission(b, t) == b.kind = "decision" /\ b.id = <<t, 1>> /\ b.result = "ADMIT"
IsExecution(b, t) == b.kind = "execution" /\ b.id[1] = t
IsOverride(b, intent) == b.kind \in OverrideKinds /\ b.intent = intent

Admitted(t) == \E i \in Positions : IsAdmission(Body(i), t)
Executed(t) == \E i \in Positions : IsExecution(Body(i), t)

(* A request that reached the router, as opposed to one turned away. *)
Governed(t) == pc[t] # "idle" /\ ~(pc[t] = "done" /\ out[t].attempt = 0)

-----------------------------------------------------------------------------
(* Types. *)

(* A request as it arrived, or with the capability a workflow binds. *)
BoundCalls == UNION {{BindWorkflow(w, r) : r \in Requests} : w \in WorkflowIDs}
Calls == Requests \cup BoundCalls \cup {NoRequest}

Ids == (Threads \X {1, 2}) \cup (Operators \X {0})

Bodies == [id : Ids, kind : {"decision", "execution"} \cup OverrideKinds,
           intent : Intents \cup {""}, result : AdmitResults, rule : Rules]

Hashes == {Genesis} \cup (Nat \X Bodies)

Entries == [index : Nat, body : Bodies, prevHash : Hashes, hash : Hashes]

Errors == {"", "ErrLedgerBreak", "ErrTerminated", "ErrInterrupted", "ErrWorkflow", "malformed",
           "method"}

Answers == [attempt : {0, 1, 2}, result : AdmitResults \cup {""}, rule : Rules \cup {""},
            err : Errors]

(* An answer that carries a decision. *)
Decisions == [attempt : {1, 2}, result : AdmitResults, rule : Rules, err : Errors]

(* Every variable of the router, the ledger, the override store, the       *)
(* execution state machine and the handlers stays within its type.         *)
TypeOK ==
    /\ entries \in Seq(Entries) /\ lastHash \in Hashes /\ nextIdx \in Nat
    /\ states \in [Intents -> ExecStates]
    /\ interrupt \subseteq Intents
    /\ corrected \subseteq Intents
    /\ terminate \subseteq Intents
    /\ pc \in [Threads -> PCs]
    /\ via \in [Threads -> {"route", "workflow"}]
    /\ req \in [Threads -> Calls]
    /\ out \in [Threads -> Answers]
    /\ gen \in [Threads -> {"none", "running", "returned"}]
    /\ expect \in [Threads -> ExecStates]
    /\ drift \in Nat
    /\ barred \in [Threads -> SUBSET (OverrideKinds \cup {"broken"})]
    /\ inflight \in [Threads -> SUBSET OverrideKinds]
    /\ opc \in [Operators -> OperatorPCs]
    /\ oreq \in [Operators -> OperatorRequests \cup {NoOverride}]

-----------------------------------------------------------------------------
(* The ledger. *)

(* Whatever requests and operator calls interleave, every entry links to   *)
(* the hash of the one before it, carries the hash of its own content, and *)
(* indices have neither gaps nor repeats (Ledger.Append; GET /verify).     *)
ChainIntact ==
    /\ Verify
    /\ \A i \in Positions :
          /\ entries[i].index = i - 1
          /\ entries[i].hash = hashEntry(entries[i].index, Body(i))

(* No step of any handler removes, reorders or rewrites a ledger entry, so *)
(* every export of GET /ledger is a prefix of every later one.             *)
AppendOnly ==
    [][/\ Len(entries) <= Len(entries')
       /\ \A i \in Positions : entries'[i] = entries[i]]_vars

(* Every execution result certified by GenerateCER leads to the admission  *)
(* it was made under: the first entry with its decision id is an earlier   *)
(* ADMIT decision for the same intent (WriteExecution: "bound to the       *)
(* admission decision that preceded it").                                  *)
ExecutionBoundToDecision ==
    \A i \in Positions : Body(i).kind = "execution" =>
        LET c == GenerateCER(Body(i).id)
        IN  /\ 0 < c /\ c < i
            /\ Body(c).kind = "decision"
            /\ Body(c).result = "ADMIT"
            /\ Body(c).intent = Body(i).intent

-----------------------------------------------------------------------------
(* Governance before the provider. *)

(* The tenant's policy is the first configured for it. *)
Owns(i, r) ==
    /\ Tenants[i].tenantID = r.tenant
    /\ \A j \in 1..(i - 1) : Tenants[j].tenantID # r.tenant

(* The policy as the documents state it, in two parts.  Permitted: the     *)
(* tenant's policy is for the request's lane and permits the capability;   *)
(* the lattice grants the capability on that lane; there is a payload; and *)
(* the named provider is registered and takes the request.                 *)
Permitted(r) ==
    /\ "" \notin {r.requestID, r.tenant, r.intent, r.operator}
    /\ \E i \in DOMAIN Tenants :
          /\ Owns(i, r)
          /\ Tenants[i].lane = r.lane
          /\ r.cap.class \in Tenants[i].classes
          /\ \A dim \in {<<Tenants[i].scopes, r.cap.scope>>, <<Tenants[i].actions, r.cap.action>>,
                          <<Tenants[i].risks, r.cap.risk>>} : dim[1] = {} \/ dim[2] \in dim[1]
    /\ [grant |-> r.cap, lane |-> r.lane] \in
           UNION {{[grant |-> g.grant, lane |-> l] : l \in g.lanes} : g \in Lattice}
    /\ "" \notin {r.cap.class, r.cap.scope, r.cap.action, r.cap.risk}
    /\ r.lane \in {"SAFE", "NORMAL", "EXPRESS"}
    /\ r.payload
    /\ r.provider \in DOMAIN Providers
    /\ Providers[r.provider] # "deny"
    /\ Providers[r.provider] = "infinity" => r.keyRef # ""

(* ... and Sovereign: its operator is the tenant's sovereign operator      *)
(* (docs/runbooks/operator-sovereignty.md).                                *)
Sovereign(r) == \E i \in DOMAIN Tenants : Owns(i, r) /\ Tenants[i].sovereign = r.operator

Admissible(r) == Permitted(r) /\ Sovereign(r)

(* The tenant's policy names no sovereign operator.  What becomes of such  *)
(* a request is the subject of FaultyTenantAdmitsNothing, in module        *)
(* ServicesProperties.                                                     *)
Unbound(r) == \E i \in DOMAIN Tenants : Owns(i, r) /\ Tenants[i].sovereign = ""

(* Undisturbed by operators, drift or faults, a /route request is answered *)
(* 200 exactly when it is admitted; what the policy admits is admitted,    *)
(* and nothing else.  The exception is a tenant without a sovereign        *)
(* operator: the rest of the policy binds it too, and the lanes that a     *)
(* sovereign must approve stay closed to it.                               *)
AdmittedIffPolicy ==
    \A t \in Threads : pc[t] = "done" /\ via[t] = "route" /\ Governed(t) =>
        /\ Status(t) = 200 <=> Admitted(t)
        /\ Admissible(req[t]) => Admitted(t)
        /\ Admitted(t) => /\ Permitted(req[t])
                          /\ Sovereign(req[t]) \/ (req[t].lane = "SAFE" /\ Unbound(req[t]))

(* A provider is contacted only for a /workflow request that the policy    *)
(* permits, on behalf of the tenant's sovereign operator if it has one,    *)
(* whose ADMIT decision is already in the ledger, for a capability some    *)
(* workflow binds and a lane that workflow may use (README: "reaches a     *)
(* provider only through Router.GovernAndExecute").                        *)
ProviderContactIsGoverned ==
    \A t \in Threads : gen[t] # "none" =>
        /\ via[t] = "workflow"
        /\ Admitted(t)
        /\ Permitted(req[t])
        /\ Sovereign(req[t]) \/ Unbound(req[t])
        /\ \E w \in WorkflowIDs :
              req[t].cap = WorkflowCapability(w) /\ req[t].lane \in AllowedLanes(w)

-----------------------------------------------------------------------------
(* Operator precedence. *)

(* An override in force before a request arrives keeps it from ever being  *)
(* admitted, whichever gate meets it first, and so does a broken ledger.   *)
BarredNeverAdmitted == \A t \in Threads : barred[t] # {} => ~Admitted(t)

(* README: "Subsequent attempts for the intent conflict forever": over an  *)
(* intact ledger a request on an intent already terminated or interrupted  *)
(* is answered 409.                                                        *)
OverriddenConflicts ==
    \A t \in Threads :
        /\ pc[t] = "done"
        /\ barred[t] \cap {"terminate", "interrupt"} # {}
        /\ "broken" \notin barred[t]
        => Status(t) = 409

(* An interrupt or termination stored while the request was passing the    *)
(* gates, before Admit re-checks, still wins (router.go: "must still win").*)
InFlightOverrideWins ==
    \A t \in Threads : inflight[t] \cap {"terminate", "interrupt"} # {} => ~Admitted(t)

(* An auditor can rely on the ledger's order: if an override of an intent  *)
(* is recorded before the ADMIT of a request for it, that request never    *)
(* reached the provider (the final check of GovernAndExecute).             *)
AuditOrder ==
    \A t \in Threads : \A i, j \in Positions :
        /\ i < j
        /\ IsOverride(Body(i), Intent(t))
        /\ IsAdmission(Body(j), t)
        => gen[t] = "none"

(* Once an operator call has forced the state of its intent, the override  *)
(* stays in the store and the intent stays HALTED or TERMINATED, whatever  *)
(* requests on it are still running.                                       *)
OverrideHolds ==
    \A o \in Operators : opc[o] \in {"ledger", "done"} =>
        /\ oreq[o].kind \in Overrides(oreq[o].intent)
        /\ IsTerminal(states[oreq[o].intent])

(* Overrides reach their own intent only: a request is refused under       *)
(* Lambda.6 or answered 409, and an intent is HALTED or TERMINATED, only   *)
(* if an operator has overridden that very intent.                         *)
OverridesAreScoped ==
    /\ \A t \in Threads : pc[t] = "done" /\ (out[t].rule = "Lambda.6" \/ Status(t) = 409) =>
           Overrides(Intent(t)) # {}
    /\ \A i \in Intents : IsTerminal(states[i]) => Overrides(i) # {}

(* Operator call o has put override k of intent i in the store, and its    *)
(* caller presented the token, which is set.                               *)
Issued(o, k, i) ==
    /\ opc[o] \in {"force", "ledger", "done"}
    /\ oreq[o].kind = k /\ oreq[o].intent = i
    /\ OperatorToken # ""
    /\ oreq[o].header = [scheme |-> "Bearer", value |-> OperatorToken]

(* Whatever an override leaves behind leads back to a caller who held the  *)
(* token: every override in the store, every request answered 409 and      *)
(* every override entry of the ledger has an operator call behind it, for  *)
(* that kind and intent; and an answered call has exactly its own entry    *)
(* (operator-sovereignty.md: "the bearer token proves the operator API     *)
(* caller", "every operator event writes a DENY Lambda.6 ledger entry").   *)
OverridesAreAttributable ==
    /\ \A i \in Intents, k \in OverrideKinds :
           k \in Overrides(i) => \E o \in Operators : Issued(o, k, i)
    /\ \A t \in Threads : pc[t] = "done" /\ Status(t) = 409 =>
           \E o \in Operators, k \in OverrideKinds : Issued(o, k, Intent(t))
    /\ \A n \in Positions : Body(n).kind \in OverrideKinds =>
           \E o \in Operators : opc[o] = "done" /\ Issued(o, Body(n).kind, Body(n).intent)
    /\ \A o \in Operators : opc[o] = "done" =>
           \E n \in Positions : /\ Body(n) = OverrideBody(o)
                               /\ \A m \in Positions : Body(m).id = <<o, 0>> => m = n

-----------------------------------------------------------------------------
(* Answers. *)

(* What a governed request is told is what the ledger shows: the decision  *)
(* it returns is recorded exactly once under its id; a /workflow call is   *)
(* answered 200 just when its execution is recorded; and a plain refusal   *)
(* (403) has no execution recorded.                                        *)
AnswersMatchLedger ==
    \A t \in Threads : pc[t] = "done" /\ Governed(t) =>
        /\ \E i \in Positions :
              /\ Body(i) = DecisionBody(t)
              /\ \A j \in Positions :
                    Body(j).kind = "decision" /\ Body(j).id = Body(i).id => j = i
        /\ Executed(t) <=> via[t] = "workflow" /\ Status(t) = 200

(* Every request that reaches the router is eventually answered, even when *)
(* its provider never returns (boundedGenerate).                           *)
EveryRequestAnswered == \A t \in Threads : pc[t] = "verify" ~> pc[t] = "done"

(* Every accepted operator call is eventually recorded in the ledger.      *)
EveryOverrideLedgered ==
    \A o \in Operators :
        opc[o] = "flag" ~> \E i \in Positions : Body(i).id = <<o, 0>>

-----------------------------------------------------------------------------
(* Over a ledger that a fault may have corrupted. *)

(* No later write heals a broken chain: once /verify reports a break it    *)
(* always will (docs/runbooks/ledger-recovery.md).                         *)
BreakIsPermanent == [][~Verify => ~Verify']_vars

(* A request that arrives at a broken ledger is refused as such and never  *)
(* reaches a provider.                                                     *)
BrokenFailsClosed ==
    \A t \in Threads : "broken" \in barred[t] =>
        /\ gen[t] = "none"
        /\ pc[t] = "done" => out[t].rule = "ledger.integrity" /\ Status(t) = 403

-----------------------------------------------------------------------------
(* Claims of the repository that the code does not meet; each is refuted   *)
(* by a run of its own.                                                    *)

(* router.go: "an interrupt or correction issued while this request was    *)
(* passing gates (pre-admit race) must still win."                         *)
InFlightCorrectionWins ==
    \A t \in Threads : "correct" \in inflight[t] => ~Admitted(t)

(* execution.go: "HALTED and TERMINATED are terminal: no outgoing          *)
(* transitions permitted."                                                 *)
TerminatedIsTerminal ==
    [][\A i \in Intents : states[i] = "TERMINATED" => states'[i] = "TERMINATED"]_vars

(* docs/runbooks/fail-closed.md: an operator interrupt or terminate is a   *)
(* DENY under Lambda.6 with HTTP 409, and every refusal "surfaces as       *)
(* DENY/QUARANTINE with a named rule_ref and a ledger entry".              *)
ConflictIsDenied ==
    \A t \in Threads : pc[t] = "done" /\ Status(t) = 409 =>
        \E i \in Positions :
            Body(i).id[1] = t /\ Body(i).result = "DENY" /\ Body(i).rule = "Lambda.6"
=============================================================================
