----------------------------- MODULE Governance -----------------------------
(***************************************************************************)
(* The admission gates of the router that are functions of the request and *)
(* of the start-up configuration alone: the USL gate (usl.go), the Lambda  *)
(* checks (lambda.go), the GRE-1001 stages that read no shared state       *)
(* (gre.go), the Immune Protocol (immune.go), the provider adapters        *)
(* (adapters.go) and the table of governed workflows (workflows.go).       *)
(*                                                                         *)
(* A gate answers Passed or the rule reference of its refusal; reasons,    *)
(* decision ids and timestamps are wording.  The empty string is the       *)
(* missing value of a field, as in the decoded JSON.                       *)
(***************************************************************************)
EXTENDS Naturals, Sequences

CONSTANTS
    Tenants,    \* sequence of TenantPolicy records, in configuration order
    Lattice,    \* set of CapabilityLattice records [grant, lanes]
    Providers   \* registered adapters: [provider id -> kind of adapter]

(* An adapter is of one of the kinds below. *)
AdapterKinds == {"infinity", "fake", "deny", "fails"}

ASSUME ConfigurationAssumption ==
    /\ DOMAIN Tenants = 1..Len(Tenants) /\ Len(Tenants) \in Nat
    /\ \A p \in DOMAIN Providers : Providers[p] \in AdapterKinds

Passed == "passed"

AdmitResults == {"ADMIT", "DENY", "QUARANTINE"}

Rules == {"Lambda.1", "Lambda.2", "Lambda.4", "Lambda.5", "Lambda.6", "Lambda.7",
          "capability.lattice", "tenant.capability_policy", "immune.protocol",
          "provider.registry", "provider.adapter", "provider.execution",
          "ledger.integrity", "usl.gate"}

(* GRE1001.Run stops at the first stage that does not pass. *)
Then(verdict, rest) == IF verdict # Passed THEN verdict ELSE rest

-----------------------------------------------------------------------------
(* USL gate. *)

(* The configuration order decides: the first policy that matches, or 0. *)
FirstPolicy(Matches(_)) ==
    LET At == {i \in DOMAIN Tenants : Matches(Tenants[i])}
    IN  IF At = {} THEN 0 ELSE CHOOSE i \in At : \A j \in At : i <= j

findTenant(id) == FirstPolicy(LAMBDA t : t.tenantID = id)

capabilityGranted(cap, lane) ==
    \E g \in Lattice : g.grant = cap /\ lane \in g.lanes

Allows(tenant, cap) ==
    /\ cap.class \in tenant.classes
    /\ tenant.scopes = {}  \/ cap.scope \in tenant.scopes
    /\ tenant.actions = {} \/ cap.action \in tenant.actions
    /\ tenant.risks = {}   \/ cap.risk \in tenant.risks

USLCheck(enforced, r) ==
    LET i == findTenant(r.tenant) IN
    IF ~enforced                              THEN "Lambda.7"
    ELSE IF i = 0                             THEN "Lambda.4"
    ELSE IF Tenants[i].lane # r.lane          THEN "Lambda.4"
    ELSE IF ~capabilityGranted(r.cap, r.lane) THEN "capability.lattice"
    ELSE IF ~Allows(Tenants[i], r.cap)        THEN "tenant.capability_policy"
    ELSE IF r.operator = ""                   THEN "Lambda.6"
    ELSE Passed

-----------------------------------------------------------------------------
(* GRE-1001 stages 1-5 and 7-9.  Stage 6 reads the override store in three *)
(* steps and is part of module Router.                                     *)

stageInputValidation(r) ==
    IF r.requestID = "" \/ r.intent = ""       THEN "Lambda.1"
    ELSE IF r.tenant = "" \/ r.operator = ""   THEN "Lambda.2"
    ELSE Passed

stageCapabilityCheck(r) ==
    IF "" \in {r.cap.class, r.cap.scope, r.cap.action, r.cap.risk}
    THEN "capability.lattice" ELSE Passed

(* The first policy with the request's tenant id and lane decides. *)
checkLambda4(r) ==
    LET i == FirstPolicy(LAMBDA t : t.tenantID = r.tenant /\ t.lane = r.lane)
    IN  IF i # 0 /\ Tenants[i].sovereign \in {"", r.operator} THEN Passed ELSE "Lambda.4"

(* A drift score in hundredths; a missing override is 0. *)
stageDriftCheck(drift) == IF drift >= 50 THEN "Lambda.5" ELSE Passed

StagesToDrift(r, drift) ==
    Then(stageInputValidation(r),
    Then(stageCapabilityCheck(r),
    Then(checkLambda4(r),
    Then(USLCheck(TRUE, r), stageDriftCheck(drift)))))

stageAuditTrail(r)  == IF r.intent = "" THEN "Lambda.2" ELSE Passed
stageLedgerWrite(r) == IF r.tenant = "" THEN "Lambda.2" ELSE Passed
StagesAfterCorrigibility(r) == Then(stageAuditTrail(r), stageLedgerWrite(r))

-----------------------------------------------------------------------------
(* Immune Protocol, with the router's elevation of a clamped or rerouted   *)
(* lane by the tenant's sovereign operator.                                *)

\* Mutant of Classify: the payload is not looked at.
ClassifyByLane(r) ==
    IF r.tenant = ""               THEN "REJECT"
    ELSE IF r.lane = "SAFE"        THEN "ALLOW"
    ELSE IF r.lane = "NORMAL"      THEN "CLAMP"
    ELSE IF r.lane = "EXPRESS"     THEN "REROUTE"
    ELSE "REJECT"

Classify(r) ==
    IF r.tenant = ""               THEN "REJECT"
    ELSE IF ~r.payload             THEN "QUARANTINE"
    ELSE IF r.lane = "SAFE"        THEN "ALLOW"
    ELSE IF r.lane = "NORMAL"      THEN "CLAMP"
    ELSE IF r.lane = "EXPRESS"     THEN "REROUTE"
    ELSE "REJECT"

\* Mutant of SovereignApproves: any operator will do.
AnyOperatorApproves(r) == r.operator # ""

(* The sovereign operator of the first policy with this tenant id. *)
SovereignApproves(r) ==
    LET i == findTenant(r.tenant)
    IN  i # 0 /\ Tenants[i].sovereign = r.operator

ImmuneAllows(r) ==
    \/ Classify(r) = "ALLOW"
    \/ Classify(r) \in {"CLAMP", "REROUTE"} /\ SovereignApproves(r)

-----------------------------------------------------------------------------
(* Adapters: whether CapabilityRequest accepts, and what Generate returns. *)
(* "infinity" is the adapter of production, "fake" and "deny" the fake     *)
(* adapter that allows and denies, "fails" the tests' failing adapter.     *)

AdapterAccepts(r) ==
    CASE Providers[r.provider] = "infinity"         -> r.keyRef # ""
      [] Providers[r.provider] \in {"fake", "fails"} -> TRUE
      [] Providers[r.provider] = "deny"             -> FALSE

Generate(r) ==
    CASE Providers[r.provider] = "infinity" -> "ok"
      [] Providers[r.provider] \in {"fake", "deny"} -> IF r.keyRef = "" THEN "err" ELSE "ok"
      [] Providers[r.provider] = "fails"    -> "err"

(* Immune Protocol, provider registry and adapter, in Admit's order, as a  *)
(* decision [result, rule].                                                *)
ProviderGate(r) ==
    IF ~ImmuneAllows(r)                     THEN [result |-> "QUARANTINE", rule |-> "immune.protocol"]
    ELSE IF r.provider \notin DOMAIN Providers THEN [result |-> "DENY", rule |-> "provider.registry"]
    ELSE IF ~AdapterAccepts(r)              THEN [result |-> "DENY", rule |-> "provider.adapter"]
    ELSE [result |-> "ADMIT", rule |-> "usl.gate"]

-----------------------------------------------------------------------------
(* The governed workflows. *)

Cap(class, scope, action, risk) ==
    [class |-> class, scope |-> scope, action |-> action, risk |-> risk]

WorkflowIDs == {"governed-intake", "otem-execution", "external-suggestion-admission",
                "governed-training-eval"}

WorkflowCapability(w) ==
    CASE w = "governed-intake"               -> Cap("intake", "unstructured", "ingest", "low")
      [] w = "otem-execution"                -> Cap("execution", "otem", "execute", "medium")
      [] w = "external-suggestion-admission" -> Cap("admission", "external", "attach", "low")
      [] w = "governed-training-eval"        -> Cap("training", "eval", "run", "low")

AllowedLanes(w) ==
    CASE w = "governed-intake"               -> {"SAFE", "NORMAL", "EXPRESS"}
      [] w = "otem-execution"                -> {"NORMAL", "EXPRESS"}
      [] w = "external-suggestion-admission" -> {"SAFE", "NORMAL"}
      [] w = "governed-training-eval"        -> {"SAFE"}

(* WorkflowService.Run refuses an unknown workflow or a lane it may not use. *)
WorkflowAllows(w, r) == w \in WorkflowIDs /\ r.lane \in AllowedLanes(w)

(* ... and binds the workflow's capability onto the request. *)
BindWorkflow(w, r) == [r EXCEPT !.cap = WorkflowCapability(w)]
=============================================================================
