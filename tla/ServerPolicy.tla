---------------------------- MODULE ServerPolicy ----------------------------
(***************************************************************************)
(* The policy and the gates, for any tenants, lattice and providers: the   *)
(* gates of Admit ask what the policy says, but for the sovereign operator *)
(* of a SAFE-lane tenant that names none; only a request that the policy   *)
(* permits gets past them and reaches a provider; and one that the policy  *)
(* admits is refused for an override or for drift only.                    *)
(***************************************************************************)
EXTENDS ServerRecords, WellFoundedInduction

(* A nonempty set of positions has a least element. *)
LEMMA LeastPosition ==
  ASSUME NEW S \in SUBSET Nat, S # {}
  PROVE  \E m \in S : \A k \in S : m <= k
<1> DEFINE R == OpToRel(<, Nat)
<1>1. PICK m \in S : \A k \in S : ~ (<<k, m>> \in R)
  <2>1. IsWellFoundedOn(R, Nat)
    BY NatLessThanWellFounded
  <2> HIDE DEF R
  <2>2. QED
    BY <2>1, WFMin
<1>2. \A k \in S : ~ (k < m)
  BY <1>1 DEF OpToRel
<1>3. QED
  BY <1>2

-----------------------------------------------------------------------------
(* The gates as one condition on the request. *)

(* Stages 1-4 of GRE-1001, which come before the drift score is looked at. *)
Screened(r) ==
    /\ stageInputValidation(r) = Passed
    /\ stageCapabilityCheck(r) = Passed
    /\ checkLambda4(r) = Passed
    /\ USLCheck(TRUE, r) = Passed

(* ... and everything Admit asks of the request itself. *)
Vetted(r) ==
    /\ Screened(r)
    /\ StagesAfterCorrigibility(r) = Passed
    /\ ProviderGate(r).result = "ADMIT"

LEMMA StagesByPart ==
  ASSUME NEW r, NEW d
  PROVE  StagesToDrift(r, d) = Passed <=> Screened(r) /\ stageDriftCheck(d) = Passed
BY DEF StagesToDrift, Then, Screened

Missing(field) == field = ""

FirstOf(At) == IF At = {} THEN 0 ELSE CHOOSE i \in At : \A j \in At : i <= j

Named(r) == {k \in DOMAIN Tenants : Tenants[k].tenantID = r.tenant}
NamedOnLane(r) == {k \in Named(r) : Tenants[k].lane = r.lane}

LEMMA FirstIsLeast ==
  ASSUME NEW At \in SUBSET (DOMAIN Tenants)
  PROVE  /\ At # {} => FirstOf(At) \in At /\ FirstOf(At) # 0 /\ \A j \in At : FirstOf(At) <= j
         /\ At = {} => FirstOf(At) = 0
<1>1. At \in SUBSET Nat /\ 0 \notin At
  BY ConfigurationAssumption
<1>2. ASSUME At # {}
      PROVE  FirstOf(At) \in At /\ \A j \in At : FirstOf(At) <= j
  BY <1>1, <1>2, LeastPosition DEF FirstOf
<1>3. QED
  BY <1>1, <1>2 DEF FirstOf

LEMMA PolicyLookups ==
  ASSUME NEW r
  PROVE  /\ findTenant(r.tenant) = FirstOf(Named(r))
         /\ checkLambda4(r) = Passed <=>
               LET i == FirstOf(NamedOnLane(r))
               IN  i # 0 /\ (Missing(Tenants[i].sovereign) \/ Tenants[i].sovereign = r.operator)
<1>1. findTenant(r.tenant) = FirstOf({k \in DOMAIN Tenants : Tenants[k].tenantID = r.tenant})
  BY DEF findTenant, FirstPolicy, FirstOf
<1>2. FirstPolicy(LAMBDA t : t.tenantID = r.tenant /\ t.lane = r.lane)
         = FirstOf({k \in DOMAIN Tenants : Tenants[k].tenantID = r.tenant /\ Tenants[k].lane = r.lane})
  BY DEF FirstPolicy, FirstOf
<1>3. {k \in DOMAIN Tenants : Tenants[k].tenantID = r.tenant /\ Tenants[k].lane = r.lane}
         = NamedOnLane(r)
  BY DEF NamedOnLane, Named
<1> DEFINE i == FirstOf(NamedOnLane(r))
<1>4. FirstPolicy(LAMBDA t : t.tenantID = r.tenant /\ t.lane = r.lane) = i
  BY <1>2, <1>3, Zenon
<1> HIDE DEF i
<1>5. checkLambda4(r) = IF i # 0 /\ Tenants[i].sovereign \in {"", r.operator} THEN Passed ELSE "Lambda.4"
  BY <1>4 DEF checkLambda4
<1>6. Tenants[i].sovereign \in {"", r.operator} <=>
         Missing(Tenants[i].sovereign) \/ Tenants[i].sovereign = r.operator
  BY DEF Missing
<1>7. Passed # "Lambda.4"
  BY DEF Passed
<1>8. checkLambda4(r) = Passed <=>
         i # 0 /\ (Missing(Tenants[i].sovereign) \/ Tenants[i].sovereign = r.operator)
  BY <1>5, <1>6, <1>7, Zenon
<1>9. QED
  BY <1>1, <1>8 DEF Named, i

LEMMA USLAsks ==
  ASSUME NEW r, NEW i, i = FirstOf(Named(r))
  PROVE  USLCheck(TRUE, r) = Passed <=>
             /\ i # 0
             /\ Tenants[i].lane = r.lane
             /\ capabilityGranted(r.cap, r.lane)
             /\ Allows(Tenants[i], r.cap)
             /\ ~Missing(r.operator)
BY PolicyLookups DEF USLCheck, Passed, Missing

LEMMA InputAsks ==
  ASSUME NEW r
  PROVE  stageInputValidation(r) = Passed <=>
             ~Missing(r.requestID) /\ ~Missing(r.intent) /\ ~Missing(r.tenant) /\ ~Missing(r.operator)
BY DEF stageInputValidation, Passed, Missing

LEMMA CapabilityAsks ==
  ASSUME NEW r
  PROVE  stageCapabilityCheck(r) = Passed <=>
             "" \notin {r.cap.class, r.cap.scope, r.cap.action, r.cap.risk}
BY DEF stageCapabilityCheck, Passed

LEMMA AuditAsks ==
  ASSUME NEW r
  PROVE  StagesAfterCorrigibility(r) = Passed <=> ~Missing(r.intent) /\ ~Missing(r.tenant)
BY DEF StagesAfterCorrigibility, stageAuditTrail, stageLedgerWrite, Then, Passed, Missing

LEMMA ImmuneAsks ==
  ASSUME NEW r, ~Missing(r.tenant)
  PROVE  ImmuneAllows(r) <=>
             /\ r.payload
             /\ \/ r.lane = "SAFE"
                \/ r.lane \in {"NORMAL", "EXPRESS"} /\ SovereignApproves(r)
<1>1. Classify(r) = IF ~r.payload             THEN "QUARANTINE"
                    ELSE IF r.lane = "SAFE"   THEN "ALLOW"
                    ELSE IF r.lane = "NORMAL" THEN "CLAMP"
                    ELSE IF r.lane = "EXPRESS" THEN "REROUTE"
                    ELSE "REJECT"
  BY DEF Classify, Missing
<1>2. QED
  BY <1>1 DEF ImmuneAllows

LEMMA AdapterAsks ==
  ASSUME NEW r, r.provider \in DOMAIN Providers
  PROVE  AdapterAccepts(r) <=>
             /\ Providers[r.provider] # "deny"
             /\ Providers[r.provider] = "infinity" => ~Missing(r.keyRef)
<1>1. Providers[r.provider] \in {"infinity", "fake", "deny", "fails"}
  BY ConfigurationAssumption DEF AdapterKinds
<1>2. AdapterAccepts(r) = CASE Providers[r.provider] = "infinity"         -> ~Missing(r.keyRef)
                            [] Providers[r.provider] \in {"fake", "fails"} -> TRUE
                            [] Providers[r.provider] = "deny"             -> FALSE
  BY DEF AdapterAccepts, Missing
<1>3. Missing(r.keyRef) \in BOOLEAN
  BY DEF Missing
<1>4. QED
  BY <1>1, <1>2, <1>3

LEMMA ProviderAsks ==
  ASSUME NEW r
  PROVE  ProviderGate(r).result = "ADMIT" <=>
             ImmuneAllows(r) /\ r.provider \in DOMAIN Providers /\ AdapterAccepts(r)
BY DEF ProviderGate

-----------------------------------------------------------------------------
(* The policy. *)

(* What Permitted asks of policy i. *)
PolicyPermits(i, r) == Tenants[i].lane = r.lane /\ Allows(Tenants[i], r.cap)

LEMMA PermittedAsks ==
  ASSUME NEW r
  PROVE  Permitted(r) <=>
             /\ ~Missing(r.requestID) /\ ~Missing(r.tenant) /\ ~Missing(r.intent) /\ ~Missing(r.operator)
             /\ \E i \in DOMAIN Tenants : Owns(i, r) /\ PolicyPermits(i, r)
             /\ capabilityGranted(r.cap, r.lane)
             /\ "" \notin {r.cap.class, r.cap.scope, r.cap.action, r.cap.risk}
             /\ r.lane \in {"SAFE", "NORMAL", "EXPRESS"}
             /\ r.payload
             /\ r.provider \in DOMAIN Providers
             /\ Providers[r.provider] # "deny"
             /\ Providers[r.provider] = "infinity" => ~Missing(r.keyRef)
<1>1. "" \notin {r.requestID, r.tenant, r.intent, r.operator} <=>
          ~Missing(r.requestID) /\ ~Missing(r.tenant) /\ ~Missing(r.intent) /\ ~Missing(r.operator)
  BY DEF Missing
<1>2. [grant |-> r.cap, lane |-> r.lane] \in
          UNION {{[grant |-> g.grant, lane |-> l] : l \in g.lanes} : g \in Lattice}
      <=> capabilityGranted(r.cap, r.lane)
  <2> DEFINE Pairs(g) == {[grant |-> g.grant, lane |-> l] : l \in g.lanes}
  <2>1. \A g : [grant |-> r.cap, lane |-> r.lane] \in Pairs(g) <=> g.grant = r.cap /\ r.lane \in g.lanes
    OBVIOUS
  <2> HIDE DEF Pairs
  <2>2. [grant |-> r.cap, lane |-> r.lane] \in UNION {Pairs(g) : g \in Lattice}
        <=> \E g \in Lattice : g.grant = r.cap /\ r.lane \in g.lanes
    BY <2>1
  <2>3. QED
    BY <2>2 DEF capabilityGranted, Pairs
<1>3. ASSUME NEW i
      PROVE  /\ Tenants[i].lane = r.lane
             /\ r.cap.class \in Tenants[i].classes
             /\ \A dim \in {<<Tenants[i].scopes, r.cap.scope>>, <<Tenants[i].actions, r.cap.action>>,
                             <<Tenants[i].risks, r.cap.risk>>} : dim[1] = {} \/ dim[2] \in dim[1]
             <=> PolicyPermits(i, r)
  <2>1. (\A dim \in {<<Tenants[i].scopes, r.cap.scope>>, <<Tenants[i].actions, r.cap.action>>,
                      <<Tenants[i].risks, r.cap.risk>>} : dim[1] = {} \/ dim[2] \in dim[1])
        <=> /\ Tenants[i].scopes = {}  \/ r.cap.scope \in Tenants[i].scopes
            /\ Tenants[i].actions = {} \/ r.cap.action \in Tenants[i].actions
            /\ Tenants[i].risks = {}   \/ r.cap.risk \in Tenants[i].risks
    OBVIOUS
  <2>2. QED
    BY <2>1, Zenon DEF PolicyPermits, Allows
<1>4. Providers[r.provider] = "infinity" /\ r.keyRef # "" <=>
          Providers[r.provider] = "infinity" /\ ~Missing(r.keyRef)
  BY DEF Missing
<1>5. QED
  BY <1>1, <1>2, <1>3, <1>4, Zenon DEF Permitted

(* The first policy with the tenant's id, in the two ways of saying it.    *)
LEMMA FirstNamed ==
  ASSUME NEW r, NEW i \in Named(r)
  PROVE  (\A j \in 1..(i - 1) : Tenants[j].tenantID # r.tenant) <=> i = FirstOf(Named(r))
<1>1. Named(r) \in SUBSET (DOMAIN Tenants) /\ DOMAIN Tenants = 1..Len(Tenants) /\ Len(Tenants) \in Nat
  BY ConfigurationAssumption DEF Named
<1>2. PICK f : f = FirstOf(Named(r))
  OBVIOUS
<1>3. f \in Named(r) /\ \A j \in Named(r) : f <= j
  BY <1>1, <1>2, FirstIsLeast
<1>4. f \in 1..Len(Tenants) /\ i \in 1..Len(Tenants) /\ f <= i /\ Tenants[f].tenantID = r.tenant
  BY <1>1, <1>3 DEF Named
<1>5. ASSUME \A j \in 1..(i - 1) : Tenants[j].tenantID # r.tenant
      PROVE  i = f
  BY <1>1, <1>4, <1>5
<1>6. ASSUME i = f, NEW j \in 1..(i - 1)
      PROVE  Tenants[j].tenantID # r.tenant
  <2>1. j \in DOMAIN Tenants /\ ~(f <= j)
    BY <1>1, <1>4, <1>6
  <2>2. QED
    BY <1>3, <2>1 DEF Named
<1>7. QED
  BY <1>2, <1>5, <1>6

(* On the lane of its first policy, Lambda.4 looks at that policy too. *)
LEMMA FirstNamedOnLane ==
  ASSUME NEW r, NEW i \in Named(r), i = FirstOf(Named(r)), Tenants[i].lane = r.lane
  PROVE  FirstOf(NamedOnLane(r)) = i
<1>1. /\ Named(r) \in SUBSET (DOMAIN Tenants) /\ NamedOnLane(r) \in SUBSET (DOMAIN Tenants)
      /\ DOMAIN Tenants = 1..Len(Tenants) /\ Len(Tenants) \in Nat
  BY ConfigurationAssumption DEF Named, NamedOnLane
<1>2. i \in NamedOnLane(r)
  BY DEF NamedOnLane
<1>3. PICK k : k = FirstOf(NamedOnLane(r))
  OBVIOUS
<1>4. k \in NamedOnLane(r) /\ k <= i
  BY <1>1, <1>2, <1>3, FirstIsLeast
<1>5. k \in Named(r)
  BY <1>4 DEF NamedOnLane
<1>6. i <= k
  BY <1>1, <1>5, FirstIsLeast
<1>7. i \in Nat /\ k \in Nat
  BY <1>1, <1>2, <1>4
<1>8. QED
  BY <1>3, <1>4, <1>6, <1>7

(* The policies that own a request, on either account, are one. *)
LEMMA OwnerIsFirst ==
  ASSUME NEW r, NEW i
  PROVE  i \in DOMAIN Tenants /\ Owns(i, r) <=> i \in Named(r) /\ i = FirstOf(Named(r))
<1>1. i \in DOMAIN Tenants /\ Owns(i, r) <=>
          i \in Named(r) /\ \A j \in 1..(i - 1) : Tenants[j].tenantID # r.tenant
  BY DEF Owns, Named
<1>2. QED
  BY <1>1, FirstNamed

LEMMA SovereigntyAsks ==
  ASSUME NEW r, NEW i, i = FirstOf(Named(r))
  PROVE  /\ Sovereign(r) <=> i \in Named(r) /\ Tenants[i].sovereign = r.operator
         /\ Unbound(r) <=> i \in Named(r) /\ Missing(Tenants[i].sovereign)
         /\ (\E k \in DOMAIN Tenants : Owns(k, r) /\ PolicyPermits(k, r)) <=>
                i \in Named(r) /\ PolicyPermits(i, r)
<1>1. \A k : k \in DOMAIN Tenants /\ Owns(k, r) <=> k \in Named(r) /\ k = i
  BY OwnerIsFirst
<1>2. Sovereign(r) <=> i \in Named(r) /\ Tenants[i].sovereign = r.operator
  BY <1>1, Zenon DEF Sovereign
<1>3. Unbound(r) <=> i \in Named(r) /\ Missing(Tenants[i].sovereign)
  BY <1>1, Zenon DEF Unbound, Missing
<1>4. (\E k \in DOMAIN Tenants : Owns(k, r) /\ PolicyPermits(k, r)) <=>
          i \in Named(r) /\ PolicyPermits(i, r)
  BY <1>1, Zenon
<1>5. QED
  BY <1>2, <1>3, <1>4

(* The gates of usl.go, gre.go, immune.go and adapters.go, in the order in *)
(* which Admit meets them, pass exactly the requests that the policy       *)
(* admits and, beyond it, those that only lack a sovereign operator on the *)
(* SAFE lane, for any tenants, lattice and providers.  This is the extent  *)
(* of the disagreement that FaultyTenantAdmitsNothing shows.               *)
THEOREM GatesAreThePolicy ==
    \A r : Vetted(r) <=> Admissible(r) \/ (Permitted(r) /\ r.lane = "SAFE" /\ Unbound(r))
<1> SUFFICES ASSUME NEW r
             PROVE  Vetted(r) <=> Permitted(r) /\ (Sovereign(r) \/ (r.lane = "SAFE" /\ Unbound(r)))
  BY DEF Admissible
<1>1. PICK i : i = FirstOf(Named(r))
  OBVIOUS
<1>2. i # 0 <=> i \in Named(r)
  <2>1. Named(r) \in SUBSET (DOMAIN Tenants) /\ 0 \notin Named(r)
    BY ConfigurationAssumption DEF Named
  <2>2. QED
    BY <1>1, <2>1, FirstIsLeast
<1>3. SovereignApproves(r) <=> Sovereign(r)
  BY <1>1, <1>2, PolicyLookups, SovereigntyAsks DEF SovereignApproves
<1>4. ASSUME i \in Named(r), Tenants[i].lane = r.lane
      PROVE  checkLambda4(r) = Passed <=> Unbound(r) \/ Sovereign(r)
  BY <1>1, <1>2, <1>4, FirstNamedOnLane, PolicyLookups, SovereigntyAsks
<1>5. USLCheck(TRUE, r) = Passed <=>
          /\ i \in Named(r) /\ PolicyPermits(i, r)
          /\ capabilityGranted(r.cap, r.lane) /\ ~Missing(r.operator)
  BY <1>1, <1>2, USLAsks DEF PolicyPermits
<1>6. ASSUME Vetted(r)
      PROVE  Permitted(r) /\ (Sovereign(r) \/ (r.lane = "SAFE" /\ Unbound(r)))
  <2>1. /\ ~Missing(r.requestID) /\ ~Missing(r.intent) /\ ~Missing(r.tenant) /\ ~Missing(r.operator)
        /\ "" \notin {r.cap.class, r.cap.scope, r.cap.action, r.cap.risk}
    BY <1>6, InputAsks, CapabilityAsks DEF Vetted, Screened
  <2>2. i \in Named(r) /\ PolicyPermits(i, r) /\ capabilityGranted(r.cap, r.lane)
    BY <1>5, <1>6 DEF Vetted, Screened
  <2>3. ImmuneAllows(r) /\ r.provider \in DOMAIN Providers /\ AdapterAccepts(r)
    BY <1>6, ProviderAsks DEF Vetted
  <2>4. r.payload /\ (r.lane = "SAFE" \/ (r.lane \in {"NORMAL", "EXPRESS"} /\ Sovereign(r)))
    BY <1>3, <2>1, <2>3, ImmuneAsks
  <2>5. Unbound(r) \/ Sovereign(r)
    BY <1>4, <1>6, <2>2 DEF Vetted, Screened, PolicyPermits
  <2>6. \E k \in DOMAIN Tenants : Owns(k, r) /\ PolicyPermits(k, r)
    BY <1>1, <2>2, SovereigntyAsks
  <2>7. /\ Providers[r.provider] # "deny"
        /\ Providers[r.provider] = "infinity" => ~Missing(r.keyRef)
    BY <2>3, AdapterAsks
  <2>8. r.lane \in {"SAFE", "NORMAL", "EXPRESS"}
    BY <2>4
  <2>9. Permitted(r)
    BY <2>1, <2>2, <2>3, <2>4, <2>6, <2>7, <2>8, PermittedAsks, Zenon
  <2>10. QED
    BY <2>4, <2>5, <2>9
<1>7. ASSUME Permitted(r), Sovereign(r) \/ (r.lane = "SAFE" /\ Unbound(r))
      PROVE  Vetted(r)
  <2>1. /\ ~Missing(r.requestID) /\ ~Missing(r.tenant) /\ ~Missing(r.intent) /\ ~Missing(r.operator)
        /\ capabilityGranted(r.cap, r.lane)
        /\ "" \notin {r.cap.class, r.cap.scope, r.cap.action, r.cap.risk}
        /\ r.lane \in {"SAFE", "NORMAL", "EXPRESS"}
        /\ r.payload
        /\ r.provider \in DOMAIN Providers
        /\ Providers[r.provider] # "deny"
        /\ Providers[r.provider] = "infinity" => ~Missing(r.keyRef)
    BY <1>7, PermittedAsks, Zenon
  <2>2. \E k \in DOMAIN Tenants : Owns(k, r) /\ PolicyPermits(k, r)
    BY <1>7, PermittedAsks, Zenon
  <2>3. i \in Named(r) /\ PolicyPermits(i, r)
    BY <1>1, <2>2, SovereigntyAsks
  <2>4. /\ stageInputValidation(r) = Passed /\ stageCapabilityCheck(r) = Passed
        /\ StagesAfterCorrigibility(r) = Passed
    BY <2>1, InputAsks, CapabilityAsks, AuditAsks, Zenon
  <2>5. checkLambda4(r) = Passed /\ USLCheck(TRUE, r) = Passed
    <3>1. ~Missing(r.operator) /\ capabilityGranted(r.cap, r.lane)
      BY <2>1, Zenon
    <3>2. QED
      BY <1>4, <1>5, <1>7, <2>3, <3>1 DEF PolicyPermits
  <2>6. ImmuneAllows(r)
    <3>1. r.lane \in {"SAFE", "NORMAL", "EXPRESS"} /\ r.payload /\ ~Missing(r.tenant)
      BY <2>1, Zenon
    <3>2. QED
      BY <1>3, <1>7, <3>1, ImmuneAsks
  <2>7. AdapterAccepts(r) /\ r.provider \in DOMAIN Providers
    BY <2>1, AdapterAsks, Zenon
  <2>8. QED
    BY <2>4, <2>5, <2>6, <2>7, ProviderAsks DEF Vetted, Screened
<1>8. QED
  BY <1>6, <1>7

-----------------------------------------------------------------------------
(* How far a goroutine's request has been vetted. *)

PastScreen == {"gre.terminated", "gre.interrupted", "gre.correction", "provider"}

(* A goroutine at p with answer a and provider call g has left all gates   *)
(* but the in-flight re-check behind it.                                   *)
Cleared(p, a, g) ==
    \/ p \in {"reterminated", "reinterrupted"} \cup Execution
    \/ p \in {"write", "done"} /\ a.result = "ADMIT"
    \/ g # "none"

Bound(r) ==
    \E w \in WorkflowIDs : r.cap = WorkflowCapability(w) /\ r.lane \in AllowedLanes(w)

Vets(t) ==
    /\ pc[t] \in PastScreen => Screened(req[t])
    /\ Cleared(pc[t], out[t], gen[t]) => Vetted(req[t])
    /\ \/ via[t] = "workflow" /\ pc[t] \in Admission \cup Execution
       \/ gen[t] # "none"
       => via[t] = "workflow" /\ Bound(req[t])

VettingInv == \A t \in Threads : Vets(t)

LEMMA FlowScreens ==
  ASSUME NEW p, NEW v, NEW a, NEW now, NEW q, NEW b, Flow(p, v, a, now, q, b), q \in PastScreen
  PROVE  p \in PastScreen \/ (p = "gre" /\ q = "gre.terminated")
BY DEF Flow, Passes, PassesTo, Refuses, Admits, Withdraws, Forces, Writes, Fails, PastScreen

LEMMA FlowClears ==
  ASSUME NEW p, NEW v, NEW a, NEW g, NEW now, NEW q, NEW b,
         Holds(p, v, a, g), Flow(p, v, a, now, q, b),
         Cleared(q, b, IF p = "generate" THEN "running" ELSE g)
  PROVE  Cleared(p, a, g) \/ (p = "provider" /\ q = "reterminated")
<1>1. Refusal(b) => b.result # "ADMIT"
  BY DEF Refusal
<1>2. p = "force" => a.result # "ADMIT"
  BY DEF Holds, Refusal
<1>3. ExecutionDenied.result # "ADMIT"
  BY DEF ExecutionDenied, Answer
<1> USE DEF Cleared, Execution
<1>4. CASE Passes(p, a, now, q, b)
  BY <1>4 DEF Passes, PassesTo
<1>5. CASE Refuses(p, now, q, b)
  BY <1>1, <1>5 DEF Refuses, Gates, Admission
<1>6. CASE Admits(p, now, q, b)
  BY <1>6 DEF Admits
<1>7. CASE Withdraws(p, a, now, q, b)
  BY <1>7 DEF Withdraws
<1>8. CASE Forces(p, a, q, b)
  BY <1>2, <1>8 DEF Forces
<1>9. CASE Writes(p, v, a, q, b)
  BY <1>9 DEF Writes
<1>10. CASE Fails(p, q, b)
  BY <1>3, <1>10 DEF Fails
<1>11. CASE p \in {"generate", "execution"}
  BY <1>11
<1>12. QED
  BY <1>4, <1>5, <1>6, <1>7, <1>8, <1>9, <1>10, <1>11 DEF Flow

(* In execution a goroutine came by /workflow, and stays there. *)
LEMMA FlowStays ==
  ASSUME NEW p, NEW v, NEW a, NEW now, NEW q, NEW b, Flow(p, v, a, now, q, b)
  PROVE  p \in Admission \cup Execution /\ q # "idle"
BY DEF Flow, Passes, PassesTo, Refuses, Admits, Withdraws, Forces, Writes, Fails, Gates,
   Admission, Execution

(* The two steps that look at the request. *)
LEMMA GateAt ==
  ASSUME NEW t, NEW at, NEW refused, NEW answer, NEW refusedTo, NEW passedTo,
         Gate(t, at, refused, answer, refusedTo, passedTo)
  PROVE  pc[t] = at
BY DEF Gate

LEMMA ScreeningSteps ==
  ASSUME NEW t \in Threads, ThreadStep(t)
  PROVE  /\ pc[t] = "gre" => GREGates(t)
         /\ pc[t] = "provider" => ProviderGates(t)
<1>1. CASE \/ CheckLedger(t) \/ CheckTerminated(t) \/ CheckInterrupted(t)
           \/ GRETerminated(t) \/ GREInterrupted(t) \/ GRECorrection(t)
  BY <1>1, GateAt DEF CheckLedger, CheckTerminated, CheckInterrupted, GRETerminated,
     GREInterrupted, GRECorrection
<1>2. CASE GREGates(t) \/ ProviderGates(t)
  BY <1>2, GateAt DEF GREGates, ProviderGates
<1>3. CASE \/ FinalTerminated(t) \/ FinalCorrection(t) \/ FinalInterrupted(t)
           \/ Receive(t) \/ TimeOut(t)
  BY <1>3, GateAt DEF FinalTerminated, FinalCorrection, FinalInterrupted, Receive, TimeOut
<1>4. CASE \/ RecheckTerminated(t) \/ RecheckInterrupted(t) \/ ForceState(t) \/ WriteDecision(t)
           \/ FinalForce(t) \/ ReadCurrent(t) \/ TransitionToRunning(t) \/ StartGenerate(t)
           \/ WriteExecution(t)
  <2>1. pc[t] \in {"reterminated", "reinterrupted", "force", "write", "final.force", "current",
                   "transition", "generate", "execution"}
    BY <1>4 DEF RecheckTerminated, RecheckInterrupted, ForceState, WriteDecision, FinalForce,
       ReadCurrent, TransitionToRunning, StartGenerate, WriteExecution
  <2>2. QED
    BY <2>1
<1>5. QED
  BY <1>1, <1>2, <1>3, <1>4 DEF ThreadStep

LEMMA GREScreens ==
  ASSUME GoroutineTypes, NEW t \in Threads, GREGates(t)
  PROVE  IF StagesToDrift(req[t], drift) = Passed THEN pc'[t] = "gre.terminated" ELSE pc'[t] = "write"
<1> DEFINE verdict == StagesToDrift(req[t], drift)
<1>1. PICK answer : Gate(t, "gre", verdict # Passed, answer, "write", "gre.terminated")
  BY DEF GREGates
<1> HIDE DEF verdict
<1>2. IF verdict = Passed THEN pc'[t] = "gre.terminated" ELSE pc'[t] = "write"
  BY <1>1 DEF Gate, Goto, GoroutineTypes
<1>3. QED
  BY <1>2 DEF verdict

LEMMA ProviderClears ==
  ASSUME GoroutineTypes, NEW t \in Threads, ProviderGates(t)
  PROVE  IF StagesAfterCorrigibility(req[t]) = Passed /\ ProviderGate(req[t]).result = "ADMIT"
         THEN pc'[t] = "reterminated" ELSE pc'[t] = "write"
<1> DEFINE verdict == StagesAfterCorrigibility(req[t])
           gate    == ProviderGate(req[t])
           refusal == IF verdict # Passed THEN Answer(1, "DENY", verdict, "")
                                          ELSE Answer(1, gate.result, gate.rule, "")
<1>1. Gate(t, "provider", refusal.result # "ADMIT", refusal, "write", "reterminated")
  BY DEF ProviderGates
<1>2. refusal.result = IF verdict # Passed THEN "DENY" ELSE gate.result
  <2> HIDE DEF verdict, gate
  <2>1. CASE verdict # Passed
    BY <2>1 DEF Answer
  <2>2. CASE verdict = Passed
    BY <2>2 DEF Answer
  <2>3. QED
    BY <2>1, <2>2
<1> HIDE DEF verdict, gate, refusal
<1>3. IF verdict = Passed /\ gate.result = "ADMIT" THEN pc'[t] = "reterminated" ELSE pc'[t] = "write"
  BY <1>1, <1>2 DEF Gate, Goto, GoroutineTypes
<1>4. QED
  BY <1>3 DEF verdict, gate

LEMMA ThreadStepVets ==
  ASSUME TypeOK, AnswersInv, VettingInv, NEW t \in Threads, ThreadStep(t)
  PROVE  VettingInv'
<1>1. GoroutineTypes
  BY TypeOKGoroutines
<1>2. PICK q, b : Moves(t, q, b)
  BY <1>1, ThreadMoves
<1> DEFINE g == IF pc[t] = "generate" THEN "running" ELSE gen[t]
<1>3. /\ pc'[t] = q /\ out'[t] = b /\ gen'[t] = g /\ req' = req /\ via' = via
      /\ \A u \in Threads : u # t => pc'[u] = pc[u] /\ out'[u] = out[u] /\ gen'[u] = gen[u]
  BY <1>1, <1>2 DEF Moves, GoroutineTypes
<1>4. Flow(pc[t], via[t], out[t], Overrides(Intent(t)), q, b) /\ Holds(pc[t], via[t], out[t], gen[t])
  BY <1>2 DEF Moves, AnswersInv
<1>5. Vets(t)
  BY DEF VettingInv
<1>6. ASSUME q \in PastScreen
      PROVE  Screened(req[t])
  <2>1. CASE pc[t] \in PastScreen
    BY <1>5, <2>1 DEF Vets
  <2>2. CASE pc[t] = "gre" /\ q = "gre.terminated"
    <3>1. StagesToDrift(req[t], drift) = Passed
      BY <1>1, <1>3, <2>2, ScreeningSteps, GREScreens
    <3>2. QED
      BY <3>1, StagesByPart
  <2>3. QED
    BY <1>4, <1>6, <2>1, <2>2, FlowScreens
<1>7. ASSUME Cleared(q, b, g)
      PROVE  Vetted(req[t])
  <2>1. CASE Cleared(pc[t], out[t], gen[t])
    BY <1>5, <2>1 DEF Vets
  <2>2. CASE pc[t] = "provider" /\ q = "reterminated"
    <3>1. StagesAfterCorrigibility(req[t]) = Passed /\ ProviderGate(req[t]).result = "ADMIT"
      BY <1>1, <1>3, <2>2, ScreeningSteps, ProviderClears
    <3>2. Screened(req[t])
      BY <1>5, <2>2 DEF Vets, PastScreen
    <3>3. QED
      BY <3>1, <3>2 DEF Vetted
  <2>3. QED
    BY <1>4, <1>7, <2>1, <2>2, FlowClears
<1>8. ASSUME (via[t] = "workflow" /\ q \in Admission \cup Execution) \/ g # "none"
      PROVE  via[t] = "workflow" /\ Bound(req[t])
  <2>1. pc[t] \in Admission \cup Execution
    BY <1>4, FlowStays
  <2>2. via[t] = "workflow" \/ gen[t] # "none"
    BY <1>4, <1>8 DEF Holds, Execution
  <2>3. QED
    BY <1>5, <2>1, <2>2 DEF Vets
<1> HIDE DEF g
<1>9. Vets(t)'
  BY <1>3, <1>6, <1>7, <1>8 DEF Vets
<1>10. \A u \in Threads : u # t => Vets(u)'
  BY <1>3 DEF VettingInv, Vets
<1>11. QED
  BY <1>9, <1>10 DEF VettingInv

(* WorkflowService.Run has bound the capability before it calls the router.*)
LEMMA BoundCall ==
  ASSUME NEW w, NEW r \in Requests, WorkflowAllows(w, r)
  PROVE  Bound(BindWorkflow(w, r))
<1>1. ASSUME NEW cap
      PROVE  [r EXCEPT !.cap = cap].cap = cap /\ [r EXCEPT !.cap = cap].lane = r.lane
  BY RequestsAssumption DEF CapabilityRequests
<1>2. w \in WorkflowIDs /\ r.lane \in AllowedLanes(w)
  BY DEF WorkflowAllows
<1>3. QED
  BY <1>1, <1>2 DEF Bound, BindWorkflow

LEMMA NoDecision ==
  ASSUME NEW p, NEW v, NEW a, NEW g, Holds(p, v, a, g), p = "done", a.attempt = 0
  PROVE  a.result # "ADMIT" /\ g = "none"
<1>1. Admit.attempt = 1 /\ ExecutionDenied.attempt = 2
  BY DEF Admit, ExecutionDenied, Answer
<1>2. Withdrawn(a) => a.attempt = 1
  BY AnswerFields DEF Withdrawn
<1>3. Refusal(a) => a.attempt = 1
  BY DEF Refusal
<1>4. a.attempt # 1 /\ a.attempt # 2
  OBVIOUS
<1>5. a.result = "" /\ g = "none"
  BY <1>1, <1>2, <1>3, <1>4, Zenon DEF Holds
<1>6. QED
  BY <1>5, Zenon

LEMMA ArrivalVets ==
  ASSUME TypeOK, AnswersInv, AnswersInv', VettingInv, NEW t \in Threads,
         RejectMalformed(t) \/ RouteHandler(t) \/ RunWorkflow(t)
  PROVE  VettingInv'
<1>1. PICK q, v, r, a : Arrives(t, q, v, r, a)
  BY ArrivalMoves
<1>2. /\ pc'[t] = q /\ via'[t] = v /\ req'[t] = r /\ out'[t] = a /\ gen'[t] = gen[t]
      /\ gen[t] = "none"
      /\ \A u \in Threads : u # t => /\ pc'[u] = pc[u] /\ via'[u] = via[u] /\ req'[u] = req[u]
                                    /\ out'[u] = out[u] /\ gen'[u] = gen[u]
  BY <1>1 DEF Arrives, TypeOK, AnswersInv, Holds
<1>3. q = "verify" /\ v = "workflow" => Bound(r)
  <2>1. ASSUME q = "verify", v = "workflow"
        PROVE  RunWorkflow(t)
    <3>1. ~RejectMalformed(t)
      BY <1>2, <2>1 DEF RejectMalformed, Turned, Goto, TypeOK
    <3>2. ~RouteHandler(t)
      BY <1>2, <2>1 DEF RouteHandler, Call, TypeOK
    <3>3. QED
      BY <3>1, <3>2
  <2>2. ASSUME q = "verify", NEW w, NEW x \in Requests,
               IF WorkflowAllows(w, x) THEN Call(t, "workflow", BindWorkflow(w, x))
                                       ELSE Turned(t, "workflow", "ErrWorkflow")
        PROVE  Bound(r)
    <3>1. ~Turned(t, "workflow", "ErrWorkflow")
      BY <1>2, <2>2 DEF Turned, Goto, TypeOK
    <3>2. WorkflowAllows(w, x) /\ Call(t, "workflow", BindWorkflow(w, x))
      BY <2>2, <3>1
    <3>3. r = BindWorkflow(w, x)
      BY <1>2, <3>2 DEF Call, TypeOK
    <3>4. QED
      BY <3>2, <3>3, BoundCall
  <2>3. QED
    BY <2>1, <2>2 DEF RunWorkflow
<1>4. Vets(t)'
  <2>1. CASE q = "verify"
    BY <1>2, <1>3, <2>1 DEF Vets, PastScreen, Cleared, Execution, Admission
  <2>2. CASE q = "done"
    <3>1. a.attempt = 0
      BY <1>1, <2>2 DEF Arrives
    <3>2. Holds(q, v, a, "none")
      BY <1>2 DEF AnswersInv
    <3>3. a.result # "ADMIT"
      BY <2>2, <3>1, <3>2, NoDecision
    <3>4. QED
      BY <1>2, <2>2, <3>3 DEF Vets, PastScreen, Cleared, Execution, Admission
  <2>3. QED
    BY <1>1, <2>1, <2>2 DEF Arrives
<1>5. \A u \in Threads : u # t => Vets(u)'
  BY <1>2 DEF VettingInv, Vets
<1>6. QED
  BY <1>4, <1>5 DEF VettingInv

LEMMA NextVets ==
  ASSUME TypeOK, AnswersInv, AnswersInv', VettingInv, [Next]_vars
  PROVE  VettingInv'
<1>1. ASSUME NEW t \in Threads, ProviderReturns(t)
      PROVE  VettingInv'
  <2>1. /\ gen[t] = "running" /\ gen' = [gen EXCEPT ![t] = "returned"]
        /\ pc' = pc /\ out' = out /\ via' = via /\ req' = req
    BY <1>1 DEF ProviderReturns
  <2>2. gen'[t] = "returned" /\ \A u \in Threads : u # t => gen'[u] = gen[u]
    BY <2>1 DEF TypeOK
  <2>3. Vets(t)'
    BY <2>1, <2>2 DEF VettingInv, Vets, Cleared
  <2>4. \A u \in Threads : u # t => Vets(u)'
    BY <2>1, <2>2 DEF VettingInv, Vets
  <2>5. QED
    BY <2>3, <2>4 DEF VettingInv
<1>2. ASSUME UNCHANGED <<pc, out, gen, via, req>>
      PROVE  VettingInv'
  BY <1>2 DEF VettingInv, Vets
<1>3. ASSUME NEW o \in Operators, OperatorHandler(o) \/ OperatorStep(o)
      PROVE  UNCHANGED <<pc, out, gen, via, req>>
  BY <1>3 DEF OperatorHandler, OperatorStep, StoreOverride, ForceOverride, operatorLedger,
     routerVars, threadVars
<1>4. ASSUME NEW v \in DriftScores, SteerDrift(v)
      PROVE  UNCHANGED <<pc, out, gen, via, req>>
  BY <1>4 DEF SteerDrift, threadVars
<1>5. UNCHANGED vars => UNCHANGED <<pc, out, gen, via, req>>
  BY DEF vars, routerVars, threadVars
<1>6. QED
  BY <1>1, <1>2, <1>3, <1>4, <1>5, ThreadStepVets, ArrivalVets DEF Next, Quiescent, RequestStep

(* At every place in the code a goroutine's request has passed the gates   *)
(* that lie behind it, and a /workflow request carries its capability.     *)
THEOREM VettingInvariant == Spec => []VettingInv
<1>1. Init => VettingInv
  BY DEF Init, RouterInit, VettingInv, Vets, PastScreen, Cleared, Execution, Admission
<1>2. TypeInv /\ AnswersInv /\ AnswersInv' /\ VettingInv /\ [Next]_vars => VettingInv'
  BY NextVets DEF TypeInv
<1>3. QED
  BY <1>1, <1>2, TypeInvariant, AnswersInvariant, PTL DEF Spec

(* A provider is called only for a /workflow request that the policy       *)
(* permits, for the tenant's sovereign operator if it names one, with its  *)
(* ADMIT already in the ledger and with the capability and on a lane of a  *)
(* governed workflow, for any configuration and any number of concurrent   *)
(* requests and operators.                                                 *)
THEOREM ProviderOnlyThroughGovernance == Spec => []ProviderContactIsGoverned
<1>1. ASSUME TypeInv, AnswersInv, RecordedInv, VettingInv
      PROVE  ProviderContactIsGoverned
  <2>1. SUFFICES ASSUME NEW t \in Threads, gen[t] # "none"
                 PROVE  /\ via[t] = "workflow" /\ Admitted(t) /\ Permitted(req[t])
                        /\ Sovereign(req[t]) \/ Unbound(req[t])
                        /\ Bound(req[t])
    BY DEF ProviderContactIsGoverned, Bound
  <2>2. Vets(t) /\ Recorded(t) /\ Holds(pc[t], via[t], out[t], gen[t])
    BY <1>1 DEF VettingInv, RecordedInv, AnswersInv
  <2>3. via[t] = "workflow" /\ Bound(req[t]) /\ Vetted(req[t])
    BY <2>1, <2>2 DEF Vets, Cleared
  <2>4. Admitted(t)
    <3>1. ASSUME NEW i \in Positions, Body(i) = AdmissionBody(t)
          PROVE  Admitted(t)
      BY <3>1 DEF Admitted, IsAdmission, AdmissionBody
    <3>2. Admit.attempt = 1 /\ ExecutionDenied.attempt = 2
      BY DEF Admit, ExecutionDenied, Answer
    <3>3. pc[t] \in PCs
      BY <1>1 DEF TypeInv, TypeOK
    <3>4. \/ InExecution(pc[t], out[t])
          \/ Completed(pc[t], via[t], out[t])
          \/ Failed(pc[t], out[t])
      BY <2>1, <2>2, <2>3, <3>2, <3>3 DEF Holds, InExecution, Completed, Failed, PCs, Gates,
         Admission, Execution
    <3>5. QED
      BY <2>2, <3>1, <3>4 DEF Recorded, Once, Twice
  <2>5. QED
    BY <2>3, <2>4, GatesAreThePolicy DEF Admissible
<1>2. QED
  BY <1>1, TypeInvariant, AnswersInvariant, RecordsInvariant, VettingInvariant, PTL DEF RecordsInv

-----------------------------------------------------------------------------
(* Why a request is refused. *)

Concluded == {"force", "write", "done"}

(* A goroutine at p has refused request r with answer a for a reason: the  *)
(* policy, a drift score that may be set, or an override.                  *)
Caused(p, a, r) ==
    p \in Concluded /\ Refusal(a) =>
        \/ ~Vetted(r)
        \/ a.rule = "Lambda.5" /\ \E v \in DriftScores : v >= 50
        \/ a.rule = "Lambda.6"

CauseInv ==
    /\ drift \in DriftScores \cup {0}
    /\ \A t \in Threads : Caused(pc[t], out[t], req[t])

(* What a refusal of the drift stage says. *)
LEMMA DriftRefuses ==
  ASSUME NEW r, NEW d \in Nat, Screened(r), StagesToDrift(r, d) # Passed
  PROVE  StagesToDrift(r, d) = "Lambda.5" /\ d >= 50
BY DEF StagesToDrift, Then, Screened, stageDriftCheck

LEMMA Passing ==
  /\ "terminated" \notin Concluded      /\ "interrupted" \notin Concluded
  /\ "gre" \notin Concluded             /\ "gre.terminated" \notin Concluded
  /\ "gre.interrupted" \notin Concluded /\ "gre.correction" \notin Concluded
  /\ "provider" \notin Concluded        /\ "reterminated" \notin Concluded
BY DEF Concluded

LEMMA GateRefuses ==
  ASSUME GoroutineTypes, NEW t \in Threads, NEW at, NEW refused, NEW answer, NEW refusedTo,
         NEW passedTo, passedTo \notin Concluded,
         Gate(t, at, refused, answer, refusedTo, passedTo), pc'[t] \in Concluded
  PROVE  refused /\ out'[t] = answer
BY DEF Gate, Goto, GoroutineTypes

(* Every check but the two that look at the request refuses by Lambda.6.   *)
LEMMA OverrideRefuses ==
  ASSUME GoroutineTypes, Verify, NEW t \in Threads, ThreadStep(t), pc[t] \in Gates,
         pc[t] \notin {"gre", "provider"}, pc'[t] \in Concluded
  PROVE  out'[t].rule = "Lambda.6" \/ out'[t].result = "ADMIT"
<1>1. ASSUME NEW err
      PROVE  Overridden(err).rule = "Lambda.6"
  BY AnswerFields DEF Overridden
<1>2. CASE CheckLedger(t)
  <2> DEFINE broken == Answer(1, "DENY", "ledger.integrity", "ErrLedgerBreak")
  <2>1. Gate(t, "verify", ~Verify, broken, "write", "terminated")
    BY <1>2 DEF CheckLedger
  <2> HIDE DEF broken
  <2>2. ~Verify
    BY <2>1, GateRefuses, Passing, Zenon
  <2>3. QED
    BY <2>2
<1>3. CASE CheckTerminated(t)
  BY <1>1, <1>3, GateRefuses, Passing, Zenon DEF CheckTerminated
<1>4. CASE CheckInterrupted(t)
  BY <1>1, <1>4, GateRefuses, Passing, Zenon DEF CheckInterrupted
<1>5. CASE GRETerminated(t)
  <2>1. Gate(t, "gre.terminated", IsTerminated(Intent(t)), Overridden(""), "write", "gre.interrupted")
    BY <1>5 DEF GRETerminated
  <2>2. out'[t] = Overridden("")
    BY <2>1, GateRefuses, Passing, Zenon
  <2>3. QED
    BY <1>1, <2>2, Zenon
<1>6. CASE GREInterrupted(t)
  <2>1. Gate(t, "gre.interrupted", IsInterrupted(Intent(t)), Overridden(""), "write", "gre.correction")
    BY <1>6 DEF GREInterrupted
  <2>2. out'[t] = Overridden("")
    BY <2>1, GateRefuses, Passing, Zenon
  <2>3. QED
    BY <1>1, <2>2, Zenon
<1>7. CASE GRECorrection(t)
  <2>1. Gate(t, "gre.correction", Correction(Intent(t)), Overridden(""), "write", "provider")
    BY <1>7 DEF GRECorrection
  <2>2. out'[t] = Overridden("")
    BY <2>1, GateRefuses, Passing, Zenon
  <2>3. QED
    BY <1>1, <2>2, Zenon
<1>8. CASE RecheckTerminated(t)
  BY <1>1, <1>8 DEF RecheckTerminated, Goto, GoroutineTypes, Concluded
<1>9. CASE RecheckInterrupted(t)
  <2>1. Admit.result = "ADMIT"
    BY DEF Admit, Answer
  <2>2. out' = [out EXCEPT ![t] = Overridden("ErrInterrupted")] \/ out' = [out EXCEPT ![t] = Admit]
    BY <1>9 DEF RecheckInterrupted, Admit
  <2>3. QED
    BY <1>1, <2>1, <2>2 DEF GoroutineTypes
<1>10. CASE \/ GREGates(t) \/ ProviderGates(t)
            \/ FinalTerminated(t) \/ FinalCorrection(t) \/ FinalInterrupted(t)
            \/ Receive(t) \/ TimeOut(t)
  <2>1. pc[t] \in {"gre", "provider", "final.terminated", "final.correction", "final.interrupted", "await"}
    BY <1>10, GateAt DEF GREGates, ProviderGates, FinalTerminated, FinalCorrection, FinalInterrupted,
       Receive, TimeOut
  <2>2. QED
    BY <2>1 DEF Gates, Admission
<1>11. CASE \/ ForceState(t) \/ WriteDecision(t) \/ FinalForce(t) \/ ReadCurrent(t)
            \/ TransitionToRunning(t) \/ StartGenerate(t) \/ WriteExecution(t)
  <2>1. pc[t] \in {"force", "write", "final.force", "current", "transition", "generate", "execution"}
    BY <1>11 DEF ForceState, WriteDecision, FinalForce, ReadCurrent, TransitionToRunning,
       StartGenerate, WriteExecution
  <2>2. QED
    BY <2>1 DEF Gates, Admission
<1>12. QED
  BY <1>2, <1>3, <1>4, <1>5, <1>6, <1>7, <1>8, <1>9, <1>10, <1>11 DEF ThreadStep

LEMMA GRERefuses ==
  ASSUME GoroutineTypes, drift \in Nat, NEW t \in Threads, GREGates(t), pc'[t] \in Concluded,
         Screened(req[t])
  PROVE  out'[t].rule = "Lambda.5" /\ drift >= 50
<1> DEFINE verdict == StagesToDrift(req[t], drift)
           refusal == Answer(1, "DENY", verdict, "")
<1>1. Gate(t, "gre", verdict # Passed, refusal, "write", "gre.terminated")
  BY DEF GREGates
<1> HIDE DEF verdict
<1>2. refusal.rule = verdict
  BY DEF Answer
<1> HIDE DEF refusal
<1>3. verdict # Passed /\ out'[t] = refusal
  BY <1>1, GateRefuses, Passing, Zenon
<1>4. QED
  BY <1>2, <1>3, DriftRefuses DEF verdict

(* A gate that refuses has its cause. *)
LEMMA GateHasCause ==
  ASSUME GoroutineTypes, Verify, drift \in DriftScores \cup {0}, NEW t \in Threads, ThreadStep(t),
         pc[t] \in Gates, req' = req
  PROVE  Caused(pc'[t], out'[t], req[t])
<1>1. SUFFICES ASSUME pc'[t] \in Concluded, Refusal(out'[t]), Vetted(req[t])
               PROVE  \/ out'[t].rule = "Lambda.5" /\ \E v \in DriftScores : v >= 50
                      \/ out'[t].rule = "Lambda.6"
  BY DEF Caused
<1>2. CASE pc[t] = "gre"
  <2>1. drift \in Nat
    <3>1. DriftScores \subseteq Nat
      BY RequestsAssumption, Zenon
    <3>2. QED
      BY <3>1
  <2>2. GREGates(t) /\ Screened(req[t])
    BY <1>1, <1>2, ScreeningSteps DEF Vetted
  <2>3. out'[t].rule = "Lambda.5" /\ drift >= 50
    BY <1>1, <2>1, <2>2, GRERefuses
  <2>4. drift \in DriftScores
    BY <2>3
  <2>5. QED
    BY <2>3, <2>4
<1>3. CASE pc[t] = "provider"
  <2>1. pc'[t] = "reterminated"
    BY <1>1, <1>3, ScreeningSteps, ProviderClears DEF Vetted
  <2>2. QED
    BY <1>1, <2>1 DEF Concluded
<1>4. CASE pc[t] \notin {"gre", "provider"}
  <2>1. out'[t].result # "ADMIT"
    BY <1>1 DEF Refusal
  <2>2. QED
    BY <1>1, <1>4, <2>1, OverrideRefuses
<1>5. QED
  BY <1>2, <1>3, <1>4

(* Past the gates the answer is kept, or is no refusal. *)
LEMMA FlowKeepsCause ==
  ASSUME NEW p, NEW v, NEW a, NEW g, NEW now, NEW q, NEW b, NEW r,
         Holds(p, v, a, g), Flow(p, v, a, now, q, b), p \notin Gates, Caused(p, a, r)
  PROVE  Caused(q, b, r)
<1>1. Admit.result = "ADMIT" /\ ExecutionDenied.attempt = 2
  BY DEF Admit, ExecutionDenied, Answer
<1>2. Withdrawn(a) => a.result = "ADMIT"
  BY AnswerFields DEF Withdrawn
<1>3. \/ b = a /\ (p \in Concluded \/ p \in Execution)
      \/ b = ExecutionDenied
      \/ p \in Execution /\ b.result = a.result
  <2>1. CASE Withdraws(p, a, now, q, b)
    <3>1. a = Admit
      BY <2>1 DEF Withdraws, Holds, Execution
    <3>2. b.result = a.result
      BY <2>1, <3>1 DEF Withdraws, Admit, Answer
    <3>3. QED
      BY <2>1, <3>2 DEF Withdraws, Execution
  <2>2. QED
    BY <2>1 DEF Flow, Passes, PassesTo, Refuses, Admits, Forces, Writes, Fails, Gates, Admission,
       Execution, Concluded
<1>4. p \in Execution => a.result = "ADMIT"
  BY <1>1, <1>2 DEF Holds, Execution
<1>5. Refusal(b) => b.result # "ADMIT" /\ b.attempt = 1
  BY DEF Refusal
<1>6. QED
  BY <1>1, <1>3, <1>4, <1>5 DEF Caused

LEMMA NextCause ==
  ASSUME TypeOK, ChainInv, AnswersInv, CauseInv, [Next]_vars
  PROVE  CauseInv'
<1>1. GoroutineTypes /\ Verify
  BY TypeOKGoroutines DEF ChainInv, ChainIntact
<1>2. ASSUME NEW t \in Threads, ThreadStep(t)
      PROVE  CauseInv'
  <2>1. PICK q, b : Moves(t, q, b)
    BY <1>1, <1>2, ThreadMoves
  <2>2. /\ pc'[t] = q /\ out'[t] = b /\ req' = req /\ drift' = drift
        /\ \A u \in Threads : u # t => pc'[u] = pc[u] /\ out'[u] = out[u]
    BY <1>1, <2>1 DEF Moves, GoroutineTypes
  <2>3. Caused(pc'[t], out'[t], req[t])
    <3>1. CASE pc[t] \in Gates
      BY <1>1, <1>2, <2>2, <3>1, GateHasCause DEF CauseInv
    <3>2. CASE pc[t] \notin Gates
      <4>1. /\ Flow(pc[t], via[t], out[t], Overrides(Intent(t)), q, b)
            /\ Holds(pc[t], via[t], out[t], gen[t]) /\ Caused(pc[t], out[t], req[t])
        BY <2>1 DEF Moves, AnswersInv, CauseInv
      <4>2. QED
        BY <2>2, <3>2, <4>1, FlowKeepsCause
    <3>3. QED
      BY <3>1, <3>2
  <2>4. QED
    BY <2>2, <2>3 DEF CauseInv
<1>3. ASSUME NEW t \in Threads, RejectMalformed(t) \/ RouteHandler(t) \/ RunWorkflow(t)
      PROVE  CauseInv'
  <2>1. PICK q, v, r, a : Arrives(t, q, v, r, a)
    BY <1>3, ArrivalMoves
  <2>2. /\ pc'[t] = q /\ req'[t] = r /\ out'[t] = a /\ drift' = drift
        /\ \A u \in Threads : u # t => pc'[u] = pc[u] /\ out'[u] = out[u] /\ req'[u] = req[u]
    <3>1. drift' = drift
      BY <1>3 DEF RejectMalformed, RouteHandler, RunWorkflow, Turned, Call
    <3>2. QED
      BY <2>1, <3>1 DEF Arrives, TypeOK
  <2>3. q \notin Concluded \/ ~Refusal(a)
    <3>1. Refusal(a) => a.attempt = 1
      BY DEF Refusal
    <3>2. q = "verify" \/ a.attempt = 0
      BY <2>1 DEF Arrives
    <3>3. QED
      BY <3>1, <3>2 DEF Concluded
  <2>4. QED
    BY <2>2, <2>3 DEF CauseInv, Caused
<1>4. ASSUME NEW v \in DriftScores, SteerDrift(v)
      PROVE  CauseInv'
  BY <1>4 DEF CauseInv, SteerDrift, threadVars
<1>5. ASSUME UNCHANGED <<pc, out, req, drift>>
      PROVE  CauseInv'
  BY <1>5 DEF CauseInv
<1>6. ASSUME NEW o \in Operators, OperatorHandler(o) \/ OperatorStep(o)
      PROVE  UNCHANGED <<pc, out, req, drift>>
  BY <1>6 DEF OperatorHandler, OperatorStep, StoreOverride, ForceOverride, operatorLedger,
     routerVars, threadVars
<1>7. ASSUME NEW t \in Threads, ProviderReturns(t)
      PROVE  UNCHANGED <<pc, out, req, drift>>
  BY <1>7 DEF ProviderReturns
<1>8. UNCHANGED vars => UNCHANGED <<pc, out, req, drift>>
  BY DEF vars, routerVars, threadVars
<1>9. QED
  BY <1>2, <1>3, <1>4, <1>5, <1>6, <1>7, <1>8 DEF Next, Quiescent, RequestStep

(* Whatever refused a request was the policy, a drift score that may be    *)
(* set, or an override.                                                    *)
THEOREM CauseInvariant == Spec => []CauseInv
<1>1. Init => CauseInv
  BY DEF Init, RouterInit, CauseInv, Caused, Concluded
<1>2. TypeInv /\ ChainInv /\ AnswersInv /\ CauseInv /\ [Next]_vars => CauseInv'
  BY NextCause DEF TypeInv
<1>3. QED
  BY <1>1, <1>2, TypeInvariant, ChainInvariant, AnswersInvariant, PTL DEF Spec

(* Admit has denied or quarantined the request. *)
RefusedForCause ==
    \A t \in Threads : pc[t] = "done" /\ Refusal(out[t]) =>
        \/ ~Admissible(req[t])
        \/ out[t].rule = "Lambda.5" /\ \E v \in DriftScores : v >= 50
        \/ out[t].rule = "Lambda.6" /\ Overrides(Intent(t)) # {}

(* No request is refused without a cause: the policy does not admit it,    *)
(* its rule is Lambda.5 and SteerDrift can set a score of at least 0.5, or *)
(* its rule is Lambda.6 and an override of its intent is in force          *)
(* (Router.Admit, GRE1001.Run).                                            *)
THEOREM RefusalsHaveACause == Spec => []RefusedForCause
<1>1. ASSUME CauseInv, OverridesInv
      PROVE  RefusedForCause
  <2> SUFFICES ASSUME NEW t \in Threads, pc[t] = "done", Refusal(out[t])
               PROVE  \/ ~Admissible(req[t])
                      \/ out[t].rule = "Lambda.5" /\ \E v \in DriftScores : v >= 50
                      \/ out[t].rule = "Lambda.6" /\ Overrides(Intent(t)) # {}
    BY DEF RefusedForCause
  <2>1. \/ ~Vetted(req[t])
        \/ out[t].rule = "Lambda.5" /\ \E v \in DriftScores : v >= 50
        \/ out[t].rule = "Lambda.6"
    BY <1>1 DEF CauseInv, Caused, Concluded
  <2>2. out[t].rule = "Lambda.6" => Overrides(Intent(t)) # {}
    BY <1>1 DEF OverridesInv, ScopedInv, Told
  <2>3. QED
    BY <2>1, <2>2, GatesAreThePolicy
<1>2. QED
  BY <1>1, CauseInvariant, OverridesInvariant, PTL

-----------------------------------------------------------------------------
(* A service that neither an operator nor the drift score disturbs. *)

(* No operator token is set and no score that may be set reaches the limit.*)
Unattended == Missing(OperatorToken) /\ \A v \in DriftScores : v < 50

NoOverrides == interrupt = {} /\ corrected = {} /\ terminate = {}

LEMMA NextNoOverrides ==
  ASSUME Unattended, AcceptedInv, NoOverrides, [Next]_vars
  PROVE  NoOverrides'
<1>1. ASSUME NEW o \in Operators
      PROVE  ~StoreOverride(o)
  <2>1. \A h : ~Authorized(h)
    BY DEF Unattended, Missing, Authorized
  <2>2. opc[o] # "flag"
    BY <2>1 DEF AcceptedInv, Accepted
  <2>3. QED
    BY <2>2 DEF StoreOverride
<1>2. ASSUME NEW t \in Threads, RejectMalformed(t) \/ RouteHandler(t) \/ RunWorkflow(t)
      PROVE  UNCHANGED interruptVars
  BY <1>2 DEF RejectMalformed, RouteHandler, RunWorkflow, Turned, Call
<1>3. ASSUME NEW t \in Threads, ThreadStep(t)
      PROVE  UNCHANGED interruptVars
  BY <1>3 DEF ThreadStep, CheckLedger, CheckTerminated, CheckInterrupted, GREGates, GRETerminated,
     GREInterrupted, GRECorrection, ProviderGates, FinalTerminated, FinalCorrection,
     FinalInterrupted, Receive, TimeOut, Gate, RecheckTerminated, RecheckInterrupted, ForceState,
     FinalForce, ReadCurrent, TransitionToRunning, StartGenerate, WriteDecision, WriteExecution
<1>4. ASSUME NEW o \in Operators, OperatorHandler(o) \/ OperatorStep(o)
      PROVE  UNCHANGED interruptVars
  BY <1>1, <1>4 DEF OperatorHandler, OperatorStep, ForceOverride, operatorLedger, routerVars
<1>5. ASSUME NEW t \in Threads, ProviderReturns(t)
      PROVE  UNCHANGED interruptVars
  BY <1>5 DEF ProviderReturns
<1>6. ASSUME NEW v \in DriftScores, SteerDrift(v)
      PROVE  UNCHANGED interruptVars
  BY <1>6 DEF SteerDrift
<1>7. UNCHANGED vars => UNCHANGED interruptVars
  BY DEF vars, routerVars
<1>8. UNCHANGED interruptVars
  BY <1>2, <1>3, <1>4, <1>5, <1>6, <1>7 DEF Next, Quiescent, RequestStep
<1>9. QED
  BY <1>8 DEF interruptVars, NoOverrides

(* A /route request answered by the router was refused or admitted. *)
LEMMA RouteAnswers ==
  ASSUME NEW a, NEW g, Holds("done", "route", a, g), a.attempt # 0
  PROVE  Refusal(a) \/ a = Admit
BY DEF Holds, Gates, Admission, Execution

LEMMA RouteStatus ==
  ASSUME NEW t, Refusal(out[t]) \/ out[t] = Admit
  PROVE  Status(t) = 200 <=> out[t] = Admit
<1>1. ASSUME Refusal(out[t])
      PROVE  out[t] # Admit /\ Status(t) # 200
  <2>1. out[t].result \in {"DENY", "QUARANTINE"}
    BY <1>1 DEF Refusal
  <2>2. Admit.result = "ADMIT"
    BY DEF Admit, Answer
  <2>3. QED
    BY <2>1, <2>2 DEF Status
<1>2. ASSUME out[t] = Admit
      PROVE  Status(t) = 200
  <2>1. out[t].result = "ADMIT" /\ out[t].err \notin {"method", "malformed", "ErrInterrupted", "ErrTerminated"}
    <3>1. Admit.result = "ADMIT" /\ Admit.err = ""
      BY DEF Admit, Answer
    <3>2. QED
      BY <1>2, <3>1, Zenon
  <2>2. QED
    BY <2>1 DEF Status
<1>3. QED
  BY <1>1, <1>2

(* Its one entry in the ledger says which. *)
LEMMA RouteRecord ==
  ASSUME NEW t \in Threads, Once(t, DecisionBody(t)), Refusal(out[t]) \/ out[t] = Admit
  PROVE  Admitted(t) <=> out[t] = Admit
<1>1. PICK i \in Positions : Own(t) = {i} /\ Body(i) = DecisionBody(t)
  BY DEF Once
<1>2. Admit.result = "ADMIT" /\ Admit.attempt = 1
  BY DEF Admit, Answer
<1>3. Refusal(out[t]) => out[t].result # "ADMIT"
  BY DEF Refusal
<1>4. /\ Body(i).result = out[t].result /\ Body(i).id = <<t, out[t].attempt>>
      /\ Body(i).kind = "decision"
  BY <1>1 DEF DecisionBody
<1>5. ASSUME Admitted(t)
      PROVE  out[t] = Admit
  <2>1. PICK j \in Positions : IsAdmission(Body(j), t)
    BY <1>5 DEF Admitted
  <2>2. j \in Own(t)
    BY <2>1 DEF Own, OwnBody, IsAdmission
  <2>3. j = i
    BY <1>1, <2>2
  <2>4. QED
    BY <1>3, <1>4, <2>1, <2>3 DEF IsAdmission
<1>6. ASSUME out[t] = Admit
      PROVE  Admitted(t)
  BY <1>2, <1>4, <1>6 DEF Admitted, IsAdmission
<1>7. QED
  BY <1>5, <1>6

(* With no operator token set and the drift score below its limit, for any *)
(* tenants, lattice, providers and concurrent requests, a /route request   *)
(* is answered 200 exactly when it is recorded as admitted, and that       *)
(* exactly when the policy admits it, or only lacks a sovereign operator   *)
(* on the SAFE lane (Router.Admit, RouteHandler).                          *)
THEOREM RouteAppliesThePolicy == Unattended => (Spec => []AdmittedIffPolicy)
<1> SUFFICES ASSUME Unattended PROVE Spec => []AdmittedIffPolicy
  OBVIOUS
<1>1. Init => NoOverrides
  BY DEF Init, InterruptInit, NoOverrides
<1>2. OverridesInv /\ NoOverrides /\ [Next]_vars => NoOverrides'
  BY NextNoOverrides DEF OverridesInv
<1>3. ASSUME AnswersInv, OverridesInv, RecordsInv, VettingInv, CauseInv, NoOverrides
      PROVE  AdmittedIffPolicy
  <2> SUFFICES ASSUME NEW t \in Threads, pc[t] = "done", via[t] = "route", Governed(t)
               PROVE  /\ Status(t) = 200 <=> Admitted(t)
                      /\ Admissible(req[t]) => Admitted(t)
                      /\ Admitted(t) =>
                             /\ Permitted(req[t])
                             /\ Sovereign(req[t]) \/ (req[t].lane = "SAFE" /\ Unbound(req[t]))
    BY DEF AdmittedIffPolicy
  <2>1. out[t].attempt # 0
    BY DEF Governed
  <2>2. Holds("done", "route", out[t], gen[t])
    BY <1>3 DEF AnswersInv
  <2>3. Refusal(out[t]) \/ out[t] = Admit
    BY <2>1, <2>2, RouteAnswers
  <2>4. Once(t, DecisionBody(t))
    <3>1. out[t].attempt = 1
      <4>1. Admit.attempt = 1
        BY DEF Admit, Answer
      <4>2. Refusal(out[t]) => out[t].attempt = 1
        BY DEF Refusal
      <4>3. QED
        BY <2>3, <4>1, <4>2
    <3>2. QED
      BY <1>3, <3>1 DEF RecordsInv, RecordedInv, Recorded, Settled, Completed
  <2>5. out[t] = Admit => Vetted(req[t])
    <3>1. Admit.result = "ADMIT"
      BY DEF Admit, Answer
    <3>2. QED
      BY <1>3, <3>1 DEF VettingInv, Vets, Cleared
  <2>6. ASSUME Refusal(out[t])
        PROVE  ~Vetted(req[t])
    <3>1. Overrides(Intent(t)) = {}
      BY <1>3 DEF NoOverrides, Overrides
    <3>2. out[t].rule # "Lambda.6"
      BY <1>3, <3>1 DEF OverridesInv, ScopedInv, Told
    <3>3. ~ \E v \in DriftScores : v >= 50
      <4>1. DriftScores \subseteq Nat
        BY RequestsAssumption, Zenon
      <4>2. \A v \in DriftScores : v < 50
        BY Zenon DEF Unattended
      <4>3. \A v \in Nat : v < 50 => ~(v >= 50)
        OBVIOUS
      <4>4. QED
        BY <4>1, <4>2, <4>3, Zenon
    <3>4. QED
      BY <1>3, <2>6, <3>2, <3>3 DEF CauseInv, Caused, Concluded
  <2>7. out[t] = Admit <=> Vetted(req[t])
    BY <2>3, <2>5, <2>6
  <2>8. /\ Admissible(req[t]) => out[t] = Admit
        /\ out[t] = Admit =>
               /\ Permitted(req[t])
               /\ Sovereign(req[t]) \/ (req[t].lane = "SAFE" /\ Unbound(req[t]))
    <3>1. Vetted(req[t]) <=>
              Admissible(req[t]) \/ (Permitted(req[t]) /\ req[t].lane = "SAFE" /\ Unbound(req[t]))
      BY GatesAreThePolicy, Zenon
    <3>2. QED
      BY <2>7, <3>1, Zenon DEF Admissible
  <2>9. QED
    BY <2>3, <2>4, <2>8, RouteStatus, RouteRecord
<1>4. QED
  BY <1>1, <1>2, <1>3, AnswersInvariant, OverridesInvariant, RecordsInvariant, VettingInvariant,
     CauseInvariant, PTL DEF Spec

=============================================================================
