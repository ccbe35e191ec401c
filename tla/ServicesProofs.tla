--------------------------- MODULE ServicesProofs ---------------------------
(***************************************************************************)
(* What the services make of any configuration file and any request, as    *)
(* facts of LoadConfig, Build and the gates for every file, and so of      *)
(* every state a sequence of edits, starts and exits can reach.            *)
(***************************************************************************)
EXTENDS ServicesProperties, WellFoundedInduction, TLAPS

(* A loop that returns the first match has one: a nonempty set of          *)
(* positions has a least element.                                          *)
LEMMA LeastElement ==
  ASSUME NEW S \in SUBSET Nat, S # {}
  PROVE  \E m \in S : \A k \in S : m <= k
<1> DEFINE R == OpToRel(<, Nat)
<1>1. PICK m \in S : \A k \in S : ~ (<<k, m>> \in R)
  <2>1. IsWellFoundedOn(R, Nat)
    BY NatLessThanWellFounded
  <2> HIDE DEF R
  <2>2. QED
    BY <2>1, WFMin
<1>2. \A k \in S : ~ (k < m)
  BY <1>1 DEF OpToRel
<1>3. QED
  BY <1>2

-----------------------------------------------------------------------------
(* The configuration. *)

LEMMA LoadedTenants ==
  ASSUME NEW f \in Files \cup {Down}
  PROVE  /\ DOMAIN LoadConfig(f) \subseteq Nat \ {0}
         /\ DOMAIN LoadConfig(f) # {} => f.status = "parsed"
         /\ \A i \in DOMAIN LoadConfig(f) :
               LoadConfig(f)[i].classes \subseteq Seq(STRING) \ {<< >>}
<1>1. CASE f.status # "parsed"
  <2>1. LoadConfig(f) = << >>
    BY <1>1 DEF LoadConfig
  <2>2. QED
    BY <2>1
<1>2. CASE f.status = "parsed"
  <2>1. f \in ConfigFiles
    BY <1>2, FilesAssumption DEF Down
  <2>2. LoadConfig(f) = [i \in DOMAIN f.tenants |-> Unmarshal(f.tenants[i])]
    BY <1>2 DEF LoadConfig
  <2>3. DOMAIN f.tenants \subseteq Nat \ {0}
    BY <2>1 DEF ConfigFiles
  <2>4. ASSUME NEW i \in DOMAIN f.tenants
        PROVE  f.tenants[i].classes \subseteq Seq(STRING) \ {<< >>}
    <3>1. f.tenants \in Seq(TenantConfigs)
      BY <2>1 DEF ConfigFiles
    <3>2. f.tenants[i] \in TenantConfigs
      BY <3>1
    <3>3. QED
      BY <3>2 DEF TenantConfigs
  <2>5. ASSUME NEW i \in DOMAIN f.tenants
        PROVE  Unmarshal(f.tenants[i]).classes \in {{}, f.tenants[i].classes}
    BY DEF Unmarshal
  <2>6. QED
    BY <1>2, <2>2, <2>3, <2>4, <2>5
<1>3. QED
  BY <1>1, <1>2

(* A grant of the lattice stands for a class that a tenant of its lane has *)
(* declared, and is for "execute" at low risk.                             *)
LEMMA GrantedWasDeclared ==
  ASSUME NEW f \in Files \cup {Down}, NEW r, CheckPasses(f, r)
  PROVE  /\ \E i \in DOMAIN LoadConfig(f) :
                LoadConfig(f)[i].lane = r.lane /\ Declares(LoadConfig(f)[i], r.cap)
         /\ r.cap.action = "execute" /\ r.cap.risk = "low"
<1>1. Gates(f)!capabilityGranted(r.cap, r.lane)
  BY DEF CheckPasses, Gates!USLCheck, Gates!Passed
<1>2. PICK g \in BuildLattice(LoadConfig(f)) : g.grant = r.cap /\ r.lane \in g.lanes
  BY <1>1 DEF Gates!capabilityGranted
<1>3. PICK i \in DOMAIN LoadConfig(f) :
           g \in {Grant(c, LoadConfig(f)[i].lane) : c \in LoadConfig(f)[i].classes}
  BY <1>2 DEF BuildLattice
<1>4. PICK c \in LoadConfig(f)[i].classes : g = Grant(c, LoadConfig(f)[i].lane)
  BY <1>3
<1>5. /\ g.lanes = {LoadConfig(f)[i].lane} /\ g.grant.class = c[1]
      /\ g.grant.scope = IF Len(c) >= 2 THEN c[2] ELSE "default"
      /\ g.grant.action = "execute" /\ g.grant.risk = "low"
  BY <1>4 DEF Grant
<1>6. Declares(LoadConfig(f)[i], r.cap)
  BY <1>2, <1>4, <1>5 DEF Declares
<1>7. QED
  BY <1>2, <1>5, <1>6

-----------------------------------------------------------------------------
(* The policy that decides. *)

(* What the loops over the tenants return, and what of it a test needs.    *)
First(At) == IF At = {} THEN 0 ELSE CHOOSE i \in At : \A j \in At : i <= j

LEMMA FirstFound ==
  ASSUME NEW At \in SUBSET (Nat \ {0})
  PROVE  /\ First(At) # 0 => First(At) \in At
         /\ \A k : At = {k} => First(At) = k
<1>1. ASSUME At # {}
      PROVE  First(At) \in At
  <2>1. At \in SUBSET Nat
    OBVIOUS
  <2>2. QED
    BY <1>1, <2>1, LeastElement DEF First
<1>2. At = {} => First(At) = 0
  BY DEF First
<1>3. QED
  BY <1>1, <1>2

(* Build, one tenant at a time. *)
PolicyOf(t) ==
    [tenantID  |-> t.tenantID,
     lane      |-> t.lane,
     classes   |-> Parts(t.classes, 1),
     scopes    |-> Parts(t.classes, 2),
     actions   |-> IF Parts(t.classes, 3) = {} THEN DefaultActions ELSE Parts(t.classes, 3),
     risks     |-> {},
     sovereign |-> IF t.operators = << >> THEN "" ELSE t.operators[1]]

LEMMA PolicyByTenant ==
  ASSUME NEW tenants
  PROVE  BuildPolicies(tenants) = [i \in DOMAIN tenants |-> PolicyOf(tenants[i])]
BY DEF BuildPolicies, PolicyOf

LEMMA PolicyFields ==
  ASSUME NEW t
  PROVE  /\ PolicyOf(t).tenantID = t.tenantID
         /\ PolicyOf(t).lane = t.lane
         /\ PolicyOf(t).classes = Parts(t.classes, 1)
BY DEF PolicyOf

Missing(field) == field = ""

(* The two lookups: findTenant's, and the one of Lambda.4.                 *)
Named(tenants, r) == {k \in DOMAIN tenants : tenants[k].tenantID = r.tenant}
NamedOnLane(tenants, r) ==
    {k \in DOMAIN tenants : tenants[k].tenantID = r.tenant /\ tenants[k].lane = r.lane}

LEMMA Lookups ==
  ASSUME NEW f, NEW r
  PROVE  /\ Gates(f)!findTenant(r.tenant) = First(Named(LoadConfig(f), r))
         /\ Gates(f)!FirstPolicy(LAMBDA t : t.tenantID = r.tenant /\ t.lane = r.lane)
                = First(NamedOnLane(LoadConfig(f), r))
<1> DEFINE T == LoadConfig(f)
           P == BuildPolicies(T)
<1>1. /\ DOMAIN P = DOMAIN T
      /\ \A k \in DOMAIN T : P[k].tenantID = T[k].tenantID /\ P[k].lane = T[k].lane
  <2> HIDE DEF T
  <2>1. QED
    BY PolicyByTenant, PolicyFields
<1>2. {k \in DOMAIN P : P[k].tenantID = r.tenant} = Named(T, r)
  <2> HIDE DEF T, P
  <2>1. QED
    BY <1>1 DEF Named
<1>3. {k \in DOMAIN P : P[k].tenantID = r.tenant /\ P[k].lane = r.lane} = NamedOnLane(T, r)
  <2> HIDE DEF T, P
  <2>1. QED
    BY <1>1 DEF NamedOnLane
<1>4. Gates(f)!findTenant(r.tenant) = First({k \in DOMAIN P : P[k].tenantID = r.tenant})
  BY DEF Gates!findTenant, Gates!FirstPolicy, First
<1>5. Gates(f)!FirstPolicy(LAMBDA t : t.tenantID = r.tenant /\ t.lane = r.lane)
         = First({k \in DOMAIN P : P[k].tenantID = r.tenant /\ P[k].lane = r.lane})
  BY DEF Gates!FirstPolicy, First
<1>6. QED
  BY <1>2, <1>3, <1>4, <1>5, Zenon

(* The USL gate, as the conjunction of what it asks. *)
LEMMA GateAsks ==
  ASSUME NEW f, NEW r, NEW i, i = First(Named(LoadConfig(f), r)),
         NEW P, P = BuildPolicies(LoadConfig(f))
  PROVE  CheckPasses(f, r) <=>
             /\ i # 0
             /\ P[i].lane = r.lane
             /\ Gates(f)!capabilityGranted(r.cap, r.lane)
             /\ Gates(Down)!Allows(P[i], r.cap)
             /\ ~Missing(r.operator)
BY Lookups DEF CheckPasses, Gates!USLCheck, Gates!Passed, Gates!Allows, Missing

(* The policy that decides is the request's own tenant's. *)
LEMMA OwnTenantAllows ==
  ASSUME NEW f \in Files \cup {Down}, NEW r, CheckPasses(f, r)
  PROVE  \E i \in DOMAIN LoadConfig(f) :
             /\ LoadConfig(f)[i].tenantID = r.tenant /\ LoadConfig(f)[i].lane = r.lane
             /\ \E c \in LoadConfig(f)[i].classes : c[1] = r.cap.class
<1> DEFINE T == LoadConfig(f)
           P == BuildPolicies(T)
           i == First(Named(T, r))
<1>1. i # 0 /\ P[i].lane = r.lane /\ r.cap.class \in P[i].classes
  BY GateAsks DEF Gates!Allows
<1>2. i \in Named(T, r)
  <2>1. Named(T, r) \in SUBSET (Nat \ {0})
    BY LoadedTenants DEF Named
  <2>2. QED
    BY <1>1, <2>1, FirstFound
<1>3. i \in DOMAIN T /\ T[i].tenantID = r.tenant
  BY <1>2 DEF Named
<1>4. P[i] = PolicyOf(T[i])
  <2> HIDE DEF T, i
  <2>1. QED
    BY <1>3, PolicyByTenant
<1>5. T[i].lane = r.lane /\ \E c \in T[i].classes : c[1] = r.cap.class
  <2> HIDE DEF T, P, i
  <2>1. QED
    BY <1>1, <1>4, PolicyFields DEF Parts
<1>6. QED
  BY <1>3, <1>5

-----------------------------------------------------------------------------
(* The services. *)

(* Each service asks more than the one before it. *)
LEMMA RouterAsksMore ==
  ASSUME NEW f, NEW r
  PROVE  /\ RouteAdmits(f, r) => RunAccepts(f, r)
         /\ RunAccepts(f, r) => CheckPasses(f, r)
<1>1. RouteAdmits(f, r) => RunAccepts(f, r)
  BY DEF RouteAdmits
<1>2. ASSUME RunAccepts(f, r)
      PROVE  CheckPasses(f, r)
  <2>1. Gates(f)!StagesToDrift(r, 0) = Gates(f)!Passed
    BY <1>2 DEF RunAccepts
  <2>2. QED
    BY <2>1 DEF Gates!StagesToDrift, Gates!Then, Gates!Passed, CheckPasses
<1>3. QED
  BY <1>1, <1>2

LEMMA AcceptedPassesGate ==
  ASSUME NEW s, NEW r, Accepts(s, r)
  PROVE  mode[s] # Down /\ CheckPasses(mode[s], r)
BY RouterAsksMore DEF Accepts, AcceptsOn

(* The file in place and the files the services run on are known ones:     *)
(* all that these proofs need of the state.                                *)
ServicesTypeOK == file \in Files /\ mode \in [ServiceModes -> Files \cup {Down}]

LEMMA ServicesTypeCorrect == Spec => []ServicesTypeOK
<1>1. Init => ServicesTypeOK
  BY DEF Init, ServicesTypeOK
<1>2. ServicesTypeOK /\ [Next]_vars => ServicesTypeOK'
  BY DEF ServicesTypeOK, Next, vars, RunService, Exit, Edit
<1>3. QED
  BY <1>1, <1>2, PTL DEF Spec

(* For every file: what a service accepts, Build has taken from a class    *)
(* that some tenant of the request's lane declares, and the request's own  *)
(* tenant declares the class; it is for "execute" at low risk.             *)
THEOREM OnlyDeclaredIsAccepted == Spec => []AcceptedWasDeclared
<1>1. ASSUME ServicesTypeOK
      PROVE  AcceptedWasDeclared
  <2>1. SUFFICES ASSUME NEW s \in ServiceModes, NEW r \in Requests, Accepts(s, r)
                 PROVE  /\ \E i \in DOMAIN Tenants(s) :
                              Tenants(s)[i].lane = r.lane /\ Declares(Tenants(s)[i], r.cap)
                        /\ \E i \in DOMAIN Tenants(s) :
                              /\ Tenants(s)[i].tenantID = r.tenant /\ Tenants(s)[i].lane = r.lane
                              /\ \E c \in Tenants(s)[i].classes : c[1] = r.cap.class
                        /\ r.cap.action = "execute" /\ r.cap.risk = "low"
    BY DEF AcceptedWasDeclared
  <2>2. mode[s] \in Files \cup {Down} /\ CheckPasses(mode[s], r)
    BY <1>1, <2>1, AcceptedPassesGate DEF ServicesTypeOK
  <2>3. QED
    BY <2>2, GrantedWasDeclared, OwnTenantAllows DEF Tenants
<1>2. QED
  BY <1>1, ServicesTypeCorrect, PTL

(* A service that found no file, or no JSON in it, accepts nothing: Build  *)
(* makes no policy and no grant out of it.                                 *)
THEOREM UnreadableFailsClosed == Spec => []UnreadableAdmitsNothing
<1>1. ASSUME ServicesTypeOK
      PROVE  UnreadableAdmitsNothing
  <2>1. SUFFICES ASSUME NEW s \in ServiceModes, NEW r \in Requests, Accepts(s, r)
                 PROVE  mode[s].status = "parsed"
    BY DEF UnreadableAdmitsNothing
  <2>2. mode[s] \in Files \cup {Down} /\ CheckPasses(mode[s], r)
    BY <1>1, <2>1, AcceptedPassesGate DEF ServicesTypeOK
  <2>3. QED
    BY <2>2, OwnTenantAllows, LoadedTenants
<1>2. QED
  BY <1>1, ServicesTypeCorrect, PTL

WorkflowsNeverGranted ==
    \A s \in ServiceModes, w \in Gates(Down)!WorkflowIDs, r \in Requests :
        ~Accepts(s, Gates(Down)!BindWorkflow(w, r))

(* Where code and documents disagree: README.md presents four workflows    *)
(* for tenants to use, and no configuration file whatever lets any of them *)
(* through, as all that Build grants is "execute" at low risk, which none  *)
(* of them binds.                                                          *)
THEOREM NoFileGrantsWorkflows == Spec => []WorkflowsNeverGranted
<1>1. ASSUME ServicesTypeOK
      PROVE  WorkflowsNeverGranted
  <2>1. SUFFICES ASSUME NEW s \in ServiceModes, NEW w \in Gates(Down)!WorkflowIDs,
                        NEW r \in Requests, Accepts(s, Gates(Down)!BindWorkflow(w, r))
                 PROVE  FALSE
    BY DEF WorkflowsNeverGranted
  <2> DEFINE b == Gates(Down)!BindWorkflow(w, r)
  <2>2. b.cap = Gates(Down)!WorkflowCapability(w)
    BY CapabilityAssumption DEF Gates!BindWorkflow
  <2> HIDE DEF b
  <2>3. mode[s] \in Files \cup {Down} /\ CheckPasses(mode[s], b)
    BY <1>1, <2>1, AcceptedPassesGate DEF ServicesTypeOK, b
  <2>4. b.cap.action = "execute" /\ b.cap.risk = "low"
    BY <2>3, GrantedWasDeclared
  <2>5. ~(b.cap.action = "execute" /\ b.cap.risk = "low")
    BY <2>2 DEF Gates!WorkflowIDs, Gates!WorkflowCapability, Gates!Cap
  <2>6. QED
    BY <2>4, <2>5
<1>2. QED
  BY <1>1, ServicesTypeCorrect, PTL

-----------------------------------------------------------------------------
(* Lanes. *)

(* What the gates ask of the tenants of a request's own lane. *)
LanePasses(ts, r) ==
    /\ \E t \in ts : t.tenantID = r.tenant /\ Gates(Down)!Allows(PolicyOf(t), r.cap)
    /\ \E t \in ts : \E c \in t.classes : Grant(c, r.lane).grant = r.cap
    /\ ~Missing(r.operator)

Sovereign(p, r) == Missing(p.sovereign) \/ p.sovereign = r.operator

LaneGoverns(ts, r) == \E t \in ts : t.tenantID = r.tenant /\ Sovereign(PolicyOf(t), r)

LEMMA GrantedOnLane ==
  ASSUME NEW f, NEW cap, NEW lane
  PROVE  Gates(f)!capabilityGranted(cap, lane) <=>
             \E t \in OnLane(LoadConfig(f), lane) : \E c \in t.classes : Grant(c, lane).grant = cap
<1> DEFINE T == LoadConfig(f)
           L == BuildLattice(T)
<1>1. Gates(f)!capabilityGranted(cap, lane) <=> \E g \in L : g.grant = cap /\ lane \in g.lanes
  BY DEF Gates!capabilityGranted
<1> HIDE DEF T
<1>2. \A g : g \in L <=> \E i \in DOMAIN T : \E c \in T[i].classes : g = Grant(c, T[i].lane)
  BY DEF BuildLattice
<1>3. \A c, l : Grant(c, l).lanes = {l}
  BY DEF Grant
<1> HIDE DEF L
<1>4. (\E g \in L : g.grant = cap /\ lane \in g.lanes) <=>
      \E i \in DOMAIN T : T[i].lane = lane /\ \E c \in T[i].classes : Grant(c, lane).grant = cap
  <2>1. ASSUME NEW g \in L, g.grant = cap, lane \in g.lanes
        PROVE  \E i \in DOMAIN T : T[i].lane = lane /\ \E c \in T[i].classes : Grant(c, lane).grant = cap
    <3>1. PICK i \in DOMAIN T : \E c \in T[i].classes : g = Grant(c, T[i].lane)
      BY <1>2
    <3>2. PICK c \in T[i].classes : g = Grant(c, T[i].lane)
      BY <3>1
    <3>3. QED
      BY <1>3, <2>1, <3>2
  <2>2. ASSUME NEW i \in DOMAIN T, T[i].lane = lane, NEW c \in T[i].classes, Grant(c, lane).grant = cap
        PROVE  \E g \in L : g.grant = cap /\ lane \in g.lanes
    <3>1. Grant(c, lane) \in L
      BY <1>2, <2>2
    <3>2. QED
      BY <1>3, <2>2, <3>1
  <2>3. QED
    BY <2>1, <2>2
<1>5. QED
  BY <1>1, <1>4 DEF OnLane, T

(* With unique ids the first policy of a tenant is its only one. *)
LEMMA OnlyPolicy ==
  ASSUME NEW f \in Files \cup {Down}, NEW r, UniqueIDs(LoadConfig(f))
  PROVE  /\ Named(LoadConfig(f), r) \in SUBSET (Nat \ {0})
         /\ NamedOnLane(LoadConfig(f), r) \in SUBSET (Nat \ {0})
         /\ \A k \in Named(LoadConfig(f), r) : First(Named(LoadConfig(f), r)) = k
         /\ \A k \in NamedOnLane(LoadConfig(f), r) : First(NamedOnLane(LoadConfig(f), r)) = k
<1> DEFINE T == LoadConfig(f)
<1>1. DOMAIN T \subseteq Nat \ {0}
  BY LoadedTenants
<1>2. \A k \in Named(T, r) : Named(T, r) = {k}
  BY DEF UniqueIDs, Named
<1>3. \A k \in NamedOnLane(T, r) : NamedOnLane(T, r) = {k}
  BY DEF UniqueIDs, NamedOnLane
<1>4. Named(T, r) \in SUBSET (Nat \ {0}) /\ NamedOnLane(T, r) \in SUBSET (Nat \ {0})
  BY <1>1 DEF Named, NamedOnLane
<1> HIDE DEF T
<1>5. QED
  BY <1>2, <1>3, <1>4, FirstFound DEF T

LEMMA LaneDecidesGate ==
  ASSUME NEW f \in Files \cup {Down}, NEW r, UniqueIDs(LoadConfig(f))
  PROVE  CheckPasses(f, r) <=> LanePasses(OnLane(LoadConfig(f), r.lane), r)
<1> DEFINE T == LoadConfig(f)
           P == BuildPolicies(T)
           i == First(Named(T, r))
           granted == Gates(f)!capabilityGranted(r.cap, r.lane)
           Fits(p) == Gates(Down)!Allows(p, r.cap)
<1>1. CheckPasses(f, r) <=>
          i # 0 /\ P[i].lane = r.lane /\ granted /\ Fits(P[i]) /\ ~Missing(r.operator)
  BY GateAsks
<1>2. granted <=> \E t \in OnLane(T, r.lane) : \E c \in t.classes : Grant(c, r.lane).grant = r.cap
  BY GrantedOnLane
<1>3. /\ Named(T, r) \in SUBSET (Nat \ {0})
      /\ \A k \in Named(T, r) : i = k
  BY OnlyPolicy
<1>4. i # 0 => i \in Named(T, r)
  BY <1>3, FirstFound
<1> HIDE DEF granted, Fits, T
<1>5. \A k \in DOMAIN T : P[k] = PolicyOf(T[k]) /\ P[k].lane = T[k].lane
  BY PolicyByTenant, PolicyFields
<1> HIDE DEF P, i
<1>6. i # 0 /\ P[i].lane = r.lane /\ Fits(P[i]) <=>
      \E t \in OnLane(T, r.lane) : t.tenantID = r.tenant /\ Fits(PolicyOf(t))
  <2>1. ASSUME i # 0, P[i].lane = r.lane, Fits(P[i])
        PROVE  \E t \in OnLane(T, r.lane) : t.tenantID = r.tenant /\ Fits(PolicyOf(t))
    <3>1. i \in DOMAIN T /\ T[i].tenantID = r.tenant
      BY <1>4, <2>1 DEF Named
    <3>2. T[i] \in OnLane(T, r.lane) /\ Fits(PolicyOf(T[i]))
      BY <1>5, <2>1, <3>1 DEF OnLane
    <3>3. QED
      BY <3>1, <3>2
  <2>2. ASSUME NEW t \in OnLane(T, r.lane), t.tenantID = r.tenant, Fits(PolicyOf(t))
        PROVE  i # 0 /\ P[i].lane = r.lane /\ Fits(P[i])
    <3>1. PICK k \in DOMAIN T : T[k].lane = r.lane /\ t = T[k]
      BY <2>2 DEF OnLane
    <3>2. k \in Named(T, r)
      BY <2>2, <3>1 DEF Named
    <3>3. i = k /\ k # 0
      BY <1>3, <3>2
    <3>4. QED
      BY <1>5, <2>2, <3>1, <3>3
  <2>3. QED
    BY <2>1, <2>2
<1>7. QED
  BY <1>1, <1>2, <1>6 DEF LanePasses, Fits, T

LEMMA LaneDecidesSovereign ==
  ASSUME NEW f \in Files \cup {Down}, NEW r, UniqueIDs(LoadConfig(f))
  PROVE  Gates(f)!checkLambda4(r) = Gates(f)!Passed <=>
             LaneGoverns(OnLane(LoadConfig(f), r.lane), r)
<1> DEFINE T == LoadConfig(f)
           P == BuildPolicies(T)
           i == First(NamedOnLane(T, r))
<1>1. Gates(f)!checkLambda4(r) = Gates(f)!Passed <=> i # 0 /\ Sovereign(P[i], r)
  <2>1. i # 0 /\ P[i].sovereign \in {"", r.operator} <=> i # 0 /\ Sovereign(P[i], r)
    BY DEF Sovereign, Missing
  <2>2. Gates(f)!FirstPolicy(LAMBDA t : t.tenantID = r.tenant /\ t.lane = r.lane) = i
    BY Lookups
  <2> HIDE DEF i, P
  <2>3. Gates(f)!checkLambda4(r) =
            IF i # 0 /\ P[i].sovereign \in {"", r.operator} THEN Gates(f)!Passed ELSE "Lambda.4"
    BY <2>2 DEF Gates!checkLambda4, P, T
  <2>4. Gates(f)!Passed # "Lambda.4"
    BY DEF Gates!Passed
  <2>5. QED
    BY <2>1, <2>3, <2>4
<1>3. /\ NamedOnLane(T, r) \in SUBSET (Nat \ {0})
      /\ \A k \in NamedOnLane(T, r) : i = k
  BY OnlyPolicy
<1>4. i # 0 => i \in NamedOnLane(T, r)
  BY <1>3, FirstFound
<1> HIDE DEF T
<1>5. \A k \in DOMAIN T : P[k] = PolicyOf(T[k])
  BY PolicyByTenant
<1> HIDE DEF P, i
<1>6. ASSUME i # 0, Sovereign(P[i], r)
      PROVE  LaneGoverns(OnLane(T, r.lane), r)
  <2>1. i \in DOMAIN T /\ T[i].tenantID = r.tenant /\ T[i].lane = r.lane
    BY <1>4, <1>6 DEF NamedOnLane
  <2>2. T[i] \in OnLane(T, r.lane) /\ Sovereign(PolicyOf(T[i]), r)
    BY <1>5, <1>6, <2>1 DEF OnLane
  <2>3. QED
    BY <2>1, <2>2 DEF LaneGoverns
<1>7. ASSUME NEW t \in OnLane(T, r.lane), t.tenantID = r.tenant, Sovereign(PolicyOf(t), r)
      PROVE  i # 0 /\ Sovereign(P[i], r)
  <2>1. PICK k \in DOMAIN T : T[k].lane = r.lane /\ t = T[k]
    BY <1>7 DEF OnLane
  <2>2. i = k /\ k # 0
    BY <1>3, <1>7, <2>1 DEF NamedOnLane
  <2>3. QED
    BY <1>5, <1>7, <2>1, <2>2
<1>8. QED
  BY <1>1, <1>6, <1>7 DEF LaneGoverns, T

(* The other stages look at the request alone. *)
LEMMA RequestStages ==
  ASSUME NEW f, NEW g, NEW r
  PROVE  /\ Gates(f)!stageInputValidation(r) = Gates(g)!stageInputValidation(r)
         /\ Gates(f)!stageCapabilityCheck(r) = Gates(g)!stageCapabilityCheck(r)
         /\ Gates(f)!StagesAfterCorrigibility(r) = Gates(g)!StagesAfterCorrigibility(r)
         /\ Gates(f)!stageDriftCheck(0) = Gates(g)!stageDriftCheck(0)
         /\ Gates(f)!Passed = Gates(g)!Passed
BY DEF Gates!stageInputValidation, Gates!stageCapabilityCheck, Gates!StagesAfterCorrigibility,
   Gates!stageAuditTrail, Gates!stageLedgerWrite, Gates!stageDriftCheck, Gates!Then, Gates!Passed

LEMMA PipelineAsks ==
  ASSUME NEW f, NEW r
  PROVE  RunAccepts(f, r) <=>
             /\ Gates(f)!stageInputValidation(r) = Gates(f)!Passed
             /\ Gates(f)!stageCapabilityCheck(r) = Gates(f)!Passed
             /\ Gates(f)!checkLambda4(r) = Gates(f)!Passed
             /\ CheckPasses(f, r)
             /\ Gates(f)!stageDriftCheck(0) = Gates(f)!Passed
             /\ Gates(f)!StagesAfterCorrigibility(r) = Gates(f)!Passed
BY DEF RunAccepts, CheckPasses, Gates!StagesToDrift, Gates!Then

(* The router's own gate, as the conjunction of what it asks. *)
LEMMA RouterAsks ==
  ASSUME NEW f, NEW r
  PROVE  RouteAdmits(f, r) <=>
             /\ RunAccepts(f, r)
             /\ \/ Gates(f)!Classify(r) = "ALLOW"
                \/ Gates(f)!Classify(r) \in {"CLAMP", "REROUTE"} /\ Gates(f)!SovereignApproves(r)
             /\ r.provider \in DOMAIN Providers
             /\ Gates(f)!AdapterAccepts(r)
BY DEF RouteAdmits, Gates!ProviderGate, Gates!ImmuneAllows

LEMMA RouterLooksAtRequest ==
  ASSUME NEW f, NEW g, NEW r
  PROVE  /\ Gates(f)!Classify(r) = Gates(g)!Classify(r)
         /\ Gates(f)!AdapterAccepts(r) <=> Gates(g)!AdapterAccepts(r)
BY DEF Gates!Classify, Gates!AdapterAccepts

LaneApproves(ts, r) == \E t \in ts : t.tenantID = r.tenant /\ PolicyOf(t).sovereign = r.operator

(* Past the USL gate the tenant is on the request's lane, so that its      *)
(* sovereign is the one the lane's own entries name.                       *)
LEMMA LaneDecidesApproval ==
  ASSUME NEW f \in Files \cup {Down}, NEW r, UniqueIDs(LoadConfig(f)), CheckPasses(f, r)
  PROVE  Gates(f)!SovereignApproves(r) <=> LaneApproves(OnLane(LoadConfig(f), r.lane), r)
<1> DEFINE T == LoadConfig(f)
           P == BuildPolicies(T)
           i == First(Named(T, r))
<1>1. i # 0 /\ P[i].lane = r.lane
  BY GateAsks
<1>2. Gates(f)!SovereignApproves(r) <=> i # 0 /\ P[i].sovereign = r.operator
  BY Lookups DEF Gates!SovereignApproves
<1>3. /\ Named(T, r) \in SUBSET (Nat \ {0})
      /\ \A k \in Named(T, r) : i = k
  BY OnlyPolicy
<1>4. i \in Named(T, r)
  BY <1>1, <1>3, FirstFound
<1> HIDE DEF T
<1>5. \A k \in DOMAIN T : P[k] = PolicyOf(T[k]) /\ P[k].lane = T[k].lane
  BY PolicyByTenant, PolicyFields
<1> HIDE DEF P, i
<1>6. T[i] \in OnLane(T, r.lane) /\ T[i].tenantID = r.tenant /\ P[i] = PolicyOf(T[i])
  BY <1>1, <1>4, <1>5 DEF Named, OnLane
<1>7. ASSUME NEW t \in OnLane(T, r.lane), t.tenantID = r.tenant
      PROVE  t = T[i]
  <2>1. PICK k \in DOMAIN T : T[k].lane = r.lane /\ t = T[k]
    BY <1>7 DEF OnLane
  <2>2. QED
    BY <1>3, <1>7, <2>1 DEF Named
<1>8. QED
  BY <1>1, <1>2, <1>6, <1>7 DEF LaneApproves, T

(* With unique ids the answers on a lane grow with the lane's tenants. *)
LEMMA LaneOrder ==
  ASSUME NEW f \in Files \cup {Down}, NEW g \in Files \cup {Down}, NEW r,
         UniqueIDs(LoadConfig(f)), UniqueIDs(LoadConfig(g)),
         OnLane(LoadConfig(f), r.lane) \subseteq OnLane(LoadConfig(g), r.lane),
         NEW s, AcceptsOn(s, f, r)
  PROVE  AcceptsOn(s, g, r)
<1> DEFINE F == OnLane(LoadConfig(f), r.lane)
           G == OnLane(LoadConfig(g), r.lane)
<1>1. /\ LanePasses(F, r) => LanePasses(G, r)
      /\ LaneGoverns(F, r) => LaneGoverns(G, r)
      /\ LaneApproves(F, r) => LaneApproves(G, r)
  <2>1. F \subseteq G
    OBVIOUS
  <2> HIDE DEF F, G
  <2>2. QED
    BY <2>1, Zenon DEF LanePasses, LaneGoverns, LaneApproves
<1>2. CheckPasses(f, r) => CheckPasses(g, r)
  BY <1>1, LaneDecidesGate
<1>3. Gates(f)!checkLambda4(r) = Gates(f)!Passed => Gates(g)!checkLambda4(r) = Gates(g)!Passed
  BY <1>1, LaneDecidesSovereign
<1>4. RunAccepts(f, r) => RunAccepts(g, r)
  BY <1>2, <1>3, PipelineAsks, RequestStages
<1>5. ASSUME RouteAdmits(f, r)
      PROVE  RouteAdmits(g, r)
  <2>1. RunAccepts(f, r) /\ CheckPasses(f, r)
    BY <1>5, RouterAsksMore
  <2>2. Gates(f)!SovereignApproves(r) => Gates(g)!SovereignApproves(r)
    BY <1>1, <1>2, <2>1, LaneDecidesApproval
  <2>3. QED
    BY <1>4, <1>5, <2>1, <2>2, RouterAsks, RouterLooksAtRequest
<1>6. QED
  BY <1>2, <1>4, <1>5 DEF AcceptsOn

(* For any two files with unique tenant ids that agree on a lane: an edit  *)
(* elsewhere changes no answer of the USL gate, GRE-1001 or the router on  *)
(* it, although Build puts all grants into one lattice.                    *)
THEOREM EditsStayOnTheirLane == Spec => []LanesAreIsolated
<1>1. ASSUME ServicesTypeOK
      PROVE  LanesAreIsolated
  <2>1. file \in Files /\ \A s \in ServiceModes : mode[s] \in Files \cup {Down}
    BY <1>1 DEF ServicesTypeOK
  <2>2. SUFFICES ASSUME NEW s \in ServiceModes, NEW r \in Requests, mode[s] # Down,
                        UniqueIDs(LoadConfig(file)), UniqueIDs(Tenants(s)),
                        OnLane(LoadConfig(file), r.lane) = OnLane(Tenants(s), r.lane)
                 PROVE  AcceptsOn(s, file, r) = Accepts(s, r)
    BY DEF LanesAreIsolated
  <2>3. AcceptsOn(s, file, r) <=> AcceptsOn(s, mode[s], r)
    BY <2>1, <2>2, LaneOrder DEF Tenants
  <2>4. AcceptsOn(s, file, r) \in BOOLEAN /\ AcceptsOn(s, mode[s], r) \in BOOLEAN
    BY DEF AcceptsOn
  <2>5. QED
    BY <2>2, <2>3, <2>4 DEF Accepts
<1>2. QED
  BY <1>1, ServicesTypeCorrect, PTL

(* For any two files with unique tenant ids, one of which has only tenants *)
(* of the other: no service accepts on it what it refuses on the other.    *)
(* Withdrawing tenants never opens a gate, in any order of edits, starts   *)
(* and exits.                                                              *)
THEOREM RemovalNeverOpens == Spec => []RemovalOnlyRefuses
<1>1. ASSUME ServicesTypeOK
      PROVE  RemovalOnlyRefuses
  <2>1. file \in Files /\ \A s \in ServiceModes : mode[s] \in Files \cup {Down}
    BY <1>1 DEF ServicesTypeOK
  <2>2. SUFFICES ASSUME NEW s \in ServiceModes, NEW r \in Requests, mode[s] # Down,
                        UniqueIDs(LoadConfig(file)), UniqueIDs(Tenants(s)),
                        Listed(LoadConfig(file)) \subseteq Listed(Tenants(s)),
                        AcceptsOn(s, file, r)
                 PROVE  AcceptsOn(s, mode[s], r)
    BY DEF RemovalOnlyRefuses, Accepts
  <2>3. \A ts : OnLane(ts, r.lane) = {t \in Listed(ts) : t.lane = r.lane}
    BY DEF OnLane, Listed
  <2>4. OnLane(LoadConfig(file), r.lane) \subseteq OnLane(Tenants(s), r.lane)
    BY <2>2, <2>3
  <2>5. QED
    BY <2>1, <2>2, <2>4, LaneOrder DEF Tenants
<1>2. QED
  BY <1>1, ServicesTypeCorrect, PTL
=============================================================================
