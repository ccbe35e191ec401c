------------------------------ MODULE MCServer ------------------------------
(***************************************************************************)
(* Small instances of the router service.  Tenants, lanes and capabilities *)
(* follow the fixtures of test_helpers_test.go and workflow_test.go.       *)
(***************************************************************************)
EXTENDS ServerRefinement, TLC

Policy(id, lane, classes, sovereign) ==
    [tenantID |-> id, lane |-> lane, classes |-> classes, scopes |-> {},
     actions |-> {"ingest", "execute"}, risks |-> {"low", "medium"}, sovereign |-> sovereign]

(* tenant-a appears a second time, on another lane and with another        *)
(* sovereign, so that the order of the configuration matters; tenant-c and *)
(* tenant-d have no sovereign operator.                                    *)
MCTenants == << Policy("tenant-a", "SAFE", {"intake"}, "op-a"),
                Policy("tenant-b", "NORMAL", {"intake", "execution"}, "op-b"),
                Policy("tenant-c", "EXPRESS", {"intake"}, ""),
                Policy("tenant-a", "NORMAL", {"intake"}, "op-b"),
                Policy("tenant-d", "SAFE", {"intake"}, "") >>

MCLattice ==
    { [grant |-> WorkflowCapability("governed-intake"), lanes |-> {"SAFE", "NORMAL", "EXPRESS"}],
      [grant |-> WorkflowCapability("otem-execution"), lanes |-> {"NORMAL"}] }

MCProviders == [infinity |-> "infinity", fake |-> "fake", denying |-> "deny", failing |-> "fails"]

Request(tenant, lane, operator, intent, provider, keyRef, payload) ==
    [requestID |-> "req-1", tenant |-> tenant, lane |-> lane,
     cap |-> WorkflowCapability("governed-intake"), intent |-> intent, operator |-> operator,
     provider |-> provider, keyRef |-> keyRef, payload |-> payload]

GoodRequest == Request("tenant-a", "SAFE", "op-a", "intent-1", "infinity", "key-1", TRUE)

(* One request every gate admits. *)
AdmissibleRequests == {GoodRequest}

(* ... and one for another intent, one whose provider fails, one denied    *)
(* and one quarantined.                                                    *)
MixedRequests ==
    {GoodRequest,
     [GoodRequest EXCEPT !.intent = "intent-2"],
     [GoodRequest EXCEPT !.provider = "failing"],
     [GoodRequest EXCEPT !.tenant = "tenant-x"],
     [GoodRequest EXCEPT !.payload = FALSE]}

(* Every combination of the values the gates tell apart. *)
GateRequests ==
    {[Request(tenant, lane, operator, intent, provider, keyRef, payload) EXCEPT !.cap = cap] :
        tenant \in {"tenant-a", "tenant-b", "tenant-c", "tenant-d", "tenant-x", ""},
        lane \in {"SAFE", "NORMAL", "EXPRESS", "UNKNOWN"},
        operator \in {"op-a", "op-b", ""},
        intent \in {"intent-1", ""},
        provider \in {"infinity", "fake", "denying", "absent"},
        keyRef \in {"key-1", ""},
        payload \in BOOLEAN,
        cap \in {WorkflowCapability("governed-intake"), WorkflowCapability("otem-execution"),
                 Cap("intake", "", "ingest", "low")}}

(* Goroutines are interchangeable. *)
Symmetry == Permutations(Threads) \cup Permutations(Operators)

Bearer == [scheme |-> "Bearer", value |-> "token"]

Override(kind, intent, header) ==
    [kind |-> kind, intent |-> intent, operator |-> "op-a", directive |-> "re-plan",
     header |-> header]

(* The three overrides of the request's intent, all accepted. *)
AcceptedOverrides == {Override(k, "intent-1", Bearer) : k \in OverrideKinds}

(* ... with every other kind of header, and with a missing field each. *)
OperatorCalls ==
    AcceptedOverrides
    \cup {Override("terminate", "intent-1", h) :
            h \in {[scheme |-> "Bearer", value |-> "other"], [scheme |-> "Bearer", value |-> ""],
                   [scheme |-> "Basic", value |-> "token"], [scheme |-> "", value |-> ""]}}
    \cup {[Override("correct", "intent-1", Bearer) EXCEPT !.directive = ""],
          [Override("terminate", "intent-1", Bearer) EXCEPT !.operator = ""],
          Override("interrupt", "", Bearer)}

(* A call that meets an unset token with the empty credential. *)
CallsWithoutToken == {Override("terminate", "intent-1", [scheme |-> "Bearer", value |-> ""])}

OneInterrupt == {Override("interrupt", "intent-1", Bearer)}
=============================================================================
