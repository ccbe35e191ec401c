----------------------------- MODULE MCServices -----------------------------
(* A small set of configuration files and of requests. *)
EXTENDS ServicesProperties, TLC

Tenant(id, lane, classes, operators) ==
    [tenantID |-> id, lane |-> lane, classes |-> classes, operators |-> operators,
     mistyped |-> {}]

Parsed(tenants) == [status |-> "parsed", tenants |-> tenants]

TenantA == Tenant("tenant-a", "SAFE", {<<"inference", "chat">>, <<"tools", "search">>}, <<"op-a">>)
TenantB == Tenant("tenant-b", "NORMAL", {<<"inference", "search">>, <<"tools", "chat">>}, <<"op-b">>)

MCFiles ==
    { Parsed(<<TenantA, TenantB>>),
      \* in another order
      Parsed(<<TenantB, TenantA>>),
      \* the other lane edited: another class, which names its action, no operator
      Parsed(<<Tenant("tenant-b", "NORMAL", {<<"inference", "chat", "ingest">>}, << >>), TenantA>>),
      \* the other lane's tenant removed
      Parsed(<<TenantA>>),
      \* both tenants on one lane
      Parsed(<<TenantA, Tenant("tenant-b", "SAFE", {<<"inference", "search">>}, <<"op-b">>)>>),
      \* one-part and three-part classes, those of a workflow included
      Parsed(<<Tenant("tenant-a", "SAFE", {<<"inference">>, <<"intake", "unstructured", "ingest">>},
                      <<"op-a", "op-b">>)>>),
      \* a tenant configured twice
      Parsed(<<[TenantA EXCEPT !.lane = "NORMAL"], TenantA>>),
      \* operator_ids of the wrong type
      Parsed(<<[TenantA EXCEPT !.mistyped = {"operators"}], TenantB>>),
      [status |-> "absent", tenants |-> << >>],
      [status |-> "syntax", tenants |-> << >>] }

Execute(class, scope) ==
    [class |-> class, scope |-> scope, action |-> "execute", risk |-> "low"]

MCRequests ==
    {[requestID |-> "req-1", tenant |-> tenant, lane |-> lane, cap |-> cap, intent |-> "intent-1",
      operator |-> operator, provider |-> "project-infinity", keyRef |-> "key-1",
      payload |-> TRUE] :
        tenant \in {"tenant-a", "tenant-b"}, lane \in {"SAFE", "NORMAL"},
        operator \in {"op-a", "op-b"},
        cap \in {Execute("inference", scope) : scope \in {"chat", "search", "default"}}
                \cup {Execute("tools", "search"),
                      [class |-> "intake", scope |-> "unstructured", action |-> "ingest",
                       risk |-> "low"]}}

MCProviders == ("project-infinity" :> "infinity")
=============================================================================
