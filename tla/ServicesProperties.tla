------------------------- MODULE ServicesProperties -------------------------
(***************************************************************************)
(* What the services make of a configuration file.                         *)
(***************************************************************************)
EXTENDS Services

CONSTANT Requests   \* the requests put to the services

ASSUME CapabilityAssumption == \A r \in Requests : "cap" \in DOMAIN r

(* The tenants service s knows. *)
Tenants(s) == LoadConfig(mode[s])

Declares(tenant, cap) ==
    \E c \in tenant.classes :
        c[1] = cap.class /\ cap.scope = IF Len(c) >= 2 THEN c[2] ELSE "default"

(* Whatever a service accepts, some tenant of the request's lane has       *)
(* declared class and scope, the request's own tenant has declared the     *)
(* class, and it is for the action "execute" at low risk (Build).          *)
AcceptedWasDeclared ==
    \A s \in ServiceModes, r \in Requests : Accepts(s, r) =>
        /\ \E i \in DOMAIN Tenants(s) :
              Tenants(s)[i].lane = r.lane /\ Declares(Tenants(s)[i], r.cap)
        /\ \E i \in DOMAIN Tenants(s) :
              /\ Tenants(s)[i].tenantID = r.tenant /\ Tenants(s)[i].lane = r.lane
              /\ \E c \in Tenants(s)[i].classes : c[1] = r.cap.class
        /\ r.cap.action = "execute" /\ r.cap.risk = "low"

OnLane(tenants, lane) == {tenants[i] : i \in {j \in DOMAIN tenants : tenants[j].lane = lane}}

UniqueIDs(tenants) ==
    \A i, j \in DOMAIN tenants : tenants[i].tenantID = tenants[j].tenantID => i = j

(* Lanes are isolated: when tenant ids are unique, a service that restarts *)
(* on a file that leaves a lane's tenants as they are, in whatever order,  *)
(* answers on that lane as before, whatever was done to the other lanes    *)
(* (Build makes one lattice for all).                                      *)
LanesAreIsolated ==
    \A s \in ServiceModes, r \in Requests :
        /\ mode[s] # Down
        /\ UniqueIDs(LoadConfig(file)) /\ UniqueIDs(Tenants(s))
        /\ OnLane(LoadConfig(file), r.lane) = OnLane(Tenants(s), r.lane)
        => AcceptsOn(s, file, r) = Accepts(s, r)

Listed(tenants) == {tenants[i] : i \in DOMAIN tenants}

(* Removing a tenant opens nothing: when ids are unique and the file in    *)
(* place has only tenants the running service knows, what it would accept  *)
(* after a restart it accepts now.  Build makes each tenant's policy from  *)
(* its own entry, and the default actions stand in for that tenant alone.  *)
RemovalOnlyRefuses ==
    \A s \in ServiceModes, r \in Requests :
        /\ mode[s] # Down
        /\ UniqueIDs(LoadConfig(file)) /\ UniqueIDs(Tenants(s))
        /\ Listed(LoadConfig(file)) \subseteq Listed(Tenants(s))
        /\ AcceptsOn(s, file, r)
        => Accepts(s, r)

(* A file that is absent or is no JSON leaves every service refusing       *)
(* everything (fail-closed.md: "unknown/malformed/unavailable governance   *)
(* state is never admitted").                                              *)
UnreadableAdmitsNothing ==
    \A s \in ServiceModes, r \in Requests : Accepts(s, r) => mode[s].status = "parsed"

-----------------------------------------------------------------------------
(* Claims of the repository that the code does not meet. *)

(* fail-closed.md: "a request with unknown/malformed/unavailable           *)
(* governance state is never admitted", and "Unbound sovereign operator"   *)
(* is a DENY under Lambda.4: no service accepts a request for a tenant     *)
(* whose entry in the file could not be decoded, or that is left without   *)
(* a sovereign operator.                                                   *)
FaultyTenantAdmitsNothing ==
    \A s \in ServiceModes, r \in Requests : Accepts(s, r) =>
        \A i \in DOMAIN Tenants(s) : Tenants(s)[i].tenantID = r.tenant =>
            mode[s].tenants[i].mistyped = {} /\ Tenants(s)[i].operators # << >>
=============================================================================
