------------------------------- MODULE Config -------------------------------
(***************************************************************************)
(* The tenant configuration (config.go): what LoadConfig makes of the file *)
(* and what Build makes of its tenants.                                    *)
(*                                                                         *)
(* A file is [status, tenants].  A tenant has the fields Build uses:       *)
(* tenantID, lane, classes and operators, where a declared capability      *)
(* class is the sequence of its dot-separated parts, and the set mistyped  *)
(* of the fields whose JSON value is of the wrong type.  Build ignores     *)
(* allowed_providers, key_refs and the governance flags.                   *)
(***************************************************************************)
EXTENDS Naturals, Sequences

(* json.Unmarshal leaves a mistyped field at its zero value, goes on with  *)
(* the rest and reports the error at the end.  A mistyped element of a     *)
(* list is left "" among the others: here, a list that has "" there.       *)
Unmarshal(tenant) ==
    [tenantID  |-> IF "tenantID" \in tenant.mistyped THEN "" ELSE tenant.tenantID,
     lane      |-> IF "lane" \in tenant.mistyped THEN "" ELSE tenant.lane,
     classes   |-> IF "classes" \in tenant.mistyped THEN {} ELSE tenant.classes,
     operators |-> IF "operators" \in tenant.mistyped THEN << >> ELSE tenant.operators]

\* Mutant of LoadConfig: the built-in demonstration tenant as a fallback.
LoadOrDefault(file) ==
    IF file.status = "parsed"
    THEN [i \in DOMAIN file.tenants |-> Unmarshal(file.tenants[i])]
    ELSE << [tenantID |-> "tenant-a", lane |-> "SAFE", classes |-> {<<"inference", "chat">>},
             operators |-> <<"op-a">>] >>

(* The tenants of the Config that LoadConfig returns: none when the file   *)
(* is absent or is not JSON; those decoded so far when a field is mistyped.*)
LoadConfig(file) ==
    IF file.status = "parsed"
    THEN [i \in DOMAIN file.tenants |-> Unmarshal(file.tenants[i])]
    ELSE << >>

DefaultActions == {"propose", "execute", "preview", "verify", "apply"}

(* The n-th parts of the classes that have one. *)
Parts(classes, n) == {c[n] : c \in {d \in classes : Len(d) >= n}}

\* Mutant of BuildPolicies: any class with an allowed scope.
PoliciesByScope(tenants) ==
    [i \in DOMAIN tenants |->
        LET t == tenants[i] IN
        [tenantID  |-> t.tenantID,
         lane      |-> t.lane,
         classes   |-> UNION {Parts(tenants[j].classes, 1) : j \in DOMAIN tenants},
         scopes    |-> {},
         actions   |-> DefaultActions,
         risks     |-> {},
         sovereign |-> IF t.operators = << >> THEN "" ELSE t.operators[1]]]

\* Mutant of BuildPolicies: allowedActions is declared outside the loop.
PoliciesWithOneActionList(tenants) ==
    [i \in DOMAIN tenants |->
        LET t == tenants[i]
            allowedActions == UNION {Parts(tenants[j].classes, 3) : j \in 1..i}
        IN
        [tenantID  |-> t.tenantID,
         lane      |-> t.lane,
         classes   |-> Parts(t.classes, 1),
         scopes    |-> Parts(t.classes, 2),
         actions   |-> IF allowedActions = {} THEN DefaultActions ELSE allowedActions,
         risks     |-> {},
         sovereign |-> IF t.operators = << >> THEN "" ELSE t.operators[1]]]

(* Build: the tenant policies. *)
BuildPolicies(tenants) ==
    [i \in DOMAIN tenants |->
        LET t == tenants[i] IN
        [tenantID  |-> t.tenantID,
         lane      |-> t.lane,
         classes   |-> Parts(t.classes, 1),
         scopes    |-> Parts(t.classes, 2),
         actions   |-> IF Parts(t.classes, 3) = {} THEN DefaultActions ELSE Parts(t.classes, 3),
         risks     |-> {},
         sovereign |-> IF t.operators = << >> THEN "" ELSE t.operators[1]]]

\* Mutant of Grant: for every lane.
GrantEverywhere(class, lane) ==
    [grant |-> [class |-> class[1], scope |-> IF Len(class) >= 2 THEN class[2] ELSE "default",
                action |-> "execute", risk |-> "low"],
     lanes |-> {"SAFE", "NORMAL", "EXPRESS"}]

(* Whatever a class says, its grant is for the action "execute" at low     *)
(* risk, on the lane of the tenant that declares it, to anyone.            *)
Grant(class, lane) ==
    [grant |-> [class |-> class[1], scope |-> IF Len(class) >= 2 THEN class[2] ELSE "default",
                action |-> "execute", risk |-> "low"],
     lanes |-> {lane}]

(* Build: the capability lattice. *)
BuildLattice(tenants) ==
    UNION {{Grant(c, tenants[i].lane) : c \in tenants[i].classes} : i \in DOMAIN tenants}
=============================================================================
