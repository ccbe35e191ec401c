------------------------------ MODULE Services ------------------------------
(***************************************************************************)
(* The deployed services that read the tenant configuration (RunService in *)
(* modes.go): the router, the USL gate and GRE-1001, each a process of its *)
(* own that loads the file when it starts and never again.  Their          *)
(* endpoints keep no state, so each is an operator: what the service       *)
(* answers to a request.  The router's answer is the one it gives with no  *)
(* operator in the way, no drift and an intact ledger (module Router).     *)
(***************************************************************************)
EXTENDS Config

CONSTANTS
    Files,      \* the configuration files an operator may put in place
    Providers   \* the adapters muxRouter registers

(* What the decoder can meet.  strings.Split leaves at least one part.     *)
TenantConfigs ==
    [tenantID : STRING, lane : STRING, classes : SUBSET (Seq(STRING) \ {<< >>}),
     operators : Seq(STRING), mistyped : SUBSET {"tenantID", "lane", "classes", "operators"}]

ConfigFiles == [status : {"parsed", "absent", "syntax"}, tenants : Seq(TenantConfigs)]

ASSUME FilesAssumption == Files \subseteq ConfigFiles

VARIABLES
    file,    \* the file in place
    mode     \* what each service runs on: the file it has loaded, or Down

vars == <<file, mode>>

ServiceModes == {"router", "usl-gate", "gre-1001"}

Down == [status |-> "down", tenants |-> << >>]

Init ==
    /\ file \in Files
    /\ mode = [s \in ServiceModes |-> Down]

(* RunService: load, build, serve. *)
RunService(s) ==
    /\ mode[s] = Down
    /\ mode' = [mode EXCEPT ![s] = file]
    /\ UNCHANGED file

Exit(s) ==
    /\ mode[s] # Down
    /\ mode' = [mode EXCEPT ![s] = Down]
    /\ UNCHANGED file

Edit ==
    /\ file' \in Files
    /\ UNCHANGED mode

Next == Edit \/ \E s \in ServiceModes : RunService(s) \/ Exit(s)

Spec == Init /\ [][Next]_vars

-----------------------------------------------------------------------------
(* The endpoints of a service that runs on file f. *)

Gates(f) == INSTANCE Governance WITH
    Tenants <- BuildPolicies(LoadConfig(f)),
    Lattice <- BuildLattice(LoadConfig(f))

(* usl-gate: POST /check. *)
CheckPasses(f, r) == Gates(f)!USLCheck(TRUE, r) = Gates(f)!Passed

(* gre-1001: POST /run, over an empty override store and without drift. *)
RunAccepts(f, r) ==
    /\ Gates(f)!StagesToDrift(r, 0) = Gates(f)!Passed
    /\ Gates(f)!StagesAfterCorrigibility(r) = Gates(f)!Passed

(* router: POST /route. *)
RouteAdmits(f, r) == RunAccepts(f, r) /\ Gates(f)!ProviderGate(r).result = "ADMIT"

(* What service s answers when it has loaded file f, and what it answers   *)
(* now.                                                                    *)
AcceptsOn(s, f, r) ==
    \/ s = "usl-gate" /\ CheckPasses(f, r)
    \/ s = "gre-1001" /\ RunAccepts(f, r)
    \/ s = "router"   /\ RouteAdmits(f, r)

Accepts(s, r) == mode[s] # Down /\ AcceptsOn(s, mode[s], r)
=============================================================================
