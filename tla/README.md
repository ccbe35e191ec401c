# A TLA+ verification of the Voss router

Voss is a governed AI runtime: one Go program
(`src/deploy/voss/router/service/go`) that decides whether a request may use a
capability, records every decision in a hash-chained ledger, lets an operator
interrupt, correct or terminate an intent at any moment, and only then contacts
a model provider. This directory models that program in TLA+, checks it with
TLC on small instances, and proves its central properties with TLAPS for every
instance.

Contents: [the system](#the-system) · [the modules](#the-modules) ·
[the runs](#the-runs) · [findings](#findings) · [the proofs](#the-proofs) ·
[what is not modelled](#what-is-not-modelled) · [plan](#plan).

## The system

`main.go` starts one of five services, chosen by `VOSS_MODE`. The router
service holds the program's core logic.

| Component | State it keeps | Operations | What makes it correct |
|---|---|---|---|
| Router (`router.go`) | none of its own; one goroutine per request over the shared parts below | `Admit`, `GovernAndExecute`, `boundedGenerate` | governance before provider contact; overrides win; every decision is ledgered before it is answered |
| Admission gates (`usl.go`, `lambda.go`, `gre.go`, `immune.go`) | the tenants and the lattice, fixed at start-up; `driftOverride` | `Check`, the nine stages of GRE-1001, `Classify`, `SteerDrift` | together they admit what the policy admits, and nothing else |
| Providers (`adapters.go`) | none | `CapabilityRequest`, `Generate` | called for admitted workflow requests only |
| Ledger (`ledger.go`) | `entries`, `lastHash`, `nextIdx`, one mutex | `Append`, `Verify`, `GenerateCER`, `WriteDecision`, `WriteExecution` | an unbroken, append-only chain; certificates that lead to the right decision |
| Override store (`corrigibility.go`) | three maps over intents, one mutex | `Interrupt`, `Correct`, `Terminate` and their queries | overrides stay in force, for their own intent only |
| Execution state (`execution.go`) | one state per intent, one mutex | `Current`, `Transition`, `Forcibly` | an overridden intent stays halted |
| HTTP server (`server.go`, `auth.go`) | the operator token | `/route`, `/interrupt`, `/correct`, `/terminate`, `/ledger`, `/verify` | overrides lead back to a caller with the token; answers agree with the ledger |
| Workflows (`workflows.go`, `modes.go`) | a fixed table | `/workflow` | lanes and capabilities of the table are enforced |
| Ledger service (`modes.go`) | an unguarded slice and `ledger.json` | `/append`, `/export`, `/verify`, reload | chain, file and acknowledged entries survive crashes; a broken file is left alone |
| USL and GRE services (`modes.go`) | the configuration each loaded at its start | one endpoint each | an edit of the file reaches only the lanes and tenants it is about |
| Configuration (`config.go`) | the tenant file | `LoadConfig`, `Build` | what is admitted was declared; an unreadable file admits nothing |
| Drift service (`modes.go`) | none | `/score`, a constant | |
| Coherence projection (`coherence.go`) | a bounded list | `Attach`, without a caller | bounded, no authority |
| Metrics (`metrics.go`) | Prometheus counters | | |

`net/http` runs each request in a goroutine. A request reads the ledger, the
override store (up to ten times) and the execution state, each under that
component's own mutex, and no lock spans two of these calls. An operator call
stores its flag, forces the execution state and writes the ledger in three
separately locked steps. The hard behaviours are therefore:

* an override that lands between any two checks of a request on the same intent;
* the in-flight re-check of `Admit` and the final check of `GovernAndExecute`,
  which use state read earlier;
* the provider's deadline racing its result, and a provider that never returns;
* concurrent appends to one chain, and a chain corrupted underneath the router;
* one step of several failing: a request stopped after its ADMIT is on record.

The other services are processes of their own. The ledger service has no lock at
all, rewrites its whole file at every append, ignores the error of the write,
and takes a file that does not parse for an empty ledger. Each service loads the
tenant file once, ignores the error of reading or decoding it, and so may run on
another version of it, or on another part of it, than its neighbours.

`PROJECT.json` lists each such hazard at its line with the properties that watch it.

## The modules

| Module | Models | Remarks |
|---|---|---|
| `Governance` | USL gate, Lambda checks, GRE-1001 stages 1-5 and 7-9, Immune Protocol, adapters, workflow table | operators over a request record; a gate answers `Passed` or the rule reference of its refusal |
| `Chain` | hashes and `VerifyExport` | shared by the router's ledger and the ledger service |
| `Ledger` | `ledger.go` | `entries`, `lastHash`, `nextIdx`; `Forge` and `Tamper` are the faults the repository's tests inject |
| `ExecutionState` | `execution.go` | `states` |
| `InterruptStore` | `corrigibility.go` | `interrupt`, `corrected`, `terminate` |
| `OperatorAuth` | `auth.go` | the bearer token |
| `Router` | `Admit`, `GovernAndExecute`, `boundedGenerate` | composes gates, ledger, state and store; `pc[t]` is where goroutine `t` is, one action per locked section |
| `Server` | `server.go`, `workflows.go`, `muxRouter` | adds the handlers; defines `Init`, `Next`, `Spec`, `FaultSpec`, `FairFaultSpec` |
| `GovernedRuntime` | `docs/GOVERNANCE-CONTRACT.md` | abstract: the life of a request and the audit trail, one atomic step per transition |
| `ServerRefinement` | | the refinement mapping from `Server` to `GovernedRuntime` |
| `LedgerService` | `muxLedger`, `appendLedger`, `ledgerHash` | `/append` as its unlocked reads and writes, `ledger.json`, crash and restart |
| `Config` | `config.go` | what `LoadConfig` and `Build` make of a file |
| `Services` | `RunService`, `muxUSL`, `muxGRE` | composes `Config` with `Governance`: three services, each on the file it loaded |
| `ServerProperties`, `LedgerServiceProperties`, `ServicesProperties` | | the properties |
| `MCServer`, `MCLedgerService`, `MCServices` | | the instances for TLC |
| `ServerChain` | | proofs: types, the ledger, the ledger under faults |
| `ServerPrecedence` | | proofs: overrides against admissions; extends `ServerChain` |
| `ServerAnswers` | | proofs: the control flow, answers, operator calls; extends `ServerPrecedence` |
| `ServerRecords` | | proofs: what the ledger holds of each request; extends `ServerAnswers` |
| `ServerImplements` | | proofs: the refinement; extends `ServerRecords`, `ServerRefinement` |
| `ServerPolicy` | | proofs: the gates and the policy; extends `ServerRecords` |
| `LedgerServiceProofs`, `ServicesProofs` | | proofs about the other services |

### The router service

* A request is a record with the fields the gates read. Its payload is present
  or absent; the empty string is a missing field, as after JSON decoding.
* `out[t]` is the `AdmissionOutcome` and error that goroutine `t` will return.
  Its decision id is `<<t, attempt>>`: attempt 1 is the decision of `Admit`,
  attempt 2 the denial after a failed or timed-out execution. The code draws
  ids from the nanosecond clock; here they are distinct.
* `gen[t]` is the goroutine `boundedGenerate` starts. `TimeOut` may happen
  whenever the request waits, with or without a result in the channel, as
  Go's `select` allows. `ProviderReturns` may happen later, or never.
* SHA-256 is collision-free: an entry's hash is the tuple of the fields
  `hashEntry` marshals. As in the code this excludes `prevHash`, and
  `VerifyExport` compares links without recomputing a hash.
* `expect[t]` is the value of `Current` that is passed to `Transition`; the two
  are separate locked calls.
* `barred` and `inflight` are history variables: what stood against a request
  when it called `Admit`, and which overrides were stored when the in-flight
  re-check began. No action reads them.
* A method that holds its component's mutex is one action: the locks are trusted.
  What is checked is that the code around them survives every order of the locked
  calls, not that `Append` would survive without its lock.
* Code between two locked sections that reads no shared state is part of one of
  them. `driftOverride` has no lock; reading a pointer yields the old or the new
  score, so one step reads it.
* A handler that turns a call away (method, body, workflow or lane) is `Turned`;
  a wrong method is answered 405, a body that does not decode 400.
  A workflow or lane the service refuses carries an error and no decision, and
  `workflowHandler` answers that with status 200; `Status` says the same.

### The life cycle it implements

`GovernedRuntime` has six phases and a trail. `PhaseOf` maps a goroutine's
position to a phase: the gates of `Admit` are *requested*; from the ADMIT entry
to the provider call it is *admitted*; from the call to the entry that records
its end *executing*. An admission, a refusal and a result are on record in the
very step that makes them, because the locked `Append` is that step; the final
checks of `GovernAndExecute` are stutters or a withdrawal. The abstract
`BeginExecution` asks that no override was on record before the admission: that
is how far the code can promise that operators win, and the final check is what
keeps the promise. `ImplementsGovernedRuntime` is checked in `overrides_race`.

### The ledger service

* `store` is `ledgerMu.store`, which has no lock. An append verifies it, reads
  its tail, its length and its slice, and stores the extended slice: five steps
  of `AppendStep`, between which other handlers run. Within
  `store = append(store, en)`, reading and storing the slice are the two steps
  that matter; torn slice headers and shared backing arrays, which a data race
  also permits, are left out. They could only add to what `append_race` shows,
  and every positive claim is about appends that do not overlap.
* `MarshalIndent` reads the store again, `OpenFile` truncates `ledger.json` and
  `WriteFile` fills it; either of the last two may fail,
  and the error is ignored. A file cut short does not parse (`Torn`). Two
  overlapping writes may leave it torn as well.
* `Crash` may happen at any step; handlers under way are dead, what the file
  holds remains. `Start` loads it, or begins empty. `Corrupt` overwrites a hash
  on disk while the service is down.
* `overlapped`, `behind`, `lost`, `acked` and `found` are history: whether two
  appends were ever in flight at once, whether the last write failed, whether the
  process crashed in that state, what was acknowledged, what the last start found.

### Configuration and services

* A file is absent, not JSON (`"syntax"`), or parsed. A tenant's `mistyped` are
  the fields whose JSON value has the wrong type: `json.Unmarshal` leaves them at
  their zero value and decodes the rest, and `LoadConfig` drops the error. A
  mistyped element within a list decodes to `""` among the others, which is a
  list that has `""` there.
* A declared class such as `inference.chat` is the sequence of its parts.
* The endpoints keep no state, so `CheckPasses`, `RunAccepts` and `RouteAdmits`
  are operators of the loaded file and a request; the state is which file each
  service loaded and which is in place. `AcceptsOn(s, f, r)` is the answer of
  service `s` on file `f`: what it would answer after a restart is
  `AcceptsOn(s, file, r)`, what it answers now `Accepts(s, r)`. `RouteAdmits` is the router's answer with
  no operator in the way; that the pipeline computes it is `AdmittedIffPolicy`.

### The policy

`AdmittedIffPolicy` compares the gates with a policy stated apart from them.
`Permitted` is everything about tenant, lane, capability, payload and provider;
`Sovereign` that the operator is the tenant's sovereign one; `Admissible` both.
The documents deny a request for a tenant without a sovereign operator
(`Unbound`), the code admits it on the SAFE lane. The policy is the documents',
the property leaves exactly that case open, and `faulty_tenant` shows it.

## The runs

Bounds: `Threads` is the number of requests served and `Operators` the number of
operator calls; each goroutine serves one. Two requests and two operators are
enough for every race the code has: all checks concern a single intent, and the
longest conflict involves one request, two overrides of its intent and a
bystander that writes to the ledger in between. The ledger then holds at most six
entries. `Fault` strikes once: one break is what all later requests meet.
`Appenders` bounds the appends of the ledger service; the race of `append_race`
takes three (two to break the chain and one that verified it before), crashes and
restarts are unbounded. Goroutines are symmetric, and symmetry is used where no
liveness is checked. Deadlock is checked in every run; `Quiescent` is the state
where all bounded calls are answered.

| Run | Instance | Distinct states | Shows |
|---|---|---|---|
| `overrides_race` | 2 admissible requests, 2 overrides, 1 intent | 894,504 | `TypeOK`, `ChainIntact`, `AppendOnly`, `ExecutionBoundToDecision`, `BarredNeverAdmitted`, `OverriddenConflicts`, `InFlightOverrideWins`, `AuditOrder`, `OverrideHolds`, `ImplementsGovernedRuntime` |
| `mixed_requests` | 2 of five kinds of request over 2 intents, three workflow names of which one is unknown, 1 operator call of ten kinds, drift 49 or 50 | 1,826,796 | `ProviderContactIsGoverned`, `AnswersMatchLedger`, `OverridesAreScoped`, `OverridesAreAttributable` |
| `gates_policy` | 1 request out of 6,912; 1 operator call with the empty credential while no token is configured | 83,910 | `AdmittedIffPolicy`: the pipeline of gates equals one declarative policy, a tenant configured twice, tenants without a sovereign, unknown lanes and missing tenants, operators, intents, keys, scopes and payloads included. The operator call must stay without effect: an unset token that matched the empty credential would deny admissible requests |
| `ledger_faults` | 2 requests, 1 interrupt, a forged entry or an overwritten hash, fairness | 191,696 | `BrokenFailsClosed`, `BreakIsPermanent`, `EveryRequestAnswered`, `EveryOverrideLedgered` |
| `ledger_service` | 3 appends, any number of crashes, restarts, failed writes and damage | 281,703 | `ServiceTypeOK`, `SerialChain`, `AcknowledgedKept`, `BrokenFileKept` |
| `configured_services` | 3 services over 10 files, 40 requests put to each | 13,310 | `AcceptedWasDeclared`, `LanesAreIsolated`, `RemovalOnlyRefuses`, `UnreadableAdmitsNothing` |

The ten files of `configured_services` are those that `Build` treats
differently: classes of one, two and three parts, tenants on one lane and on two,
the same tenants in another order, one of them removed, a tenant configured
twice, none and two operators, a mistyped field, an absent file and one that is no JSON.

Six further runs each refute a claim of the repository; see the next section.
Every property has a mutant in `PROJECT.json`: a plausible bug in a mapped
definition, kept beside it under "Mutant of", that violates the property in the
same run.

**Fairness.** `FairFaultSpec` assumes weak fairness of each request's goroutine
and of each accepted operator call: Go schedules runnable goroutines, its mutexes
do not starve, and `time.After` fires. It assumes nothing of clients, operators,
faults, `SteerDrift` or the provider: `ProviderReturns` is not fair, so
`EveryRequestAnswered` rests on the timeout, and the mutant without a timeout
fails. Both liveness properties hold on a corrupted ledger too.

## Findings

| Run | What a comment or document says | What the code does |
|---|---|---|
| `inflight_correction` | router.go:163, an in-flight "interrupt or correction ... must still win" | the re-check reads terminations and interrupts only; a correction stored after stage 6 does not stop an ADMIT |
| `terminated_terminal` | execution.go:15, README.md:43, TERMINATED is terminal | a later interrupt or correction forces HALTED |
| `conflict_denied` | fail-closed.md:18 and :37, an override is a ledgered DENY under Lambda.6 with 409 | stopped by the final check, a request is answered 409 with its ADMIT decision and the ledger has no denial |
| `append_race` | ledger-recovery.md:10, `/append` "refuses when the existing chain is invalid" | verification and extension are separate, unlocked steps; overlapping appends break the chain and extend the broken one |
| `torn_file` | ledger-recovery.md:40, "never an unnoticed overwrite" | a `ledger.json` that does not parse is taken for an empty ledger and overwritten by the next append |
| `faulty_tenant` | fail-closed.md:3, "unknown/malformed/unavailable governance state is never admitted" | config.go:59 drops the error of `json.Unmarshal`: a tenant with a mistyped `operator_ids` is served without a sovereign operator |
| `faulty_tenant` | fail-closed.md:12, "Unbound sovereign operator" is a DENY under Lambda.4; operator-sovereignty.md:31, an operator who is not the tenant's sovereign fails | lambda.go:34 compares only when there is a sovereign: on the SAFE lane a tenant without one is open to any operator. `GatesAreThePolicy` proves that this is the only excess over the policy |

One more is not a counterexample but a theorem. README.md:47 presents four
workflows as implemented, each for its class and lanes, and workflow_test.go:96
expects ADMIT for each of them, over a lattice the test builds by hand. In the
deployed service none can be used: `Build` reads a third part of a class as the
tenant's action (config.go:80) but grants `execute` at low risk whatever the class
says (config.go:111), and no workflow binds that pair. `NoFileGrantsWorkflows`
proves it for every file and all four.

Smaller ones, met while modelling, have no run:

* An override stored while the provider runs does not keep its result out of the
  ledger (workflows.go:85 says it does); `AuditOrder` and the abstract
  `BeginExecution` state what does hold.
* A late provider call is denied but left running (router.go:266).
* Nothing ever sets ADMITTED, so the transition to RUNNING is always refused, the
  refusal is ignored, and providers run for PENDING intents. Operators lose
  nothing by it: `OverrideHolds`.
* An interrupt or termination that stage 6 of GRE-1001 meets first is answered 403
  rather than the documented 409. `OverriddenConflicts` therefore speaks of the
  requests that arrive after the override.
* The lattice is one for all tenants, so tenants on one lane inherit each other's
  scopes; `AcceptedWasDeclared` says how far, `LanesAreIsolated` where it ends.
* Removing the last class that names an action widens a tenant's policy to the
  default actions; `RemovalOnlyRefuses` is about whole tenants.
* `Build` ignores `allowed_providers` and `key_refs`.
* A request past stage 5 still reaches its provider after the drift score has
  risen (drift-surfacing.md:19 says no provider is contacted then), and the drift
  service that the same document names answers a constant.
* `voss_ledger_write_total` does not count the entries operators write.

## The proofs

Every safety property that a passing run checks is also a theorem, for any
number of goroutines, operator calls, appends, crashes and restarts, for any
tenants, lattice, providers, requests and configuration files, and so is the
refinement. The assumptions are:

* `RequestsAssumption` (`Server`): what the JSON decoder can produce. Requests
  have their fields, operator calls are of the three kinds, drift scores are
  natural numbers.
* `ConfigurationAssumption` (`Governance`): the tenants are a sequence, and each
  registered adapter is of one of the kinds the code and its tests have.
* `FilesAssumption` (`Services`), `CapabilityAssumption` (`ServicesProperties`):
  what the decoder can meet in a tenant file, and that a request has a capability.

TLC evaluates each of them in the runs of its service. The theorems about the
ledger service need none.

| Theorem | States | Argument |
|---|---|---|
| **`ServerChain`** | | |
| `TypeCorrect` | `Spec => []TypeOK` | `TypeInv` |
| `ChainNeverBreaks` | `Spec => []ChainIntact` | `ChainInv`, `TypeInv` |
| `LedgerIsAppendOnly` | `Spec => AppendOnly` | `StepAppends` |
| `BreakStaysVisible` | `FaultSpec => BreakIsPermanent` | `FaultInv` |
| `BrokenLedgerFailsClosed` | `FaultSpec => []BrokenFailsClosed` | `FaultInv`, `BrokenInv` |
| **`ServerPrecedence`** | | |
| `OverriddenIsNeverAdmitted` | `Spec => []BarredNeverAdmitted` | `PrecedenceInv`, `ChainInv`, `TypeInv` |
| `InFlightOverrideIsHonoured` | `Spec => []InFlightOverrideWins` | the same |
| **`ServerAnswers`** | | |
| `OverridesAreFinal` | `Spec => []OverrideHolds` | `OverridesInv` |
| `OverridesReachTheirIntentOnly` | `Spec => []OverridesAreScoped` | `OverridesInv`, `AnswersInv` |
| `OverriddenIsConflict` | `Spec => []OverriddenConflicts` | `ConflictInv`, `PrecedenceInv`, `ChainInv` |
| **`ServerRecords`** | | |
| `LedgerOrderIsTrustworthy` | `Spec => []AuditOrder` | `RecordsInv` |
| `ExecutionsAreBound` | `Spec => []ExecutionBoundToDecision` | `RecordsInv` |
| `AnswersAreOnRecord` | `Spec => []AnswersMatchLedger` | `RecordsInv`, `AnswersInv` |
| `OverridesComeFromOperators` | `Spec => []OverridesAreAttributable` | `AttributedInv`, `OverridesInv`, `AnswersInv` |
| **`ServerImplements`** | | |
| `ServiceImplementsRuntime` | `Spec => ImplementsGovernedRuntime` | `Flow`, `RecordsInv`, `PrecedenceInv` |
| **`ServerPolicy`** | | |
| `GatesAreThePolicy` | the gates pass what is `Admissible` or, on the SAFE lane, `Permitted` and `Unbound` | one lemma per gate |
| `ProviderOnlyThroughGovernance` | `Spec => []ProviderContactIsGoverned` | `VettingInv`, `RecordsInv` |
| `RefusalsHaveACause` | `Spec => []RefusedForCause` | `CauseInv`, `OverridesInv` |
| `RouteAppliesThePolicy` | `Unattended => (Spec => []AdmittedIffPolicy)` | all of the above |
| **`LedgerServiceProofs`** | | |
| `ServiceTypeCorrect` | `Spec => []ServiceTypeOK` | itself |
| `SerialChainHolds` | `Spec => []SerialChain` | `ServiceInv` |
| `AcknowledgedIsKept` | `Spec => []AcknowledgedKept` | `ServiceInv` |
| `BrokenFileIsKept` | `Spec => BrokenFileKept` | `ServiceInv` |
| **`ServicesProofs`** | | |
| `OnlyDeclaredIsAccepted` | `Spec => []AcceptedWasDeclared` | `GrantedWasDeclared`, `Lookups` |
| `UnreadableFailsClosed` | `Spec => []UnreadableAdmitsNothing` | `LoadedTenants` |
| `NoFileGrantsWorkflows` | `Spec => []WorkflowsNeverGranted` | `GrantedWasDeclared` |
| `EditsStayOnTheirLane` | `Spec => []LanesAreIsolated` | `LaneOrder`, both ways |
| `RemovalNeverOpens` | `Spec => []RemovalOnlyRefuses` | `LaneOrder` |

### The router service

* **`TypeInv`.** `TypeOK` says that a ledger entry has a verdict and a rule, and
  an answer may lack both, so it is not inductive. `DecidedAnswers` adds that a
  goroutine about to write or execute holds a decision; `AcceptedNamesIntent`
  adds that an accepted operator call names an intent, which follows from the
  handlers' refusal of an empty one. One lemma, `GateType`, covers every check;
  there is one lemma per other kind of action.
* **`ChainInv`.** `Append` links to `lastHash` and numbers by `nextIdx`, so
  intactness needs both to agree with the stored entries. `StepAppends` shows
  that each step of the service leaves the ledger alone or appends one
  well-formed entry; the rest is about `AppendEntry` only.
* **`FaultInv`, `BrokenInv`.** Under faults the chain may be broken, so the two
  invariants above do not hold. What remains is the shape of the ledger: indices
  and `lastHash` still fit, so that an append adds a correct link and cannot mend
  an earlier one. `BrokenInv` follows a request that arrived at a broken ledger:
  Admit's first check, the write of its refusal, the answer, and nothing else.
* **`PrecedenceInv`.** `Guarded` follows a goroutine through the gates: for each
  kind of override that stood when it arrived, or that the re-check found, it
  has yet to reach the gate that looks for that kind or has been refused. It
  holds because overrides are never withdrawn, so the gate still finds them.
  `AdmittedUnbarred` carries the conclusion past the ledger write. The proof
  needs `ChainInv`, since a request that met a broken chain counts as barred too.
* **`Flow`, `AnswersInv`.** `Flow` states the control flow of `Admit` and
  `GovernAndExecute` once, as a relation between a place in the code with an
  answer in hand and the next; `ThreadMoves` shows that every step of a goroutine
  follows it. The later invariants are proved from `Flow` and do not look at the
  actions again. `AnswersInv` is what a goroutine holds at each place: nothing in
  the gates, then a refusal or an ADMIT, which is withdrawn before the provider is
  called, denied after it, or stands.
* **`OverridesInv`, `ConflictInv`.** An accepted call carries the token, then its
  flag is in the store, then its intent is at a standstill; whoever is told of an
  override has one. `ConflictInv` follows a request that arrived on an interrupted
  or terminated intent to its 409.
* **`RecordsInv`.** `Own(t)` are the positions of the entries goroutine `t` wrote.
  At each place they are none, one (its admission or its refusal) or two (the
  admission and what came of it, in that order). `Audited` adds that a goroutine
  admitted after an override went on record has a final check for that kind still
  ahead, or has been stopped: the final checks come in the order terminate,
  correct, interrupt, and the proof needs which of them remain.
* **`AttributedInv`.** An override in the store has an operator call behind it that
  has passed its handler's check, and a call has no entry before its last step and
  exactly one after it, which no other writer can make or take away.
* **Refinement.** The phase of a request is a function of its goroutine's place,
  endpoint and answer, and the abstract trail is the ledger entry by entry, so a
  step along `Flow` is an abstract step or a stutter by cases on the place.
  The guard of the abstract `BeginExecution` is `Audited`.
* **Gates and policy.** `usl.go`, `gre.go` and `lambda.go` each look the tenant up
  with a loop of their own, by id or by id and lane, and return the first match.
  A nonempty set of positions has a least element (`LeastPosition`, from the
  well-foundedness of the naturals), and on the lane of its first policy both
  loops find the same one. With that, the gates pass exactly the requests that
  `Admissible` describes and those that only lack a sovereign on the SAFE lane,
  whatever the configuration.
* **`VettingInv`, `CauseInv`.** At each place a request has passed the gates behind
  it, and a workflow request carries its bound capability. Conversely a refusal
  has its cause: the policy, drift, or an override. `Unattended` (no operator
  token, no drift score of 0.5 or more) leaves the policy only; that is
  `AdmittedIffPolicy` as `gates_policy` checks it, with concurrent requests.

### The other services

* **`ServiceInv`.** Until two appends overlap, at most one handler is in flight
  (`Alone`), so what it has read is still true when it commits (`Fresh`), and the
  chain in memory is extended correctly. `FileKeeps` and `StoreKeeps` follow the
  acknowledged entries through memory and file: the file holds them whenever no
  write is outstanding, the store whenever the process is up. `BrokenIsLoaded`
  says that a broken file was loaded as it is, so that the verification of the
  next append meets the break; `Rooted` that damage, which only ever sets a hash,
  cannot mend a link.
* **Configuration.** The facts about `LoadConfig`, `Build` and the gates hold for
  every file; the specification only adds that a service runs on some file.
  `GrantedWasDeclared` reads a grant of the lattice back to the class it was made
  from. With unique ids the first tenant with an id is the only one, and a grant on
  a lane comes from a tenant of that lane; so each answer on a lane is a monotone
  statement about the set of that lane's tenants (`LaneDecidesGate`,
  `LaneDecidesSovereign`, `LaneDecidesApproval`). `LaneOrder` puts them together:
  more tenants on a lane, more accepted. Isolation is its use in both directions,
  `RemovalOnlyRefuses` in one.

Every invariant was model-checked before it was proved: those of the router on
the instances of `overrides_race`, `mixed_requests` or `gates_policy`, `FaultInv`
and `BrokenInv` on that of `ledger_faults`, `ServiceInv` on that of
`ledger_service`.

Only model-checked: `EveryRequestAnswered` and `EveryOverrideLedgered`, which are
liveness under fairness and beyond the prover; and the findings with a run, which are
counterexamples.

## What is not modelled

* `coherence.go`: `Attach` and its bound have no caller in the program.
* `metrics.go`: counters, written and never read back.
* The drift service: its answer is a constant.
* Deployment files: images, ports, dashboards; no behaviour of this program.
* `Reset`, `Clear`, `ClearCorrection`, `ExportToFile`, `Trace` and the checks
  `checkLambda1`, `2`, `3`, `6`, `7`: nothing in the services calls them.
* The second lookup of the provider in `GovernAndExecute` and its denial
  (router.go:226-234): `Admit` has found the provider, and providers are
  registered at start-up only, so the lookup cannot miss.
* Reasons, stage records and timestamps: written, never read back.
* The contents of a correction's directive; only its presence decides.
* Collisions of decision ids (two decisions in one nanosecond): `GenerateCER`
  would then certify the earlier of the two.
* Restarts of the router: its state is in memory, so a restart is `Init`, and
  forgets every override and the ledger.

## Plan

Done, in this order: gates, ledger, override store and execution state; router;
server; properties, runs and mutants; type correctness, the chain, operator
precedence; the ledger service with its crashes and its proofs; configuration and
the services that load it; the abstract life cycle and its refinement; the proofs
of the remaining safety properties, of the refinement and of the policy.

Next, by importance:

1. **Router and services**: `RouteAdmits` of `Services` and the pipeline of the
   router service are two readings of the same gates. State their equality, so
   that the theorems about files speak of the router's answers directly.
2. **The abstract side**: what `GovernedRuntime` promises by itself (no result
   without an admission before it, one outcome per request) as theorems of its own
   specification, which the refinement then carries over.
3. **Progress**: the safety half of `EveryRequestAnswered`, a bound on the steps a
   goroutine has left, from `Flow`.
