# ForgetOps: models, checks and proofs

ForgetOps erases and exports a person's data inside a customer's own
infrastructure. A control plane (TypeScript, PostgreSQL) keeps the lifecycle of
each privacy request and its audit trail, signs what may be executed and leases
work to an agent. The agent (Rust) runs next to the customer's systems, plans the
steps of a request, executes them through connectors and reports back. This
directory holds TLA+ modules of the parts of that program that carry its control
logic, the TLC configurations that check them and the TLAPS proofs about them.

Source paths below are relative to `src/`.

## 1. The system

| Component | State it keeps | Operations | What makes it hard | What makes it correct |
|---|---|---|---|---|
| Request aggregate (`packages/domain/src/privacy-request`) | status, version, plan, approval, attempts, pending events | 17 commands, each guarded by a transition table | 17 commands in any order, each closing attempts and approvals under its own test | attempt, approval, plan and status stay in step; settled requests stay settled |
| Request repository (`packages/database/src/repositories/privacy-request-repository.ts`) | rows of requests, attempts, audit chain, chain head, outbox; the aggregate copies in memory | `save` (one transaction of about ten statements), `findById` | concurrent saves, stale copies, crash, rollback, commit whose answer is lost, commands during a save | one unbroken audit chain; one legal audited history for each request, matching its row |
| Outbox publisher (`apps/worker/src/jobs/outbox.ts`) | `published_at` of each event | claim, publish, mark | failure between publish and mark; one bad event in a batch | every committed event is published, at least once |
| Idempotency records (`packages/database/.../idempotency-repository.ts`) | key, request hash, response | claim, complete | death between the two | one effect for each key; a key does not stay claimed |
| Agent gateway (`apps/api/src/modules/agent-gateway`) | message receipts, last sequence, transport sessions, job leases; handler-local state | poll, WebSocket hello, lease, heartbeat, answer, scan | duplicated, delayed and reordered messages; three transactions for each poll; revocation between any two; lease expiry | each message acts once and in order; an answered lease is kept; leases and sessions end with their agent |
| Agent pairing and replacement (`apps/api/src/modules/agents/pairing-service.ts`) | pairing tokens, agents, and the envelopes, attempts, requests and jobs it clears | issue token, consume and pair (drain or force), revoke | two registrations at once; replacement under running work | one active agent; nothing unconsumed is encrypted for an inactive one |
| Subject envelopes and binding (`apps/api/src/modules/privacy-requests/subject-envelope-service.ts`) | envelopes, subject fingerprint of a request, bind jobs | store envelope, bind | two requests of one subject; binding after re-planning; expiry | at most one active request for a subject and type |
| Execution authority (`apps/signer`, `approvals`, `execution-plans`, `operations`, `execution-lease-service.ts`, `agent-core/src/authorization.rs`) | plans, approvals and the pause in the API's memory; signed authorizations and leases; the agent's nonces | create plan, approve, pause, sign authorization, acquire lease, verify, consume nonce | cancel, pause or revocation between reading the snapshot and signing; a restart; an authorization delivered twice | nothing is scheduled later than one lease after authority ends; what needs approval has it |
| Agent execution (`agent/crates/agent-core`, `agent-store`) | stored status of each step, stored graph, run-local progress | accept plan, run step (execute, reconcile, verify), propagate blocking | crash between any two of save, call, save; uncertain outcome | a destructive call is made once; no step runs on missing prerequisites; no plan gets stuck |
| Agent connection (`agent-core/src/connection.rs`) | reconnect attempt, recent job ids | back off, deduplicate | eviction at capacity; shift at large attempts | bounded delay; a recent redelivery is recognised |
| Identity verification (`apps/api/src/modules/identity-verification`) | magic links, assertions used | issue, consume | test and set on two sides of an await | a link is used once |
| HTTP adapter protocol (`adapter-http`, `sdk/typescript`) | stream position; nonces in memory and in a file | send, read frames; verify request, remember nonce, call handler | copies of a request at any accepted age, crashes of the adapter, torn file, truncated streams | a request acts at most once; an export is accepted only whole |
| Supabase connector (`connector-supabase`) | none of its own; a cursor for each call | erase, export, verify; storage page by page | objects come and go between the pages, two calls at once, a later page fails | what stays is neither skipped nor repeated |
| Export builder, wire formats, redaction, tenant hierarchy, web pages, webhooks | little or no control state | data transformation, I/O, single inserts | | not modelled, see section 7 |

How they interact:

- A use case loads an aggregate with `findById`, commands it, and saves it in a
  unit of work; saves of one environment meet at the audit head row.
- The gateway, pairing and binding all write the same `jobs`, `agents`,
  `execution_attempts` and `privacy_requests` rows, each in transactions of its
  own and with its own lock order.
- The agent polls or holds a socket, leases a job, extends it with heartbeats
  and answers it. What it may destroy is decided by an authorization and a lease
  the signer issued; the runner checks them before its first step.
- The runner calls a connector (`execute`, `reconcile`, `verify`) and stores the
  status of the step around each call; after a restart the stored status decides
  where it goes on.
- `save` writes the outbox in the same transaction; the worker publishes later.

`PROJECT.json` lists every hazard met while reading, at the line where it bites,
with the property that watches it, or the reason why none does.

## 2. The modules

| Module | Role |
|---|---|
| `RequestMoves` | the vocabulary shared by four modules: statuses, transition table, the moves of a request |
| `RequestLifecycle` | abstract specification: what anyone outside may see of one request |
| `PrivacyRequest` | the aggregate, one action per command; refines `RequestLifecycle` |
| `RequestStore` | aggregate copies in several processes and the tables `save` writes, statement by statement |
| `StepRunner` | the agent's runner, its graph functions and its stored status |
| `AgentGateway` | the gateway's message, session and lease handling between two agents and the tables |
| `AgentPairing` | pairing, replacement and revocation of agents, envelopes and subject binding, statement by statement over one environment's rows |
| `ExecutionAuthority` | plans, approvals, pause, the signer's calls, leases, and the agent that verifies them |
| `ConnectorCall` | abstract specification: what the runner may rely on when a connector changes a resource |
| `HttpAdapter` | client, network, SDK adapter and its nonce store; refines `ConnectorCall` |
| `SupabaseConnector` | erase, export and verify of a table, a bucket or a user, page by page |
| `Connectors` | the two connectors behind the one contract |
| `Delivery` | idempotency records around commands, and the outbox with its workers |
| `AgentConnection` | the agent's connection loop, its backoff and its deduplicator |
| `MC*` | instances for TLC: model values, bounds, symmetry |
| `PrivacyRequestProofs`, `RequestStoreProofs`, `StepRunnerProofs`, `AgentGatewayProofs`, `AgentPairingProofs`, `ExecutionAuthorityProofs`, `ConnectorsProofs`, `DeliveryProofs` | theorems and their proofs |

### PrivacyRequest, RequestMoves, RequestLifecycle

The variables are the fields of `PrivacyRequestAggregate` that its guards read:
`status`, `version`, `plan`, `approval`, `latestPlanVersion`, `attempts`,
`currentAttemptId`. Each public command is an action; the private helpers
(`transition`, `openNewAttempt`, `updateCurrentAttempt`) are operators of the same
names. A command whose check fails throws before anything is assigned, so it is
not a step. A plan's id and fingerprint are one value of `PlanDocs`, its version is a
number; event payloads, actors, reasons and counts are left out.

`RequestMoves` holds the transition table and the moves of a request reduced to
its status and its attempts' statuses; `RequestLifecycle` makes the state
machine of them that everybody outside may rely on. `PrivacyRequest` implements it
with `lifecycle` as the mapping (`ImplementsLifecycle`), and `RequestStore` moves
its copies by the same moves, so what is shown of the one carries over to the
commands of the other.

### RequestStore

A *copy* is an aggregate object in some process's memory; a *save* is one call
of `save`. A save is a record whose `phase` walks through the statements of the
code: `PersistSnapshot` (insert or update of the row with the expected version),
`PersistAttempts`, `PersistEvents` (the audit head `FOR UPDATE`, the audit
and outbox rows, the new head), `Commit`, and `Acknowledge`
(`markEventsCommitted`). The row lock and the head lock are held until the
transaction ends. The awaits are the step boundaries, so commands of the same
copy and statements of other saves fall in between. A statement may fail, the process may die
(the copy goes, an open transaction rolls back), and the commit may succeed with
its answer lost (the copy keeps its pending events). What the code evaluates before
the first await (snapshot, pending events) is captured in the save; what it
evaluates later (`executionAttempts()`, line 151) is read from the copy at that
later step.

### StepRunner

`stored` is the status of each step in the local database, `run` what the call
of `run_step` for that step does next. `calls` and `effect` record how often
`execute` was called and whether its effect is in place at the customer's
system. A plan arrives with any graph on its steps, unknown ids, self-references
and cycles included, and `Validate` (`validate_dag`) accepts or rejects it. A run
saves `prepared` and `in_flight`, calls `execute`, saves `verifying`, calls
`verify` and saves the final status; an uncertain outcome leads to `reconcile`.
Each call may succeed or fail, certainly or uncertainly, having had its
effect or not; each save may fail; the process may die between any two of them.
`has_cycle` and `block_downstream` are recursive functions over the graph that
make the code's passes.

Nothing in the repository calls `run_step` outside of tests, so the caller is
modelled by what the functions are made for: it validates the graph, runs steps that
`runnable` returns, runs a step again that is not pending any more, stores what
`block_downstream` marks, and never runs one step twice at the same time. The
connector is modelled by its contract: `execute` answers Ok only if the
effect took place, `verify` answers true only if it is there.

### AgentGateway

The tables: `status` of each agent, `lastSequence` and `receipts` of messages,
`sessions` (one row per agent), `jobs` with state, expiry, holder and end of the lease. A *handler* is one request in the API process:
an HTTP poll, an HTTP message or a socket, with the message it carries and the
progress it has made between awaits. One action is one transaction or one stretch of
code between two awaits:

| Action | Code |
|---|---|
| `Accept` | the receipt of a signed message: sequence and replay checks, new receipt |
| `ClaimTransport`, `CheckTransport`, `PollAgain` | the poll's three transactions, with the wait in between |
| `Enqueue`, `Poll`, `Lease`, `Heartbeat`, `Answer` | the job repository's operations |
| `Scan`, `Offer`, `Close`, `ReleaseTransport`, `Leave` | the socket's hello, timer and close handler, and the poll's end |
| `Pair`, `Revoke` | what pairing does to agents, jobs and sessions |
| `SetPresence`, `Tick` | presence marking (external), the clock |

A message is a kind and a sequence number, and a session is known by the message
that opened it; message ids and challenges are random. The checks of signature,
key, age and schema refuse a message before anything changes and are left out.
The network may deliver messages again, late or in any order: a handler may
take any sequence number at any time. `told` remembers what an agent was
answered about a lease, and lets `PromiseIsKept` relate it to the table.
`Pair` is what a replacement does to agents and jobs in its three modes (none,
drain, force); the conditions on open work under which a drain is refused are in
`AgentPairing`.

### AgentPairing

A *call* is one transaction of `consumeAndPair` (kind `pair`), `storeEnvelope`
(`store`), `bindSubject` (`bind`) or `PrivacyRequestRepository.save` (`save`, of one
command; the details are in `RequestStore`). One action is one statement that
takes locks; `held` is what the call has locked so far, to the end of the transaction. What
a call writes appears with its commit, because nobody reads uncommitted rows, and a
statement that waited for a lock decides on the row as it is afterwards.

| Action | Code |
|---|---|
| `IssueToken`, `RevokeAgent` | `issueToken`, `revokeAgent` |
| `BeginPair`, `LockEnvironment`, `LockActiveAgent` | `consumeAndPair`: the token, environment and agent rows `FOR UPDATE`, with their refusals |
| `ReadEnvelopes`, `ReadAttempts`, `LockWork`, `Pair` | the work a replacement finds, the refusal of a drain, the writes of a forced replacement, the new agent and the consumed token |
| `BeginStore`, `StoreEnvelope` | `storeEnvelope` |
| `Forget`, `BeginBind`, `LockRequest`, `LockAgent`, `LockEnvelope`, `LockCandidates`, `Bind` | `bindSubjectInTransaction`, with the repeated call and the advisory lock |
| `BeginSave`, `Save` | `save`, as a move of `RequestMoves` |
| `Fail` | any statement that fails, a lost connection, and the victim PostgreSQL picks in a circle of locks |

An expired token or envelope is refused like a used or missing one, so time is left
out. A registration with keys that are already known is refused before it writes.
`removed` remembers which agents were revoked by `revokeAgent` rather
than replaced; `pairs` of a token remembers whom it paired. Nothing but tests calls
`storeEnvelope` and `bindSubject` in the repository, so they come for any request, agent
and subject. Jobs and sessions are in `AgentGateway`.

### ExecutionAuthority

One request of one environment. A *call* of the signer is two steps, because
`AuthorizationSigner.authorize` and `ExecutionLeaseService.acquire` read a snapshot
with an await and sign later: the first step has every check made on the snapshot,
the second every check made on the clock, and the signature.

| Action | Code |
|---|---|
| `CreatePlan`, `Review`, `Approve`, `ClearApproval` | `ExecutionPlanService.create` and `get`, `ApprovalService.approve` and `clear` |
| `BeginAuthorize`, `Authorize` | `AuthorizationSigner.authorize` with `assertAuthorizationPolicy` |
| `BeginLease`, `Lease` | `ExecutionLeaseService.acquire`, `ExecutionLeaseSigner.issue` with `assertExecutionLeasePolicy` |
| `SetPaused`, `Restart` | `ExecutionKillSwitch`; the loss of what these services keep in memory |
| `Verify`, `Consume`, `MaySchedule` | `verify_authorization`, `consume_nonce`, `verify_execution_lease` |
| `Move`, `SetAgent`, `CrashAgent`, `Tick` | the request, the agent's row, its process, the clock |

Only tests connect these services in the repository: who reads the snapshot is an
interface, and so are the agent's own ideas of plan, policy and pause. The agent's
comparisons with them are left open, so what is shown holds by the signer's checks,
times and nonces alone. `allowed` is a history: the last time at which the control
plane, asked at that moment, would have leased an authorization.

### HttpAdapter, SupabaseConnector, Connectors, ConnectorCall

`HttpAdapter` follows one request, known by its nonce, from `send` through a network
that loses, delays and copies it to the SDK's `fetch`: the acceptance window, the
queue in front of `FileNonceStore`, the append to its file, the handler, and the
frames of an export back to `read_export_frames`. The adapter's process may end at
any step, in the middle of an append too (`torn`). What the runner may rely on is
`ConnectorCall`: a call acts at most once and is answered ok only when it acted;
any other answer leaves both open. `KeepsContract` shows that the protocol is one.
Refusals of signature, size and path happen before any change and are left out.

`SupabaseConnector` follows calls on the items of one subject: rows and the auth user
in one statement, storage objects by `List` and then `DeletePage` or `Download` of
each page behind a cursor, while the application adds and removes items. `steady`
is a history of each call: what was there from its first step on. `Connectors` puts
the two side by side. They share no state: an initial choice says which one a
behaviour is about.

### Delivery, AgentConnection

`Delivery` is what is repeated on purpose. `Claim`, `Replay` and `Complete` are
`IdempotencyRepository` around a command that a route executes in a transaction with its
event (`Execute`, external: no route uses the repository yet); `ClaimBatch`,
`Publish`, `MarkPublished` and `Abandon` are `OutboxPublisher.runOnce` event by
event, with deaths of API and workers in between. `AgentConnection` is
`run_connection_loop` with `ReconnectBackoff`, its shift in `Width` bits, and
`DeliveryDeduplicator`. `MCDelivery` chooses a side at the start, as
`Connectors` does.

## 3. What is checked

Every run is an entry of `PROJECT.json` with its properties; every property of a
passing run has a mutant there, a plausible mistake in the code that violates it.

| Run | Instance | Question and answer |
|---|---|---|
| `privacy_request` | 3 attempt ids, 2 plan documents, 2 plan versions, version up to 15 | Do all sequences of commands keep attempt, plan, approval and status together? They do; a closed attempt is never touched, a settled request takes no command, and the aggregate implements `RequestLifecycle`. |
| `request_store` | 2 requests, 2 copies, 2 concurrent saves | Do concurrent saves with crashes, rollbacks, lost answers and commands during a save keep the audit trail? The chain has no gap and no fork, each version of a request is audited exactly once, the trail is a legal history ending at the row, no event is dropped that is not stored. |
| `request_store_quiet` | the same, no commands during a save, fair | Are row, attempts and trail stored together then, and does every save end? Yes. |
| `step_runner` | every graph on 3 steps, 2 calls per step | Is a destructive call made twice, a step run on missing prerequisites, a plan left stuck? No. |
| `agent_gateway` | 2 agents, 2 handlers, lease and heartbeat messages | Do duplicated, delayed and concurrent messages act once and in order, is an answered lease kept, do leases end with a revoked agent? Yes, with the exception stated in section 5. |
| `agent_sessions` | 1 agent, 2 handlers, polls and sockets | Does a session come back after it was displaced, or is one ended by another's late release? No. |
| `agent_replacement` | 3 agents, 2 tokens of any mode, 1 request with envelope and attempt, 2 calls | Do overlapping registrations leave two agents, does a token pair twice, is an envelope left for a replaced agent, do attempts and status drift apart under a forced replacement? No. |
| `subject_binding` | 2 requests, 2 subjects, 1 agent, 2 calls | Do overlapping bindings leave a subject with two active requests, cancel both, rebind one, or miss an audit event? No. |
| `forced_replacement` | as `agent_replacement`, tokens of mode force | The audit property of the previous run fails: see section 5. |
| `execution_authority` | 1 request, plans of either of two steps, 2 people, 1 authorization, lease, call and delivery, clock up to 3 | Does execution end in time when it is paused, the plan replaced or the agent drained or revoked, does it end with its authorization, is it approved, is an authorization accepted once? Yes, as far as section 5 says. |
| `connectors` | 2 requests, 2 copies of each, window 1, 2 records; 2 calls, 4 names, pages of 2, 1 upload | Does a copy of a request act again, is an export or an erasure called whole that is not? No. |
| `delivery` | 2 keys, 2 commands, 2 requests, 2 workers; 3 jobs with a capacity of 2, a shift of 5 bits | Is a key executed twice or answered wrongly, is an event lost, is a job accepted again early, does the backoff collapse? No. |

### The properties

- `PrivacyRequest`. `OpenAttemptIsCurrent`: an attempt is open exactly while the
  request is authorized or executing, and it is the newest one.
  `ApprovalBindsPlan`: an approval is for the attached plan. `WorkIsApproved`:
  neither open work nor a possible retry exists for a plan whose approval is
  missing. `AttemptsFollowPlan`: attempts move forward through plan versions.
  `AttemptsAreImmutable`: what no step may do. `ImplementsLifecycle`: the refinement.
- `RequestStore`. `ChainIsUnbroken`, `EachVersionAuditedOnce`,
  `AuditIsLegalHistory`, `DroppedEventsAreStored` relate
  tables to each other and to what memory still has; `AttemptsAgreeWithRow`
  is the stronger form that holds only without commands during a save; `SaveEnds`
  is the absence of deadlock and livelock of saves.
- `StepRunner`. `ExecutedAtMostOnce`, `EffectIsRecorded` (no effect before
  its intent is stored), `PrerequisitesInPlace`, `BlockingIsExact` (what
  `propagate_blocking` marks is exactly what transitively depends on a step
  that did not succeed), `NeverStuck` (from every state some step can go on until all are
  final).
- `AgentGateway`. `MessagesActInOrder`, `PromiseIsKept`, `RevocationEndsLeases`,
  `SessionsDoNotReturn`, `SessionsEndWithTheirSocket`.
- `AgentPairing`. `OneActiveAgent` and `TokensPairOnce` hold by the row locks, without
  help of the unique index. `EnvelopesCanBeOpened`: an envelope waits for the active agent, or for
  one an owner revoked. `AttemptsFollowStatus`: the two tables that a forced
  replacement writes past the aggregate stay in step. `OneActiveRequest`,
  `OriginalGoesOn` (no request is cancelled as a duplicate of
  one that does not go on), `VersionsAreAudited`.
- `ExecutionAuthority`. `SchedulingStops`: nothing is scheduled under an authorization
  later than the longest call of the signer, the life of a lease and the lag of the agent's
  clock after the control plane last allowed it. `AuthorizationsRunOut`: nor later than the life of
  a lease after its end. `WorkIsApproved`: the steps are of the content that
  somebody other than the one who started it was shown and approved.
  `AcceptedOnce`: one delivery of an authorization counts.
- `HttpAdapter`, `SupabaseConnector`. `KeepsContract` (the refinement of
  `ConnectorCall`), `ExportsAreWhole`, `ErasuresAreWhole`: each relates
  what a call is answered to what happened at the other side.
- `Delivery`. `KeysActOnce`: at most one execution for a key, and each answer under it
  agrees with what became of the command. `EventsGetOut`: every committed event is
  published in the end (liveness).
- `AgentConnection`. `RepeatsAreFarApart`: between two acceptances of one job lie
  as many others as the deduplicator holds. `CapNeverFalls`: a row of
  failures never shortens the backoff's cap, nor brings it to zero.

The type invariants, and the action properties `TerminalIsFinal` and `FinalIsFinal`, are
proved (section 4) and not run.

### Bounds, and why they are enough

- `MaxVersion` 15 lets a request go through three attempts with a re-plan
  between them and still be cancelled or completed; three attempts are enough for a
  closed one, an open one and one to come; two plan documents for each of two
  plan versions give a newer plan, an older one, the same one again and a
  different one of the same version.
- Two copies of one request give every stale write; a second request adds saves
  that meet only at the audit head. The first request starts as a planned row at version 3 and
  stops at 5 (4 in the fair run), so a save can hold two events and be
  followed by one more; the second request is created once.
- Three steps are the smallest graph with a cycle that is not a pair, with a
  chain on which blocking needs a second pass, and with a diamond's two sides.
  `MaxCalls` 2 is one more than the property allows.
- Two agents are one and its replacement; two handlers are every pair of
  overlapping requests. With `LeaseTime` 2, `JobTime` 2 and `MaxTime` 2 a lease can be
  extended, expire and be given again, and a heartbeat can arrive after a
  revocation. In `agent_sessions` three messages let a displaced poll, its
  successor and a socket coexist.
- Three agents and two tokens in `agent_replacement` let one token be used by two
  registrations, two tokens by two, and a replacement be replaced; the request starts as
  `planning` and may move twice, which is what it takes to have an open attempt.
  In `subject_binding` the version bound 4 lets the older request be bound and
  authorized before the newer one is bound to the same subject; two calls
  are every pair of transactions.
- In `execution_authority` the interesting order is one authorization with one lease in
  the making while the world changes: one call suffices, because two calls share nothing
  but the clock. Contents of one step make every two plans differ; `MaxPlan` 1 with `Restart`
  gives a second plan of the same version, which is what the fingerprint is for. Times of 1 make
  `MaxDelay`, `LeaseTime`, `AuthorizationTime` and `Skew` all count within a clock of 3.
  More of each is covered by the proofs.
- In `connectors` two requests give a queue in front of the nonce store, and the second
  copy of one can arrive at the edge of the window or behind a crash. Four names in
  pages of two give a full last page, a short one and an empty one, with one upload before, at or
  behind the cursor, and two calls that sweep each other's pages.
- In `delivery` two keys with two commands give a reused key with another
  command; two requests and two workers give every overlap. Five bits reach the end
  of the shift in five failures; the code has 32.
- Two of the bounds are bounds of the state, not of the code: `MaxVersion` (the
  version is a JavaScript number) and `MaxSequence`/`MaxTime`. They appear in guards
  only.

Deadlock checking is off in the runs whose bounded counters, or whose
program, really stop: a settled request, a finished plan, an exhausted clock.

### Fairness

`RequestStore!FairSpec`, used by `SaveEnds` only: weak fairness of each statement
of a save, because the database answers every statement or fails it; strong
fairness of taking a lock, because PostgreSQL grants a row lock to its waiters in
turn, so a waiter that finds the lock free again and again gets it. Nothing is
assumed of commands, crashes or failures. `StepRunner` states no fairness because
no scheduler exists in the repository to justify it: `NeverStuck` is a safety property in its
place. `AgentGateway` states none: agents may fall silent.

`Delivery!Fairness`, used by `EventsGetOut` only: there is a worker that is called
again and again (weak fairness of `ClaimBatch`), and neither its publish nor its
`markPublished` fails for ever (strong fairness of both). The loop around
`runOnce` is not in the repository; without the first assumption nothing is published at
all, and without the second one event that always fails holds back all later
ones (section 5). Of the other workers, the API and their deaths nothing is assumed.

## 4. What is proved

Every safety property that a passing run checks is a theorem, for every value of the
constants that meets the named assumptions of the modules; proofs are checked to the
last leaf. Hardly any of the properties is inductive: a transaction, a handler or a call
of the signer acts on what it read some steps before, so each proof needs to say what is
known between the two. The invariants that say so are given here; `PROJECT.json` lists
the theorems.

The assumptions say that bounds and times are natural numbers (lives, pages and
capacities positive), that `Null` is none of the values it stands beside
(`NullAssumption`), and the following, each from the code: the steps of a plan are
finitely many (`StepRunnerAssumption`), and so are the names in a bucket, which are
numbers for the sake of their order (`ConnectorsAssumption`); a request of
`AgentPairing` is not born with work in progress (`AgentPairingAssumption`); contents
of plans are non-empty (`ExecutionAuthorityAssumption`); the maximum of the backoff is
not below its base (`AgentAssumption` in `MCDelivery`).

**PrivacyRequestProofs**. The inductive invariant `IInv` is `TypeOK`,
`OpenAttemptIsCurrent`, `ApprovalBindsPlan`, `WorkIsApproved`,
`AttemptsFollowPlan` and two parts that no run states:
`AttemptIdsAreUnique` (or updating "the attempt with this id" could
touch an older one) and `PlanIsLatest` (or a new attempt could be for an older
plan than the last). Each of the invariants needs one of the others:
`AttemptsFollowPlan` needs `PlanIsLatest`, `OpenAttemptIsCurrent` needs the
ids, `WorkIsApproved` needs `ApprovalBindsPlan`. From it follow the two action properties
`AttemptsAreImmutable` and `TerminalIsFinal`, and `Implements`: initial states
and steps of `PrivacyRequest` are those of `RequestLifecycle`, or stutter.

**RequestStoreProofs**, in three layers.

- `IInv`, for the types and `ChainIsUnbroken`: captured events of a save are still a
  prefix of its copy's pending ones while it runs (`EventsCaptured`), a save past the
  head statement holds the head lock alone (`HeadIsLocked`), and what it has inserted
  continues the head it read (`AuditIsNext`).
- `StoreInv`, for `EachVersionAuditedOnce`, `AuditIsLegalHistory` and
  `DroppedEventsAreStored`. Each copy is a version from which its pending events start and a legal
  path from there (`History`); it starts from no version that is not stored, and if it starts
  from the stored one it continues what the row shows (`Fits`). `SaveKnows` carries this
  from the snapshot to the commit and on to the acknowledgement: the row is at the expected
  version from the time it is locked (`RowIsLocked`), and no copy has two commits that
  wait for their acknowledgement (`CommitsAlone`). The last is why
  `markEventsCommitted(count)` drops the right events although commands and other saves of
  the same copy come in between.
- `QuietInv`, for `AttemptsAgreeWithRow`, under the hypothesis that no handler commands a copy during a
  save (`CommandsDuringSave = FALSE`): then what `executionAttempts()` returns late is what the
  snapshot has. Without it the property is false (section 5).

**StepRunnerProofs**, for any finite set of steps and any graph.

- `ExecutedAtMostOnce`, `EffectIsRecorded`, `PrerequisitesInPlace` and `FinalIsFinal`: `IInv` ties a
  run's progress to the stored status (`RunMatchesStore`) and the number of calls made to both
  (`CallsMatchStore`). A call can have been made only if `in_flight` was stored
  before, and from `in_flight` the runner goes to `reconcile`, never to `execute`.
- `BlockingIsExact` and `NeverStuck`: what the algorithms of `dag.rs` compute. The recursive functions
  of the model (the passes of `BlockDownstream`, the search of `HasCycle`, the
  closure in `UpstreamIs`) are first shown to exist, value by value.
  `ChainSettles` then says that a growing chain of subsets of a finite set stands still
  after as many rounds as the set has elements, which is why the passes, made until
  nothing changes, and the closure end with everything downstream or upstream
  (`BlockDownstreamIs`, `UpstreamIs`). `StuckIsCycle` follows the search: where every step of
  a set depends on one of the set, the search meets a step it is visiting. So an accepted plan with an
  unfinished step has one to run, to finish or to block; that a step which went beyond
  `pending` has all its dependencies succeeded (`DependenciesSucceeded`) is what makes blocking exact. The inductions are written out with the
  least element of a set of natural numbers, as the provers cannot use the
  induction theorems of the library.

**AgentGatewayProofs**. `SessionInv`, for `MessagesActInOrder`, `SessionsDoNotReturn` and
`SessionsEndWithTheirSocket`: no number of a receipt, a handler or a session is above the last
one accepted, handlers of one agent come of different messages, and a message that has not
claimed its session never had it. `LeaseInv`, for `PromiseIsKept` and
`RevocationEndsLeases`: no lease, pending answer or given answer reaches beyond the
`Horizon` of its agent, which stands still from the moment of a revocation;
`AnswersHold` says that what is answered, or is about to be, can be relied on, and
needs that a heartbeat that is alone only moves an end forward.

**AgentPairingProofs**. `LocksExclude`, and `CallsOK`: what each transaction knows at each of its
statements, with the lock that keeps it true until the commit. A registration knows from
its token's lock that the token is unused, from the environment's that there is no
other active agent than the one it locked, and a drain that no envelope is left; a binding knows that
its candidate goes on. `OneActiveAgent`, `TokensPairOnce`, `EnvelopesCanBeOpened`,
`AttemptsFollowStatus`, `OneActiveRequest` and the action property `OriginalGoesOn` follow.
`VersionsLeaveEvents` has the hypothesis that no token forces a
replacement (`"force" \notin Modes`), because a forced replacement violates
`VersionsAreAudited` (`forced_replacement`).

**ExecutionAuthorityProofs**, for any number of people, authorizations, leases and calls in
progress. A lease is signed on a snapshot that may be out of date, so each property needs to
know what holds of a draft between the read and the signature. `LeasesAreRecent`
bounds the age of a draft and says that its read was allowed; `LeasesBelong` ties
drafts and leases to an authorization that is never taken back; `OnlyApproved` carries
the evidence from the draft to the signature; `NonceIsStored` relates acceptances to
nonces. `CallsChange`, `AuthorizationsChange`, `LeasesChange`, `NoncesChange` and `ClockChanges`
say once how a step may change each part, and the invariants are shown from them.

**ConnectorsProofs**, for any requests, copies, records, window, names, page size and calls.
`HttpInv`, for `KeepsContract` and `ExportsAreWhole`: a request that went to its handler has its
nonce in the file, and in memory until no copy can come to the store any more (`NoncesOK`; the queue is in
the order of arrival, which is why purging at its head does no harm), and what the sink
does not have of an export is still in the stream, in order, before the frame that says
complete (`StreamOK`). `TheContractIsKept` shows the refinement of `ConnectorCall`
step by step. `SupabaseInv`, for `ErasuresAreWhole`
and exports of the bucket: of the items that stayed none is behind the cursor that is not on the page or handled, and
none beyond it when the page is the last (`SweepOK`); `PageCovers` says it of what `List` returns.

**DeliveryProofs**. `KeysActOnce`, for any keys, commands and requests: `RecordMatches` says what a
record tells of the effects and answers of its key, `RequestOwnsKey` that a request in
progress owns the open record of its key alone. `MarkedIsDelivered`: no worker
marks an event that was not published, the safety half of `EventsGetOut`.
`RepeatsAreFarApart`, for any capacity: the deduplicator's order is the
end of what was accepted (`KnowsTheLatest`), which is inductive only together with the distance of
repeats in the log (`FarApart`). `CapNeverFalls`, for any width of the shift: the multiplier doubles until it is capped,
and the capped product is monotone in it (`BackoffInv`).

Only model-checked: the liveness properties `SaveEnds` and `EventsGetOut`, which need
fairness and are out of the provers' reach.

## 5. What the checks showed about the code

- *Attempts stored without their version*. `save`
  captures snapshot and events before its first await but evaluates
  `aggregate.executionAttempts()` after two of them
  (`privacy-request-repository.ts:151`). A command that ran in between would have its
  attempt committed while its status, version and audit event are not, and they
  would be lost if the process ended before the next save. The design document says state, audit
  chain and outbox change in the same transaction
  (`docs/ForgetOps-Design-Package/docs/architecture/01-product-scope.md:140`). No
  caller in the repository commands an aggregate during a save today, although
  `markEventsCommitted(count)` is written for one that does; `request_store` allows
  such commands, and `AttemptsAgreeWithRow` is checked without them.
- *A late heartbeat may shorten a lease*. The expiry a heartbeat sets is computed
  before its transaction, so a heartbeat that waits while a later one is answered
  sets an earlier expiry than the agent was told (`job-repository.ts:445`).
  `PromiseIsKept` therefore excepts agents with a heartbeat that overlapped with another
  of their requests; it holds for an agent that sends one request at a time.
- *A session can outlive its socket*. If a socket closes while its hello is
  awaiting, the close handler finds nothing to release (`websocket.ts`), and the
  row stays until the agent's next claim replaces it. `SessionsEndWithTheirSocket`
  states the exact form: a socket that had finished its hello takes its session
  with it, and only its own.
- *A forced replacement is not audited* (`forced_replacement`). It moves the
  requests it finds to `needs_review` as a new version
  (`pairing-service.ts:671`), from statuses that have no such transition too, and
  writes neither an audit event nor an outbox event. The design says that every state
  transition emits an append-only audit event
  (`docs/ForgetOps-Design-Package/docs/architecture/01-product-scope.md:138`).
- *What a drain sees*. A drain looks for open attempts once and locks those it finds:
  a save that adds the first attempt of a request before the registration commits is not
  seen. `revokeAgent` looks for nothing, so revoking and then pairing leaves envelopes
  and attempts to an agent that cannot act (hence `removed` in `EnvelopesCanBeOpened`).
- *Conflicting lock orders*. A replacement locks envelopes, attempts and then
  requests; a binding and a save lock the request first. Where they meet PostgreSQL
  aborts one of them.
- *The advisory lock of a binding* is not what keeps `OneActiveRequest`: the same call
  locks the environment's row, and the property survives without the advisory lock.
- *Expired envelopes stay*. The deletion of an expired envelope is rolled back by
  the error that follows it (`subject-envelope-service.ts:327`), and the envelope
  keeps refusing drains.
- *A cancelled request keeps its leases*. `assertExecutionLeasePolicy`
  (`authorization-policy.ts:128`) reads neither the status of the request nor its policy
  version: after a cancellation leases are renewed until the authorization ends, where
  `docs/ForgetOps-Design-Package/docs/architecture/04-agent-control-plane-protocol.md:195`
  has them end at once. `AuthorizationsRunOut` is what holds.
- *A pause is a field of one process* (`kill-switch.ts:2`): a restart or a second process of
  the API resumes execution. `Restart` is in the model, and `SchedulingStops` counts from
  what the control plane itself allows.
- *Erasures and verifications over HTTP do not fit*. The Rust client puts `resource` within
  `plan` and `expectation`; the SDK's schemas are strict and do not have it
  (`sdk/typescript/src/contracts.ts:144`), so that the SDK refuses every
  erasure and verification of `AdapterHttpConnector`. Each side's tests play the other side.
- *Nonces and clocks*. The SDK keeps a nonce until the window after its arrival is over
  (`create-adapter.ts:131`), while a request is accepted until the window after the
  client's timestamp: with a client whose clock is ahead a late copy could act
  again. `KeepsContract` has one clock.
- *A torn line in the nonce file* makes the store fail to load, and every later request with it,
  until somebody repairs the file (`LoadFails`); the file never shrinks.
- *Certain failures that are not*. A status of 500 and above or an unusable body is
  classified as a certain failure also of an erasure; a refusal of a later batch
  in `erase_storage` is one although earlier pages are gone (`erase.rs:159`).
  The runner verifies before it calls a step failed, so no property depends on it.
- *An upload behind the cursor* of an erasure stays, and the erasure succeeds:
  `ErasuresAreWhole` speaks of what was there throughout, and `verify` finds the rest.
- *A poisonous event holds back the outbox*: `runOnce` throws at it, and the store offers it first
  again. `EventsGetOut` assumes that no publish fails for ever.
- *A key whose request died stays in progress*: nothing reads `expires_at`, and the key is
  never executed again (`KeysActOnce`) nor answered.
- *The backoff is reset only* when a WebSocket session ends with a request to reconnect; a long session that
  ends with an error leaves the next delay where it was.
- *Notifications* are promised to be idempotent by
  their consumers, but `NotificationJob.handle` keeps no record and its sink gets no
  event id.
- *Binding moves a request back*. A request in `planning` or `awaiting_approval` that is
  bound becomes `identity_verified`, which the transition table does not list.

## 6. Plan

Done: all modules of section 2, with a theorem for every safety property of the runs.

Next, in this order:

1. Abstract specifications: an *audited request* (one row, one history, changed
   atomically) and `RequestStore` shown to implement it from `StoreInv`; a *lease* as the gateway
   promises it (granted, extended, ended) and `AgentGateway` shown to implement it from
   `LeaseInv`.
2. `IdentityLinks`: `MagicLinkService.consume` tests `consumedAt` before an await and sets
   it after, so that two uses of one link at once both succeed. The service has no caller.
3. The composition of `StepRunner` with `ConnectorCall`, in place of the connector it has now.

## 7. Not modelled

- Signatures, canonical JSON, hashes, key rotation: pure functions, correct or not on
  single inputs; their equality across languages is a matter of fixtures. A
  message whose signature is wrong changes nothing.
- Row level security and tenant isolation: a filter of the database on
  every statement, not a sequence of steps.
- Export archives and encryption, the text of the Supabase connector's SQL, the
  prefix templates of its mappings: data transformation and I/O.
- Magic links and subject assertions: the first is in the plan, the second is a single test of an
  external replay store.
- Web pages, routes, user roles, redaction, notifications, webhooks: no control
  state beyond a single insert or request.
- The agent's encrypted subject store: single inserts with a unique key.
- Services without callers are modelled by what their functions are made for, and what calls
  them is external: the route around an idempotency record, the loop around the
  outbox, the agent's comparison of an authorization with its own plan.

## 8. Running

In this directory: `tlc -workers 2 -config MCRequestStore.cfg MCRequestStore`
checks a run (seconds to a minute), `tlapm RequestStoreProofs.tla` a proof module
(minutes). `PROJECT.json` lists runs, theorems, mutants, and for every definition
of a model the lines of the source it stands for.
