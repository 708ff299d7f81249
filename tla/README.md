# Verification of the ISP platform examples

TLA+ modules, TLC runs and TLAPS proofs for the code under `src/examples`.

## The system

The repository is a set of small, independent components of an ISP's operations platform. Each talks
to the outside world (a lock backend, two databases, a router, a payment provider, a scheduler) through
a `Protocol` class, so the interesting behaviour is what happens between two awaits.

| component | state it keeps | operations | what is hard | what makes it correct |
|---|---|---|---|---|
| per-entity lock (`concurrency/entity_lock.py`) | key, token and lease in the backend; `token`, `started` in each use | acquire, body, release; `on_long_hold` | leases that expire under the holder, late or lost releases, grants that nobody hears of, cancellation, crashes | exclusion while the lease covers the body; no other cause of overlap; the key comes free; the body's exception is lost in no other way than the known two |
| dual-store commit (`concurrency/dual_store_commit.py`) | authoritative store, projection, audit trail, router session | `apply_state_change` | each of five awaits may fail with or without its effect; no common transaction | the projection leads; a reported success is complete; the trail is honest |
| locked state change (the caller both modules describe) | both of the above | `async with entity_lock` around `apply_state_change` | the exclusion is only a lease | the lock is enough as long as no body outlives its lease |
| payment webhook (`api/idempotent_webhook.py`) | ledger, activation queue, alerts | `receive_payment` | concurrent and repeated deliveries, failures between credit and enqueue | one activation at most; answers stand for effects; the provider is answered in the end |
| job wrapper and registry (`workers/job_wrapper.py`) | heartbeat rows, roster | `run_with_heartbeat`, `register` | crash against failure, a `close_run` that raises | the status told is the one recorded; rows left RUNNING stand |
| liveness exposition, alert rules (`observability/`) | none; reads rows and roster | `render_exposition`, rules | absent series | a job that stops, fails or never ran is seen by some rule |
| approval queue (`ai/approval_gate.py`) | proposals, `killed`, audit log | `propose`, `decide`, `kill`, `approved` | limits, kill between proposal and decision, a caller's clock | limits over any hour, decisions that stand, a log that tells them |
| tool gateway (`ai/readonly_tool_gateway.py`) | tools, calls | `register`, `call` | the budget at its limit over sequences of registrations; handlers that raise | within budget, and whatever went upstream is in the record, under the read tool that took it |
| evaluation harness (`ai/eval_harness.py`) | none | `score_case`, `score_suite` | groups that occur in a cited query and not in the prose | a rate that is not full tells of an answer that failed what its dimension is for, and a full one that none did |
| money (`domain/money.py`) | none | parse, format | digits beyond the decimal context; displays read back | what is parsed is what was sent, as far as the context's digits go |
| convention guards (`guards/convention_guards.py`) | docstring flag of one scan | `check_file`, `main` | one line counted wrongly inverts the flag for the rest | findings and exit code are what a lexer would make of the files |
| synthetic data (`synthetic_data/generate.py`) | a seeded generator | generate | | not a subject of verification |

How they interact: the state change runs inside the lock (a call within the lock's body, sharing the
entity); the webhook parses with `money` and hands over to an activation path (external) that would use
the state change; the job registry's roster is what the exposition joins with heartbeat rows and the
alert rules read. The gateway's record of calls is what the harness scores an answer with. Everything else is
independent.

## Modules

| module | models | checked by |
|---|---|---|
| `EntityLock` | `entity_lock` and its backend | `MCEntityLock`: `LockLeaseCovers`, `LockErrorMasked`; through `LockedStateChange` |
| `EntityLockProofs` | | TLAPS |
| `ProjectionLeads` | the abstract promise of the two stores | implemented by `DualStoreCommit` |
| `DualStoreCommit` | `apply_state_change` | `MCDualStoreCommit`: `StoreFaults`, `StoreInvisible`, `StoreUnaudited` |
| `DualStoreCommitProofs` | | TLAPS |
| `LockedStateChange` | composes `EntityLock` and `DualStoreCommit` | `MCLockedStateChange`: `LockedChange` |
| `LockedStateChangeProofs` | | TLAPS |
| `IdempotentWebhook` | `receive_payment` | `MCIdempotentWebhook`: `WebhookRetries` |
| `IdempotentWebhookProofs` | | TLAPS |
| `ApprovalQueue` | `ApprovalQueue` of `approval_gate.py` | `MCApprovalQueue`: `ApprovalLimits` |
| `ApprovalQueueProofs` | | TLAPS |
| `JobHeartbeat` | `JobRegistry`, `run_with_heartbeat`, the heartbeat store | through `WorkerAlerts` |
| `WorkerAlerts` | extends `JobHeartbeat` with the exposition, the worker rules and time | `MCWorkerAlerts`: `WorkerAlerts` |
| `WorkerAlertsProofs` | | TLAPS, for both |
| `ToolGateway` | `ReadOnlyToolGateway` | through `Assistant` |
| `EvalHarness` | `score_case`, `score_suite` as operators | through `Assistant` |
| `Assistant` | composes the two: questions, calls, scored answers | `MCAssistant`: `CitedGroups`; `MCTexts`: `Texts` |
| `AssistantProofs` | | TLAPS, for all three |
| `MoneyParsing` | `parse_minor_units`, `format_minor_units` as operators | through `TextFunctions` |
| `ConventionGuards` | `check_file`, `main` as operators | through `TextFunctions` |
| `TextFunctions` | the inputs of the last two | `MCTextFunctions`: `MoneyRounds`; `MCTexts`: `Texts` |
| `TextFunctionsProofs` | | TLAPS, for all three |

Operators marked "Faulty X" stand before X. They are plausible bugs of X, used in its place to show that
a property notices; no specification refers to them. `MCTexts` only puts the instances of `Assistant` and
`TextFunctions` side by side for one run: either an evaluation or an input, which share nothing.

### EntityLock

A section is one use of `async with entity_lock(...)`. Its phases are the code's suspension points:
`acquiring` (line 107, request out), `granted` (the backend has given the key, the token is on its way
back), `body` (the `yield`), `releasing` (line 135). `Begin`, `Grant`, `Enter`, `ExitBody` and `Finish` are
the plain course. `TimeOut` is the `None` answer and `LockTimeout`; `Unavailable` is an acquire that raises,
before or *after* its grant. `ExitBody` is the whole `finally` up to its await: `held` is compared with the
threshold, the hook is called, the release request goes out; `HookRaises` is the same with a hook that
raises, which skips the release. `ReleaseFails` is the suppressed exception, with the request still able to
arrive. `Cancel` is `CancelledError` at one of `entity_lock`'s own awaits (a `BaseException`, so neither
handler sees it); `Crash` is the death of the process.

`BodyErrorSurvives` is the comment of lines 130-132 as it stands, and it does not hold: a cancellation at the
release and a hook that raises both put another exception in the place of the body's (`LockErrorMasked`).
`ReleaseUncancelled` and `HookReturns` name the two, and the theorem says that there is no third.

The backend is what the `LockBackend` protocol says: an atomic grant of a free key, a release that checks
the token (`DeliverRelease`), and a lease that runs out (`Tick`). `timer` is what the code can measure
(`held`, from the start of the body); `since` runs from the grant and is used only by the properties, the
bound `MaxDelay` and the clock: the difference between the two is a hazard of the code.

Time is one discrete clock for the backend and its clients. `Tick` waits for a phase whose bound is reached,
so `Wait`, `MaxDelay` and `MaxBody` bound the phases they are named for; `Lease`, `Wait`, `HeldWarning` stand for the
code's 30, 5 and 5 seconds with their order, not their size. Tokens come from a small set and a token is
drawn again only when nothing mentions it, which is indistinguishable from tokens that never repeat.

### DualStoreCommit

`step` is the await a call is at. Each awaited call has the outcomes a network gives: it returns; it raises
without effect; it raises with its effect done (`WriteGroup`, `ForceReauth`, `Commit`). `ForceReauth` returns
one of the four `CommandOutcome`s: `TIMEOUT` with the session dropped or not, `NO_SESSION` only when there is
none, `APPLIED` only when one was dropped, `REJECTED` without effect. `RollbackRefused` and
`RollbackFailing` are lines 122 and 135: a rollback that raises at 122 falls into `except Exception` and is
tried again, one that raises at 135 escapes. Each of the three ways through the call has its own audit await and
its own end: `AuditRefused` and `RaiseRefused` (127, 128), `AuditFailing` and `RaiseFailing` (136, 137),
`AuditSuccess` and `ReturnOutcome` (141, 142). A call can die in between. `audited` is the sequence of its
rows, so a second row would show; `AuditSink.record` never raises, as its protocol says. What reaches the caller
and what the trail says are compared by `RowMatchesAnswer`. `FalseFailureIsComplete` is about a `commit` that raises after it took
effect: `StateChangeFailed` then reports a change that *is* in the authoritative store, against its docstring,
and the property says that it is there completely.
`Crash` is the death of the process or a cancellation at any await; the database drops the open
transaction.

The session on the router is environment (`Dial`, `HangUp`, `ReadGroup`, `SessionUp`): it takes the group
that the projection holds when authentication reads it, possibly well before the session is up
(`"auth_race"`).

`CallerHoldsLock` is the docstring's assumption (lines 103-106): one call per entity at a time.

### LockedStateChange

The two modules are instantiated over the same sections; the body of a section is one call for the locked
entity (`BothConstants` are the assumptions of both). `CallerHoldsLock` is not assumed here: `StoreUnlessOverrun`
says that until a body has run without its lease (`overran`, a history variable: the lease ran out under the body, or
before the token had arrived) every step is one of `DualStoreCommit`'s `Next`, its guard included.
The lock's own safety
properties are checked here, where bodies do outlive the lease. `CancelBody` is a cancellation inside the call, where `entity_lock`'s `finally` still runs; `Die` is a crash
of both.

### IdempotentWebhook

A request is at one of the awaits of `receive_payment`. `Credit` is the atomic insert under the unique index
together with the two branches on its result; `Deliver` does the token check and the parse, which come before
the first await. `Raise` is an exception of the awaited call with or without its effect (the framework
answers 500), `Lose` a response that never arrives or a process that dies. A transaction stands for its
notification, so every retry carries the same payload.

`Stranded(t)` is a payment that is recorded, lacks what its branch is for (the activation, or the alert), and has
no request on its way to do it: retries are duplicates and will not. The module's docstring promises both without
exception; the docs (`docs/02`, lines 161-164) know the window and give it to a sweep which is not in the
repository. `StrandedByFaults` is what the code itself guarantees: each fault strands one payment at most,
and no race of deliveries strands any. A fault is counted for each request it hits, so a process that dies with
several requests under way is several faults.

### ApprovalQueue

The queue's methods never await, so each is one action: `Propose` with its checks in the code's order
(killed, allowlist, backlog, rate), `Decide`, `Kill`. A refusal that changes nothing is no step. A request
outside of `Allowlist` stands for every request refused for its action, arguments or rationale. The interesting
input is `now`: the parameter's default is the system clock, and a caller may pass another, so a moment may be
up to `Lag` behind the clock and the moments of consecutive proposals need not be in order. The executor (a
separate worker, not in the repository) takes what `approved()` returns and records `executed` or `failed`.
`audit_log` keeps the order of the rows, which `AuditReconstructs` and `HaltIsEarned` read.

### JobHeartbeat and WorkerAlerts

A run goes through the awaits of `run_with_heartbeat`: `OpenRun`, `Body`, `CloseRun`; `open_run` and `close_run`
may raise before or after they took effect, and a cancellation in the body is no `Exception`, so all of these
leave the wrapper by an exception. `Kill` ends the process with its registry and leaves the rows; `Start`
brings it back with an empty one. A run's variables are used again, so `left` counts the rows that earlier
uses left at "running" (`MaxLeft` and more are alike, and two rows frozen by one kill count as one: the
rule only asks whether there are any).

`WorkerAlerts` adds the three families of `render_exposition` as the sets of jobs they name, and one action
`Evaluate`, which is an evaluation of the rules and a unit of time. `fresh` marks a success newer than the last
evaluation, whose age is 0. A rule with `for` fires when its expression has held for more than that many
evaluations without a break; `Longer` is that count. The exposition is served by the worker process, so it is
gone while the process is down. `frozen_runs` is computed by code that is not in the repository from rows that
do not say whether their run is alive: here it counts all of them.

### ToolGateway, EvalHarness and Assistant

`Register` and `Call` are the two methods that change state; neither awaits, a refusal changes nothing and is no
step. A tool's name, description and parameters are the length of the JSON blob that `schema_tokens` measures,
a query is a member of a small set, and `Mutating` are the queries that hold a forbidden word. `Call` appends
to the record and starts the handler, which is the tool's own code: it may go upstream (`GoUpstream`) or not, and
it returns or raises at any point (`HandlerEnds`). `reached` is the history of what went upstream, with the
tool that took it; `ReachedIsRecorded` asks for an entry of its own for each, in the order of the calls, whose
name still stands for that tool, and is checked while handlers are at work as well.

In `EvalHarness` a text, a query and a group are sequences of words. `prose` is the loop over the calls that
replaces each query, in the order of the calls and from left to right. A citation leaves as many blanks as it
has words where the code leaves one; nothing tells the two apart, since no query or group holds a blank.
`cited` looks for the first 24 characters of a query, which are its first `CiteLength` words here.
`score_case` has the keys of the code's dictionary: a refusal case has four, any other three, and `rates`
selects by them.

`Assistant` lets a model (external) call through the gateway and answer with any text; `Answer` scores it with
the question's part of the record, as "the audit trail, not the model's claim" asks. Beside the code's scores
it keeps `flawed`, the dimensions that some answer failed by their definition in the module's docstring:
`Flaws` reads positions of the untouched text. `Citations` are what line 124 accepts as a citation of a call, the
whole query or its first words from `CiteLength` on, and a group is reported where it stands outside of all of
them. `RatesTellFlaws` has two directions. A dimension that no answer failed has a full rate, whatever the
queries and citations look like. An answer that failed a dimension keeps its rate from being full; of
completeness this holds as long as every answer was `ClearlyCited`, its citations being of whole queries and
apart (`unclear` is the history of that), because lines 140-141 take out whole queries only, and one of two
overlapping ones. `FullRateIsComplete` is the claim without that restriction, which `CitedGroups` refutes. The
queries of `MCAssistant` refine each other and hold the groups asked for.

### MoneyParsing

An amount is a sequence of characters. `Coefficient`, a number read digit by digit over the point, and
`FractionDigits` are the two parts of a `Decimal`. `Excess` is how many digits the coefficient has more than
the context's precision, and `Rounded` what `scaleb` then does (half-even), and why the comparison of line
103, made of the rounded number with itself, cannot notice. `Numeral` and `Grouped` are the two formats of the
display. `Ten`, the reading and the reference sum are recursive functions so that they can be reasoned about.
The reference, `WellFormed` and `Sent`, does not build a `Decimal`: it adds up the digits by their distance
from the point. `ParsedIsSent` is what lines 103-104 and the docs promise, and does not hold beyond the context's
digits (`MoneyRounds`). `MisreadByRoundingOnly` is what does: what is accepted is well formed, equal to what
was sent as long as the context holds the digits, and off by half a place of it at most beyond. `ReadsAsItself` is about displays that come back as input.

### ConventionGuards

A line is a sequence of words. The flag is the parity of the earlier lines with an odd count of triple quotes,
which is what toggling it line by line amounts to. The reference is a lexer with code, comments and strings of
either quote: `Lex` is its step, `Modes` its course through a line and `StartMode` through a file, both
recursive functions so that they can be reasoned about. `Live` is what a file should be reported for by the
lexer, and `VerdictStands` compares it with `check_file` and `main` for files in the usual style
(`Disciplined`: one kind of triple quote, none in comments, no code beside one). `TextFunctions` enumerates
the inputs of this and of `MoneyParsing`: every state is an input, and the actions are the sender's and the
author's.

## Runs

Every bound is a CONSTANT of the cfg.

| cfg | question | bounds and why they suffice |
|---|---|---|
| `LockLeaseCovers` | is it a mutex when the lease covers the body, and does everything come free? | 2 sections, 1 entity, lease 4 > delay 1 + body 2: the tightest lease for which the exclusion should hold; 3 tokens, so that a request of a dead holder is under way while both sections hold a token. The hook returns or raises. No symmetry (liveness). |
| `LockErrorMasked` (violation) | does the body's exception survive hook and release? | as above, with a hook that raises |
| `StoreFaults` | all safety of one state change under all faults | 2 calls, 2 entities, 2 groups: both calls for different entities at once, and one after the other for the same |
| `StoreInvisible` (violation) | is every inconsistency visible in the stores? | 1 call at a time, no crash |
| `StoreUnaudited` (violation) | has every failure its audit row? | 1 call at a time, no crash |
| `LockedChange` | what can go wrong when calls outlive the lease, and is the lock enough until then? | 2 sections on 1 entity, 3 tokens, lease 2, delay 1, body 1: a body can reach the end of its lease and pass it, with a successor in its body and the late release of the first under way. Sections, tokens and groups are symmetric. |
| `WebhookRetries` | idempotence, honest answers, eventual acknowledgement; what can be stranded? | 2 requests at once; a known, an unknown and an unparseable transaction; unlimited deliveries; `MaxFaults` 1 fault per behaviour, anywhere |
| `ApprovalLimits` | limits, halts, decisions and the log | 2 allowed actions of which 1 reversible, an action that is not allowed, 2 operators, limits 2 and 2, 3 proposals, an hour of 2 units in 3, a clock up to 1 behind: both limits are reached, alone and at once, also by moments out of order; a proposal can leave the hour. Operators are symmetric. Deadlock is not checked: the bounds end each history. |
| `WorkerAlerts` | which broken jobs do the rules see? | 1 job, 2 runs at once, thresholds of 1 and 2 evaluations (different for the two rules that share a job), counts up to 3: each rule comes to fire, is interrupted and starts again |
| `Texts` | budget, record and scores together; do parser, display and guards agree with their references? | tools of 11, 10, 12 and 10 tokens with a budget of 22, so that it is reached exactly and missed by one, and rounding shows (91 characters > 4 * 22); two tools of one name, a write tool; a query and a longer one that begins with it, both holding groups asked for, and a mutating one; 3 cases, one for each of groups, truncation and refusal; every text of up to 4 words; 2 questions, 2 calls. Amounts of up to 6 of the characters `0 5 9 . ,` and blank, with a precision of 4 digits in place of 28: up to 2 digits are rounded, exact halves included; files of up to 4 lines in all out of 9 kinds (each rule, a waiver, a comment, both quotes, a docstring of one line), two files in scope and one out of it, one that cannot be read. Deadlock is not checked: the bounds end each history. |
| `CitedGroups` (violation) | does a full rate of completeness count reported groups only? | the tools, queries and cases of `Texts`, texts of up to 3 words, 1 question |
| `MoneyRounds` (violation) | is an accepted amount the one sent? | the amounts of `Texts` |

Entities are independent in `EntityLock` (no action reads two of them), so one entity with several sections is
where its interactions are. Jobs are independent in `WorkerAlerts` but for `WorkerMetricsAbsent`, which looks
at the whole roster. `MaxFaults` limits only TLC: the theorems about the webhook hold for every value of it.

What the violation runs show is in the findings of `PROJECT.json`, each with the line it contradicts:

- a task that is cancelled at its release loses the body's exception (and so does an `on_long_hold` that raises,
  which leaves the key to its lease besides);
- two failed changes, there and back, with a dial-in between, leave a session that disagrees with two stores
  that agree, which the module's "only reachable inconsistency" excludes;
- a rollback that raises in the handler leaves a failure without its audit row;
- an answer that cites a query by its first words, a group among them, counts as having reported the group;
- an amount of more digits than the decimal context holds is accepted as another amount.

## Fairness

- `EntityLock`: time passes (`Tick`); an acquire whose wait has run out is answered (the backend's own
  contract, "or None if `wait` elapsed"); a token under way arrives, and a body ends (both by the bounds
  `MaxDelay` and `MaxBody`). Nothing is assumed of releases: `KeyFreed` rests on the lease alone.
- `IdempotentWebhook`: a request that has started is worked on (weak fairness of each handler), and the
  provider delivers a notification that has not been acknowledged again and again (strong fairness, since
  all handlers may be busy time after time): "Providers retry". `PaidIsAcknowledged` needs that faults are
  finitely many, which `MaxFaults` states.
- `WorkerAlerts`: the rules are evaluated for ever (weak fairness of `Evaluate`). Nothing is assumed of jobs,
  the process or the store; the premises of the three liveness properties say when the process stays up or away, or the job is dropped.
- `ApprovalQueue`, `DualStoreCommit`, `LockedStateChange` and `Assistant` have no liveness properties: nothing in
  the code retries.

## Proofs

All for every value of the constants, from the named assumptions of the modules: `LockConstants`,
`StoreConstants`, `BothConstants`, `WebhookConstants`, `QueueConstants`, `HeartbeatConstants`,
`AlertConstants`, `GatewayConstants`, `HarnessConstants` (a blank is no word, a citation has some length),
`EvaluationConstants` (texts, queries and groups are sequences of words, the latter two not empty),
`MoneyConstants` and `LinesArePlain` (a line has no line end within). What a theorem assumes beyond these
stands in its statement. Every invariant and action property of a passing run is stated by a theorem. Each
proof module but `TextFunctionsProofs` has a theorem of type correctness beside the following.

**`EntityLockProofs`.** `LeaseIsHonoured` is the core. It is not inductive: the strengthening `Leased` adds
that a section holds a token exactly from its grant to its return, that no two sections hold the same token
(`DistinctTokens`), that a release under way carries nobody else's token (`NoForeignRelease`), and that the
key's `ttl` is at least what is left of the section's lease (`LeaseTracked`). The step that needs it is
`DeliverRelease`: a late release of an earlier holder would otherwise free the present one's key.
`OverlapsAreOverruns` follows, since one key has one owner. `LeaseCoveringExcludes` adds `BoundedPhases` (what
`Tick` guarantees of delays and bodies) and assumes `LeaseCoversBody`; `OverrunsAreReported` assumes
`WarningPrecedesLease`. `BodyErrorsSurvive` assumes `HookReturns`, and of the behaviour that no step cancels a task at
its release (`[][ReleaseUncancelled]_vars`): every other way out of a body that raised, a release that fails
included, gives the caller the body's exception. `LockErrorMasked` shows what happens without.

**`DualStoreCommitProofs`.** `ImplementsProjectionLeads`: with `OneCallPerEntity` and `ProjectionWritten` (from
the device command on, the projection of the call's entity is its target), each step is a projection write,
a commit of what the projection holds, or a stutter. `SuccessIsComplete` adds `TruthCommitted`, `OneSession`
(a session is up or coming up, not both) and `AppliedHolds` (after APPLIED whatever dials in has read the
target). The audit properties share `Trails`, what a call
has written and knows at each of its awaits: nothing is durable before the commit, a refusal never reaches it, the
success row is awaited only with a durable change, and each way out has its one row. `FalseFailuresAreComplete`
follows from what `SuccessIsComplete` rests on, since that holds from the durable commit to the end of the call.

**`LockedStateChangeProofs`.** Each step is one of `EntityLock`'s (`ImplementsLock`), without any assumption on the
lease, so the lock's theorems carry over: `LeaseIsHonouredHere`, `OverlapsAreOverrunsHere` and
`OverrunsAreReportedHere` are those of `EntityLockProofs`, taken over by INSTANCE. `TypeCorrect` rests on
`AnyStepTypes` of `DualStoreCommitProofs`, which does without the exclusion: calls may overlap here. `Nested` relates the two parts: a call that is under way is in the body of its
section (`CallInBody`) and for the key it has locked, and a body without its lease has set `overran`
(`OverrunKnown`). While `overran` is false two calls for one entity would be two owners of one key, which is how
`LockIsEnough` discharges `CallerHoldsLock`. When `LeaseCoversBody`, `overran` stays false and the composition
implements `DualStoreCommit` (`ImplementsStore`); `LockedSuccessIsComplete` then is that module's `SuccessIsComplete`,
taken over by INSTANCE.

**`IdempotentWebhookProofs`.** `ActivationIsQueuedOnce` needs `OneEnqueuer`: of all requests at most one is about
to enqueue a transaction, and then it is credited and not yet queued. The two theorems on answers add that
what a request is about to answer is backed already (`AllBacked`). `FaultsStrandOneEach` counts: a handler step or
delivery strands nobody (`NoFaultNoStrand`: a strand needs a request that gives up), a fault touches the
one transaction of its request (`FaultStrandsOne`), so the set of stranded ones grows by one at most when `faults`
does. `OnlyItsOwn` says that a step of one request leaves the other transactions' strands as they are.

**`ApprovalQueueProofs`.** `HourlyRateHolds` and `BacklogIsBounded` from `Limits`, where the step that counts
is `LimitsAccept`: the hour that ends with a proposal already there may gain the new one, but then every
proposal of that hour is `Recent` at the new moment, so there were fewer than `max_per_hour` of them. This
holds for moments in any order because the code's comparison has no upper end (a proposal dated after `now`
counts). `LogReconstructs` strengthens `AuditReconstructs` by `RowsKnown` (rows speak of existing proposals)
and `PendingUnmarked` (a pending proposal has no row of an irreversible approval). `HaltsAreEarned` reads the
log before each halt. `HaltInv` adds `BacklogCounted` (the rows of creations outnumber those of decisions by
the proposals pending now) and `DatedByClock` (no proposal is dated after the clock); when a limit halts the
queue, the first turns the backlog into rows, and by the second the recent proposals lie within one hour and
its lag. Rows before a halt never change, so it stays earned.

**`WorkerAlertsProofs`.** `StatusRecorded` adds `UnderWay`, what row and status of a run are at each await.
`BrokenJobsAreSeen` rests on `Counted`: the count of the rule in charge of a job is at least the length of the
job's silence. A success changes which rule is in charge, between two evaluations, and that is why `Counted`
speaks of `fresh`.

**`AssistantProofs`.** `RecordIsComplete` from `ReadTools` (no two registered tools share a name, none writes)
and `Recorded`: there is an increasing map of what went upstream into the record (`Entered`), and the entry of a
handler that has not gone upstream yet is the last and not in its range. A registration keeps it because a name in
the record is taken. Type correctness includes that
each report's keys are one of the two sets `score_suite` can meet. `SchemasFitBudget` is about a sum over the
set of registered tools. The library's sum is recursive, so a sum is taken to be the number of cells of a
tableau (`Cells`: for each tool as many as it has tokens), which grows by disjoint union; that the two agree
is `SumsCells`, from the smallest set on which they would not. `BudgetInv` bounds the cells; a registration
adds those of one tool (`RegisterBudget`).

`RatesAreHonest` compares two descriptions of a text: the code replaces the queries one after the other, the
reference looks at positions of the untouched answer. `Masked(text, places)` is a text with some places blanked.
A replacement from left to right blanks some occurrences of its query, and all of them if they do not overlap
(`ReplacedIsMasked`), also in a text that is masked already (`ReplacedInMasked`). So the loop ends with a mask of
places that whole queries cover, and, where no citation overlaps another, of all of them (`ProseIsMasked`, by
the first call for which it would not). A group that stands outside of every citation is therefore always found,
and, when the answer is `ClearlyCited`, no other is (`GroupIsFound`). An answer is grounded exactly if a citation of
some length stands in it (`CitedIsGrounded`). `ScoresTellFlaws` puts the dimensions together, `FlawsReported` is the
inductive invariant over the reports, and a percentage is 100 only if the two counts agree (`FullRate`). That the
code's two recursive functions exist for every text is `TakenExists` and `AfterExists`.

**`TextFunctionsProofs`.** `VerdictsAreWarranted` is about two computations from left to right: the code's
parity of quotes and the lexer's mode. `PlaceInduction` is induction over places with a set in place of a
predicate, from the library's `WFMin` (a smallest place outside of the set). Within a line of the usual style,
`Tracked` says which mode the lexer is in by the number of triple quotes passed (`LineTracked`); across lines,
`Agreed` says that the flag is up exactly if the line starts in a docstring (`FileTracked`). So a line's
findings are live (`FindingsAreLive`), and the exit code follows by cases. `AcceptedIsWellFormed` takes a text
apart by places: `Strip` is the part between the first and the last place without a blank (`StripText`), and
what is left is accepted exactly if it has the shape `Proper`, with the point at one place or after the last.

`MoneyIsMisreadByRoundingOnly` and `DisplaysAreNotMisread` need powers of ten with a variable exponent, of which the
prover has no theory. That there is a function with the recursion `Ten` is written with is proved first, like
every other recursive function here (`CountExists`: functions up to a number, each an extension of the one
before, and the number without one would have a smallest), and then that powers multiply and grow (`TenSum`,
`TenGrows`). For the parse, what the code has read and what the reference has summed up to a place differ by a
power of ten whose exponent falls by one with each digit (`SumsAsRead`), so over a whole text the coefficient,
moved to its place, is the money sent (`SentIsRead`). Rounding has the unit 1 as long as the context holds the
number (`ExcessIs`) and otherwise moves it by half a unit at most (`NearestIs`, `Spread`). For the display,
the first digits of a numeral read as the number divided by a power of ten (`NumeralReads`), so an amount
below 1000 whole units reads back (`DisplayRead`) and, being rounded, is not rounded again (`RoundedStays`); a
larger one has a fourth digit, hence a separator (`MoreGroups`), and is refused.

Only model-checked: liveness (`KeyFreed`, `AcquireReturns`, `PaidIsAcknowledged`, `FrozenRowIsSeen`,
`BlindnessIsSeen`, `DroppedJobIsSeen`), which is beyond the prover as is ENABLED.

The library's induction theorems take an operator as a parameter, which the provers cannot instantiate. Where a proof
needs induction over data it takes a smallest counterexample from a set instead (`WFMin`), which they can.

## Not modelled, and assumptions

- The effect of a network call never lands after the call has returned, raised or been cancelled, except for
  lock releases, where it does.
- Clock drift between the lock backend and its clients; the code has no defence against it (no fencing token).
- Retries of a notification with a different payload under the same id.
- Nested use of the lock for one entity by one task, which the docstring forbids and nothing prevents.
- Not in the repository, and so at most environment: billing, router drivers, reconciliation, the activation
  path and sweep, the database and Redis themselves.
- In the harness: letter case, empty queries (`""` occurs everywhere), the two regular expressions beyond the words
  they match, the notes of a report.
- In the gateway: what a schema says; `advertised`, which only reads; a handler's result.
- In `money`: the currency prefix, the negative argument `format_minor_units` refuses, and `minor_unit_digits = 0`.
- In the guards: the regular expressions, beyond the word each matches.
- The synthetic data generator: seeded sampling without state that outlives a call.
- Time in `WorkerAlerts` is counted in evaluations, all at one distance; a scrape that fails while the process is
  up is not told from the process being down.

Differences between text and code that were noted and have no run:

- the docs say a retry of the webhook gets the answer of the first delivery; the code and its test say
  `duplicate`;
- the docstring of `StateChangeFailed` says the store was not committed, which an exception after a durable commit
  contradicts (`FalseFailureIsComplete` says in what state it leaves the stores);
- `run_with_heartbeat` "returns the terminal status rather than raising", but exceptions of `open_run` and
  `close_run` leave it (`status = "exception"` in the model);
- WorkerFrozenRuns "indicates the process was killed mid-run rather than raising an exception"; a `close_run` that
  raises, and a cancellation, leave the same row;
- WorkerNeverSucceeded names "a deploy that dropped the job", and a job that is not registered is not on the roster
  the rule joins: dropped before its first success it is seen by no rule while other jobs are registered;
- docs/04 speaks of failure-rate rules; no rule reads the last failure;
- a process that restarts more often than a rule's `for` never lets the rule fire;
- the webhook's docstring promises that the activation is queued; a fault between the credit and the enqueue
  strands it (see IdempotentWebhook);
- with `minor_unit_digits = 0` an amount is displayed with a fraction, "5.0", which the parser refuses;
- where one cited query overlaps another, the order of the calls decides what is taken out of the prose;
- a refusal case counts as passed in the rates of the three other dimensions; the rate of a dimension no case asks
  about is 0, which fails its gate;
- a call whose handler raised, and so returned no data, counts for grounding;
- "Every call is recorded": refused calls are not;
- the budget is checked at registration only, and both it and a tool's `parameters` can be changed afterwards;
- a triple quote in a comment, or one kind within the other, inverts the guards' flag for the rest of the file; code on
  a line with a triple quote is passed over; a pattern in a trailing comment is reported;
- a file that cannot be read ends `main` with 2 and drops the findings of the files before it.

## Plan

Done: every component with behaviour of its own has its module, in this order: what several actors share
(`EntityLock`, `DualStoreCommit`, `LockedStateChange`, `IdempotentWebhook`), what outlives a crash
(`JobHeartbeat`, `WorkerAlerts`), what has limits (`ApprovalQueue`, `ToolGateway`), what only computes
(`EvalHarness`, `MoneyParsing`, `ConventionGuards`). Theorems of type correctness, of the refinements and of
every invariant and action property that a passing run checks.

Left, by what it would add:

1. Nesting of the lock by one task, which would time out on itself.
2. The alert rules about sites and the monitoring itself, once their inputs are in the repository.
