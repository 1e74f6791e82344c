# Verification of the K-AI security gateway

TLA+ models of the request path of the gateway (detection, policy, routing,
masking, response guard), of its approval workflow with the faults it meets, of
its evidence chain and the reports made from it, and of the dashboard's panel,
the TLC configurations that check them on small instances, and TLAPS proofs of
the properties that matter most for every size of the instance.  Paths below
are relative to the repository root; `queue.py` is
`src/kai_security/approval/queue.py`, `main.py` is `apps/gateway_api/main.py`.

    tlc -workers 2 -config MCApprovalQueue.cfg MCApprovalQueue.tla
    tlapm ApprovalQueueProofs.tla

## 1. The system

The gateway stands between clients and a language-model provider.  A request
is scanned by detectors, judged by a policy, and then passed on, masked,
blocked, or held for a human approver.  A held request is stored as an
*approval*; approving it executes the stored request at the provider.  Every
decision leaves an event in a hash-chained evidence store.

| Component | State | Operations | What makes it correct |
|---|---|---|---|
| Approval queue (`queue.py`) | `_requests`: approval id -> `ApprovalRequest`, one `RLock` | create, attach_context, begin_execution, fail_execution, finish_execution_success, reset_execution_error, reject_pending, resolve, recover_stale_executions, get, list_pending, list_stale_executions | one running attempt per approval; an attempt settles once; approved only by the attempt the approval names; terminal states are final; a refused retry needs a reset |
| Approval handlers (`main.py`) | locals of each request thread | chat completion and evaluation requests that need approval, resolve, recover-stale, reset-execution-error, pending list | approved means executed; failures return the approval; each outcome has exactly one event and the event is true; nobody is left executing |
| In-memory evidence store (`evidence/store.py`) | list of events | append, list_events, count_events, verify_chain | nothing lost, append only, the chain verifies |
| SQLite evidence store (`evidence/sqlite_store.py`) | one table, one connection, one `RLock` per process | the same | the same, across threads, processes, timeouts and crashes |
| Provider adapters (`providers/`) | none | complete | every failure becomes a `ProviderError` with the right retry verdict |
| Gateway evaluation service (`gateway/service.py`) | the policy set; locals of each request; calls queue and evidence store | evaluate, simulate | every decision is that of the policy file; nothing is answered or sent on without its events |
| Policy engine and DSL (`policy/`, `policies/`) | rules | load_policy_set, decide_policy | the first rule by priority and position wins; a bad file is never served; the built-in priorities resolve the overlaps of the rules the right way |
| Model router (`model_router.py`) | none | choose_route, choose_approved_route | held requests have no route; the recorded route is the one taken |
| Detectors (`detectors/`) | none | detect, mask | findings never overlap, every match starts inside one, masking replaces exactly the findings |
| Response guard (`response_guard.py`, `main.py:361`) | none | guard_response_text, the loop over the choices | a blocked choice leaves nothing behind; the recorded action is the strictest |
| Reports and audit queries (`reports/`, `main.py:1105-1290`) | locals of each request | evidence package, policy and privacy report, audit query | the chain verdict covers the events shown with it; reports count each decision once; a limited query returns the first events of its order |
| Admin dashboard (`apps/gateway_api/static/admin.js`) | page state in the browser | tokens, refresh, resolve, reset | one call per approval at a time; no button outlives the admin token or stays on an item that is being processed; each is backed by the list and the tokens, but for what a failed call enables on its own item |
| Payloads, models, command line | none | formatting | - |

**How they interact.**  FastAPI runs the synchronous handlers in a thread
pool, so several handlers run at once in one process.  They share one queue
and one evidence store.  A queue method holds the queue's lock and is atomic;
a handler is a *sequence* of queue methods, a provider call and evidence
appends, and other handlers run between any two of them.  Several gateway
processes may share one SQLite file, but each has its own queue.

**What is hard.**  Late answers of a provider call whose attempt was recovered
meanwhile; the window between `create` and `attach_context`; a handler that
dies with an approval executing; a read before a lock and its use after it
(reset, recovery clock, hash of the last event); outcome and event written in
two steps; the SQLite transaction that starts after the SELECT; a crash
between INSERT, commit and return; an append that raises, or a restart, in the
middle of a request; policy rules that overlap; detections that overlap, and
tokens of another length than what they replace; a report that is made while
events are appended; answers that reach the dashboard out of order, after a
token is gone or the item they belong to has been drawn anew.  `PROJECT.json` lists each with its line
and the properties that would notice it going wrong.

## 2. Modules

| Module | Models | State and actions |
|---|---|---|
| `ApprovalLifecycle` | abstract: what a user of the queue is promised | stage of an approval, outcome of an attempt; Open, Start, Succeed, Lose, Reject |
| `ApprovalQueue` | `InMemoryApprovalQueue` | `requests` is `_requests` (an id without an entry has status "absent"); one action per method; `attempts` is a history of what became of each `execution_attempt_id`; `clock` is `datetime.now` |
| `ApprovalGateway` | the handlers, extends `ApprovalQueue` | `job[h]` is the program counter and the locals of thread h; `provider[e]` is the call made for attempt e; `log` is the evidence store; `origin` remembers which endpoint created an approval; a stored context is named for what the executor makes of it (`RefusedChats`, `ContextType`, `CanExecute`) |
| `ProviderAdapters` | `providers/` and the error summary of `main.py` | operators: what a provider's answer is turned into, its retry verdict and failure domain |
| `ApprovalService` | the same handlers in a process that fails, extends `ApprovalGateway` | AppendRaises (500, the rest of the handler is not done), Restart (queue and threads are gone, evidence stays); `unrecorded` remembers what a fault took |
| `EvidenceLog` | abstract: an append-only log without repetitions | |
| `HashChain` | record and chain hashes, `verify_chain` | a hash is the sequence of events it commits to (collision-free, as the code expects of sha256) |
| `MemoryEvidence` | `InMemoryEvidenceStore.append` by several threads | ReadTail, AppendRow |
| `AuditReports` | `reports/generator.py` and its callers, extends `MemoryEvidence` | `progress[r]` is where `evaluate` is with request r; RecordEvaluation (its next event), RecordOutcome (the guard's and the approval handlers' events) and StoreEvent of other threads between ListEvents, CountEvents, VerifyRow (one turn of the loop of `verify_chain`) and AnswerPackage of an evidence package; reports and queries as operators on the log |
| `SQLiteEvidence` | `SQLiteEvidenceStore.append` by several processes of several threads | Call, Acquire (the RLock), SelectTail, Insert (takes SQLite's write lock), Commit, Return, TimeOut ("database is locked"), Crash |
| `PolicyEngine` | the pure part of the request path: detection results, `policy/dsl.py`, `policy/engine.py`, `model_router.py`, `response_guard.py` | operators; a text is a value, what is found in it (`Detected`) and what masking makes of it (`Masked`) are constants |
| `ChatCompletion` | `GatewayService.evaluate` and `simulate` and the endpoints that use them, extends `PolicyEngine` | `job[r]` is the thread of request r and its locals, `events[r]` what the evidence store holds of it, `approval[r]`, `call[r]` what a provider was sent, `service` the process with its policy file |
| `PiiMasking` | `detect_korean_pii` with `_normalize_matches` over spans of positions | one iteration of a loop is one step: SortMatches, FilterMatch, StartMasking, MaskFinding, Return |
| `Orders` | what `sorted()` and a filtering comprehension return, for `PolicyEngine` and `AuditReports` | an element is placed by the number of elements before it |
| `AdminDashboard` | the approval panel of `admin.js` | a step is what a handler does between two awaits; `buttons` is what the document lets one press, `refreshing` and `clicked` the calls under way; `revived[a]` remembers that a failed call enabled the buttons of the item on display |
| `*Proofs` | theorems about the module they are named after; `ListProofs` lemmas about orders, filters and hash chains | |
| `MC*` | instances for TLC | |

A queue method that raises `KeyError` or `ValueError` changes nothing, so it
is the stuttering step of a disabled action.  A handler that gets such an
error continues with its except branch (`Refused`, `ReadConflict`,
`ResetError`).  Operators commented "Mutant" are plausible bugs; no
specification uses them, they only show that each property can fail.

`ApprovalGateway` composes the handlers with the queue by EXTENDS: a handler
step conjoins a queue action with its own variables.  `ChatCompletion` composes
the decision with the handlers that act on it the same way; of the approval it
keeps only what a client request does to it, since the rest is the subject of
`ApprovalGateway`.

### The handlers

| Handler | Steps in the model |
|---|---|
| `POST /v1/chat/completions` (decision require_approval) | ChatRequest (`GatewayService.evaluate` creates the approval with a policy-only context), AttachChatContext |
| `POST /v1/security/evaluate` | EvaluateRequest |
| `POST /v1/approvals/{id}/resolve`, approved | Approve (begin_execution), ExecuteStoredContext, ProviderReturns, CheckAttempt, Finish or Fail, then RecordResolution and RecordExecution, or RecordFailure, or ReadConflict and RecordConflict |
| the same, rejected | Reject, RecordResolution |
| `POST /v1/approvals/recover-stale` | RecoverStale, one RecordRecovery per recovered attempt |
| `POST /v1/approvals/{id}/reset-execution-error` | ResetRequest (the first get), ResetError, RecordReset |
| `GET /v1/approvals/pending` | OffersResolve, OffersReject, RecommendedAction: what the payload tells the operator |

In `ChatCompletion` the client endpoints are followed through in full:

| Handler | Steps in the model |
|---|---|
| `create_gateway_service`, death of the process | Start, Restart |
| `POST /v1/policies/simulate` | Submit: detection, decision and route, no event |
| `POST /v1/security/evaluate` | Submit, RecordEvaluation once per event (CreateApproval before approval_requested) |
| `POST /v1/chat/completions` | the same; then AttachContext if the request is held, nothing if it is blocked, else SendToProvider, ProviderReturns or ProviderFails, GuardChoice once per choice, RecordResponse |
| an append that raises | AppendRaises: 500 |
| an approver's handlers | Resolve, at any time |

A provider call comes back with a valid response, a response of the wrong
shape, one of the adapters' errors (HTTP 4xx, 429 or 5xx, timeout, network, not JSON), with
`value_error` (a `ValueError` out of the adapter, such as the
`UnicodeDecodeError` of `openai_compatible.py:95`) or with `crash` (an
exception the adapter and `resolve_approval` do not catch).  Which of them can
happen is a constant, so that a run or a theorem can say what it depends on.

## 3. What TLC checks

| Run | Instance | Shows |
|---|---|---|
| `queue` | 2 approvals, 2 attempts, 2 contexts, 2 errors (one resettable), timeouts {1,2}, limits {1,2}, clock to 2 | arbitrary callers: attempts and executing approvals match, approved only by its own attempt, stored context is the executed one, failure times in order, verdicts with their errors, terminal is final, refusal needs reset, and the queue implements `ApprovalLifecycle` (in which a settled attempt is never settled again) |
| `service` | 2 threads, 2 approvals, 2 attempts, 6 provider results, 5 API calls, 1 append that raises, 1 restart | approved means executed; a context that failed validation never reached the provider; no pending approval is wedged; the operator's flags are honoured, but for a chat the executor refuses and has not tried yet; of the calls made for one approval at most one may still be acted upon; the evidence is true across restarts, and whatever is missing was lost to a fault |
| `gateway_live` | 2 threads, 1 approval, 2 attempts, results the code catches, 5 calls, fair | no approval without a thread that will settle it, conflicts are real, every execution ends without an operator, and the handlers implement the queue specification |
| `reports` | 2 threads that append 8 events of 2 requests to the in-memory store, one evidence package at a time, limits: default (6) and negative, 10 queries | the verdict on the chain covers the package whatever is appended meanwhile; a package called complete holds all that `evaluate` records, and `evaluate` is over; reports add up; a limited query returns the first events of its order; the chain breaks exactly by a race; append only |
| `sqlite_evidence` | 2 processes of 2 threads, 4 events, 1 killed process, fair | the table holds what was acknowledged, whatever is killed when; every append ends; the chain breaks only by a fork between the two processes, so the chain of one process always verifies |
| `chat` | 2 requests, 11 submissions, 4 policy files, 12 texts, 3 responses, 3 kinds of failure, 1 append that raises, 1 restart | nothing is sent without its evidence; decisions are those of the file; the external provider is protected by the built-in rules; every delivered choice is guarded and the recorded action the strictest; answers are recorded; a held chat is stored as it came |
| `pii_masking` | a text of 5 characters, every list of up to 3 matches of 3 patterns, tokens of 2 characters | findings are disjoint, of a match only a tail behind an earlier finding can be left, masking replaces exactly the findings |
| `dashboard` | 1 approval, 2 refreshes and 2 clicks under way | of two calls under way for one approval one has lost its mark; no button outlives the admin token or stays on an item marked as processed, and each is backed by the list and the tokens but for those a failed call enabled on its own item |
| `chat_window`, `uncaught`, `memory_fork`, `zone_ignored` | the smallest instance with the case | the code departs from what its documentation says, see section 5 |

**Bounds.**  `ApprovalIds`, `AttemptIds` and `Events` are the uuids that can be
issued; `MaxClock` bounds the clock, `MaxCalls` the API calls (and approvals
put in the queue by the embedding program), `MaxCrashes` the crashes.  Two attempts are the least with which a late answer of the first
meets the second; two approvals the least with which a mix-up of approvals or
a recovery limit smaller than the stale set shows; two threads suffice for
every race here, since each is between one handler and one other.  Five calls
let one approval be created, executed, refused, reset and executed again, or be
recovered and executed again while its first handler is still at the provider.  A clock to 2 gives executions of three ages with timeouts 1 and
2.  For `chat`: `MCSubmissions` has one request for every built-in rule and
those several rules match, `MCDocuments` a missing, a malformed, a valid and
an invalid file, the valid one out of priority order with a tie and a rule
that never matches; requests share nothing but the process, its policy file and
the two budgets, so two are enough for one to be answered under one file and
the other, after a restart, under another.  One failing append and one
restart per behaviour reach every position, since nothing retries.  For
`pii_masking`: three spans on five positions are the fewest with which an
overlap of two with a third between, a touching pair and a tie at the start
all occur; a token of two characters is longer than some matches and shorter
than others.  For `service`: one failing append and one restart reach every
position in a handler, and a restart after a failure shows evidence of two
processes; the results that differ for the handlers are one of each kind
(`network`, `http_4xx` and `bad_shape` have the three pairs of verdict and
error).  For `reports`: the limit of 6 is passed while 8 events are recorded;
a negative limit is read as 0.  For `dashboard`: approvals share nothing but
the tokens and the list, which is drawn as a whole, so what two of them could
show is shown by one; two refreshes let an old answer come last, two clicks
let one call outlive the item it was made from.  Risk scores are counted in units of 0.05 (weights 0.2, 0.35 and
0.4, thresholds 0.7 and 0.85), which compares like the floating-point sums for
every number of findings.  The proofs of section 4 remove the bounds for every safety property.

`CHECK_DEADLOCK FALSE` appears where the bounded uuids, events and calls run
out: a state in which all are used is an end of the model, not of the program.
The dashboard has no such bound and is checked for deadlock.  That nobody waits for ever is checked by the liveness
properties.

Each module has a type invariant, `TypeOK`, `GatewayTypeOK` and so on; those
that are proved are not run again.

**Symmetry** is used in `queue`, `service`, `reports`, `dashboard` and `chat`, over ids that the
specifications only compare, and not in runs with liveness properties.

**Fairness.**  `FairGatewaySpec` is weakly fair to `Continue(h)` of each
thread: the server keeps running a request it has accepted, and a provider
call returns because the adapters pass a timeout to `urlopen`.  It is not fair
to new calls, so `ExecutionsEnd` does not rest on anybody calling
recover-stale.  `FairSpec` of `SQLiteEvidence` is weakly fair to each thread's
work: neither the `RLock` nor SQLite's busy handler is first-come
first-served, so with appends arriving for ever a thread could starve;
`AppendsEnd` speaks of finitely many.

## 4. What is proved

`ApprovalQueueProofs`, for any sets of ids, contexts, errors, timeouts and
limits that satisfy `SetsAssumption` and `NumbersAssumption` (None is not an
id; resettable errors and recovery reasons are errors; timeouts and limits
are positive):

* `TypeCorrect`, `FailureTimesCorrect`, `VerdictCorrect`: each inductive next
  to the type invariant.
* `RunningCorrect`, `ApprovedCorrect`, `ExecutedContextCorrect`: from
  `AttemptInv`, their conjunction and the facts they lack alone.  That an
  approved approval's attempt succeeded is preserved only because attempt ids
  are fresh; that the executed context is the stored one only because an
  executing approval's attempt is its own, which is the first part.  The
  invariant speaks of approvals that are in the queue, so it also survives a
  restart, which empties the queue and keeps the history of its attempts.
* `SettledCorrect`, `TerminalCorrect`, `RefusalCorrect`: action properties
  from the same invariants.
* `QueueImplementsLifecycle`: every method maps to a step of
  `ApprovalLifecycle` or to a stutter (a reset and attach_context are
  invisible; a recovery of several approvals is one `Lose`).

`ApprovalGatewayProofs`, in addition for any threads and provider results
(`GatewayAssumption` says which names the handlers use, and which of the errors
they record can be reset or be the reason of a recovery):

* `GatewayTypeCorrect`, from `GatewayInv`: the type invariant, `AttemptInv`
  and `JobsReady`, which says that a thread's local variables are set by the
  time its program counter uses them.
* `GatewayImplementsQueue`: every handler step is a queue method with
  legitimate arguments or leaves the queue alone.  All of the queue's theorems
  therefore hold in the gateway.
* `HandlersKeepExecutions`: if provider calls return or raise the adapters'
  own errors, every executing approval has a thread that holds its attempt and
  is on the way to settle it.  The hypothesis is needed: the run `uncaught`
  shows what happens without it.
* `ApprovedWasExecutedCorrect`: from `OwnerInv`.  No two threads ever hold the
  same attempt id, so a provider result cannot be overwritten between the
  check of the response and `finish_execution_success`; the context a thread
  executes is the one its attempt was begun with; a thread at `finish` with a
  chat context has seen a valid response.

Its second half is about `ServiceSpec`: the same handlers with any number of
appends that raise and restarts.  It proves every invariant that the run
`service` checks, and `ConflictMeansMoved`.  A handler has many steps and the
properties many parts, so what a step does is stated once, in the terms the
invariants need (the lemmas named `...Effect`; `ServiceStep` and `FaultStep` say
that a step of the service is one of those or a fault), and each part of the
invariant is preserved from that.  The parts of `ServiceInv` are:

* `GatewayInv` and `OwnerInv`, as above: they survive both faults.
* `CallsInv`: where a thread is tells whether its attempt may have reached a
  provider; one that was not begun, or that ended in `invalid_context`, never
  did.  Gives `InvalidCorrect`.
* `RefusalInv`: a refusal that is not retryable has an error that can be reset,
  and a context error is exactly what ends in `invalid_context`; it has to be
  known while the thread at `fail` still carries the refusal.  Gives
  `RefusedCorrect` and, with `TriedInv`, `OffersCorrect`.
* `TriedInv`: a thread at `fail` whose context the executor refuses carries the
  status `invalid_context`, so an attempt that failed with such a context closed
  its approval: invalid_context, then perhaps rejected, or gone with a restart.
* `LivesInv`: of any two attempts of one approval one is dead.  Not inductive
  without the fact that a succeeded attempt's approval is approved, or lost by a
  restart, so that no further attempt can begin.  Gives `OneLiveCallCorrect`.
* `SeenInv`: what a reset handler has read of an approval still describes it as
  long as the attempt it read is the approval's.  Gives `ResetEventCorrect`.
* `EvidenceInv`: the log is true and tells each end once (`LogInv`), and what a
  thread is about to append is true, not yet told, and promised by no other
  thread (`PromisesInv`).  A log event is only as true as the promise it was
  appended from, and a promise stays true because settled attempts stay settled.
  Gives `EvidenceTrueCorrect`.
* `AccountInv`: each end of an attempt or approval is told, owed by a thread at
  the step that appends it, or lost to a fault; `MissingEvidenceIsAFault` says
  so without naming who owes which kind of event.  Gives `MissingEvidenceCorrect`.

`ConflictMeansMovedCorrect` adds `ConflictInv`: the attempt of a thread at
`conflict` is not current, and an attempt that was begun and is not current
never is again (`CurrentStep`), so what the thread reads next shows it.  Its
hypothesis, that no exception of a provider call is a `ValueError`, is needed:
the handler's `except ValueError` takes one for a conflict (run `uncaught`).
`FailedExecutionReturnsUnlessUncaught` says the same of the property that run
violates: without results that no handler catches, or takes for a conflict, it
holds.

`ChatCompletionProofs`, for any texts and whatever the detectors find in them,
any policy files, requests, endpoints, responses of any length and failures:
all the properties the run `chat` checks.  The assumptions are
`TextAssumption` (masking changes a text exactly if something is found in it;
nothing is found in the safe response) and `ChatAssumption` (the shapes of
requests and policy files, and a valid response has a choice).  That `sorted()`
puts the rules of any file in order is `SortingSorts`.  The
argument is one inductive invariant, `ChatInv`: next to the type invariant and
the loaded policy set it says of each request, with its events, call and
approval,

* `Decided`: decision and prompt are what the file and the request determine,
  and stay so;
* `Evidence`: the program counter tells how many events are written
  (`Position`), and each event is the expected one with the values of the
  thread's local variables, which therefore may not change under it;
* `Called`: a call was made at five events at least, with the route and the
  prompt of the decision, and only for a decision that holds nothing back;
* `Guarded`: the choices guarded so far are a prefix of the response, and the
  aggregate is the strictest of their actions;
* `Stored`: the approval of an answered held chat request has its context.

None of these is inductive alone: that what is sent is recorded needs the
program counter to agree with the events, and that needs the decision not to
change.  `NextEvent` is the heart: the order of the steps of `evaluate` and the
order of the events agree.  `DecisionFollows` shows that taking the first match
in the sorted list is taking the rule of least priority and position in the
file; `ExternalIsProtectedCorrect` applies it to the nine built-in rules.
`RestrictedNeedsApprovalIfNamed` follows from it: if every request names the
external zone, the property that the run `zone_ignored` violates holds.

`PiiMaskingProofs`, for any length of text, patterns and matches:
`MaskingTypeCorrect`, `FindingsDisjointCorrect` (the findings kept are in
order and end before the scan's `last_end`) and `OnlyTailsRemainCorrect`
(a match that is dropped starts inside a finding already kept, which is at
least as long if they start together, by the order of the sort).

`MaskingExactCorrect` is about what a fold over the findings builds, by steps
that cut and join texts of changing lengths.  `ExactInv` says of every state of
the loop what each character of the original has become (`Masks`: a token,
nothing, or itself) and that the text is these, one after the other.  The loop
goes from the last finding to the first, so what precedes the findings already
masked is still as long as in the original, and the offsets of the next one
are right (`CutCharacters`, `ReplaceCharacters`).  What `FlattenSeq` returns is
stated once, by the list of its intermediate results (`FlattenSeqFlattens`).

`ListProofs` holds the lemmas that several of the proofs rest on:

* induction in the form of sets: a set of numbers that is not empty has a least
  one (`LeastNumber`), a set with 0 and the successor of each of its members
  has every number (`SetInduction`).  The induction theorems of the library take
  an operator as a parameter, which the installed provers cannot instantiate; a
  set can be;
* orders: in a strict total order of a finite set the number of elements before
  an element tells them apart and takes every value (`RankOrders`, `RankOnto`),
  so `Ordered` lists each element once, in order (`OrderedIsOrdered`), and
  `Selected` is a filter that keeps the order (`SelectedFrom`);
* chains, for any sequence of rows: what a prefix of a log verifies, that a row
  appended with the hash the log ended with after k rows verifies exactly if k
  is all of them (`AppendKeepsChain`), that the hashes of different prefixes
  differ (`HashAtInjective`), and that appending a row appends its event
  (`EventsOfAppend`).  `HashAtInjective` is where the model takes sha256 to be
  free of collisions: a hash is what it commits to.

`SQLiteEvidenceProofs`, for any processes, threads and events and any number of
crashes.  `StoreAssumption` says that every event belongs to one process and
that the markers for "no event" and "nobody" are none.

* `AcknowledgedCorrect`, from `StoreInv`: a thread in the body of `append`
  holds its process's lock, one in a transaction the file
  (`LocksAreHeld`); calls are about different, unsettled events
  (`CallsAreDistinct`); an event is in the table exactly if it was
  acknowledged, is committed and about to be, or was left behind by a killed
  process (`EventsAreStored`).
* `BrokenMeansForkedCorrect`, from `ChainInv`.  Its core is `GapsAreForeign`:
  the rows between the one an append was chained to and its own are all of
  other processes, because the lock of its own process was held all the time.
  A row that breaks the chain therefore has such a foreign row before it, and
  the first of them was chained to the same hash.
* `OneProcessChainVerifies`: with one process there is no foreign row, so no gap.
* `StoreImplementsLog`: a commit is an append of `EvidenceLog`; everything
  else, time-outs and crashes included, stutters.

`AuditReportsProofs`, for any threads, events, requests, caps and queries
(`NoEventAssumption`; `ReportsAssumption`, which says among others that the limit
of a query is positive or None, as `_validate_audit_event_limit` has it):

* `ReportsAreReads`: the store under reports behaves as it does alone, so that
  `BrokenMeansForkedCorrect`, `OneThreadChainVerifies` and `StoreImplementsLog`
  are proved of the store and hold with the reports.
* `ChainVerdictCorrect`, from `VerdictInv`: the rows the loop has passed are a
  prefix that verifies (`VerifiedSoFar`), which stays so whatever is appended
  (`LogGrows`), and the loop ends at the length the log has then, which is no
  less than the count.
* `VerdictIsTrueCorrect` adds `TimelineInv`: there is a prefix of the log that
  the timeline is the filter of, and it is no longer than the count.  It is
  stated by where in the log each event of the timeline is, which an append
  does not change (`ListedLater`).
* `CompleteMeansFinalizedCorrect`, from `ProgressInv` and `OrderInv`: an event of
  `evaluate` is in the log, or on its way there, exactly if `evaluate` has come to
  it, one at a time, so that its last event in the log means that it is over; and an event in the
  log comes after those recorded before it.  The timeline is the filter of a
  prefix of the log, which keeps both.  `EvidenceStatus` enters by the last of the
  required types.
* `ReportsAddUpCorrect`, from `StoreInv` and `OrderInv`: counts are compared by
  injections between the sets of positions counted (`CardinalityOfParts`,
  `CountedBefore`), which exist because no event is recorded twice and none
  before its predecessors.
* `QueriesRankCorrect`: `QueryReturns` says of any log and query where in the
  log the events returned are; the property then follows because a row is in
  the log once (`PositionIsUnique`).

`AdminDashboardProofs`, for any approvals and any number of refreshes and calls
under way: `OneCallCorrect` and `ButtonsBackedCorrect`, from `PanelInv`.  A call
keeps its approval marked, with no button to press, until its mark is wiped,
and the item it was made from is on display only under the admin token
(`CallsAreMarked`); neither property is inductive without it, since a second
click needs a button and an error handler enables those of the item it kept.
`revived` is set by that handler alone and cleared when the item is drawn or
clicked, so the exception of `ButtonsAreBacked` needs a failed call.

Every invariant and every safety action property of the passing runs is proved,
and so are their refinements.  Only model-checked is all liveness
(`ExecutionsEnd`, `AppendsEnd`): fairness and ENABLED are outside what the
prover handles.  No module that is proved about declares a RECURSIVE operator,
which the SMT backend does not accept; folds and sorting are reasoned about by
what they return, as above.

## 5. Where code and documents disagree

Each is a run that TLC must find violated; `PROJECT.json` quotes both sides.

* `chat_window`: between `create` (context `policy_evaluation`) and
  `attach_context` an approver can approve a chat request that nothing then
  executes; `docs/threat-model.md` says approved means executed.
* `uncaught`: an exception such as `IncompleteRead` ends the handler, and a
  provider body that is not UTF-8 is a `ValueError` and reported as an attempt
  conflict; in both cases the approval stays executing instead of returning to
  pending.  Such exceptions are the only cause
  (`FailedExecutionReturnsUnlessUncaught`).
* `memory_fork`: two concurrent appends to the in-memory store chain to the
  same hash.
* `zone_ignored`: a restricted request that names a zone other than external
  is held by no rule and routed to external all the same, because the router
  does not look at the zone the client named.  Requests that name the external
  zone are safe (`RestrictedNeedsApprovalIfNamed`).

More that the models allow and that no run of their own is spent on:

* overlapping detections are resolved by their start, not "by longest span" as
  the comment at `detectors/pii.py:204` says.  A longer match that starts inside
  a shorter one kept before it is dropped, and its tail stays as it was: an
  address that runs into a resident registration number leaves that number's
  last digits in the text.  `OnlyTailsRemain` says that this is all that can be
  left;
* `can_resolve` looks at the type of the stored context alone, so an approval is
  offered whose chat the executor then refuses, though `docs/event-schema.md:96`
  says that it "can be approved/resolved now".  A held request with an empty
  model name is stored with a route that `_route_from_payload` refuses
  (`ChatContexts`).  Approving it closes it as invalid_context before any provider call
  (`OffersAreHonoured`, `InvalidNeverCalled`);
* two processes on one SQLite file chain two events to the same row, because
  the SELECT of `append` is not in the transaction that `docs/sqlite-store.md`
  says it is (`sqlite_evidence` reaches such states, and `BrokenMeansForked`
  says that they are the only broken ones);
* `reset_approval_execution_error` describes in its event an approval it read
  before the reset (`ResetRequest`, then `ResetError`), possibly one without an
  error; `ResetDescribesRefusal` says when the two agree;
* `provider_network_error` is recorded with failure domain "unknown"
  (`FailureDomain`), though `docs/threat-model.md` wants the domain identified;
* the recovery reason `process_restart` can never apply: a restart empties the
  queue (`Restart`), so there is nothing left to recover;
* an append of `response_analyzed` that raises leaves the approval executing,
  although the provider has answered (`AppendRaises` at "finish");
* rows appended between the count of an evidence package and its verification
  are verified too, so the cap of `docs/event-schema.md` bounds the count and
  not the work (`ChainVerdictIsTrue` has the range);
* the dashboard's error handler enables every button of the item it was called
  from (`AnswerError`): approve although the list says it cannot be resolved, and
  approve and reject without an approver token, until the item is clicked or drawn again.
  The handler's own token check then stops the click (`ClickRefused`);
* a refresh answered after the admin token was cleared still draws its data,
  without a button to press (`ButtonsAreBacked`);
* a text is masked in one pass and sent without another look; a token can make
  a number recognisable that was not before (the text `account` of
  `MCChatCompletion`);
* the response guard replaces `message["content"]` of a choice and passes the other
  fields of the message and the choice through, so `DeliveredIsGuarded` is about
  the text alone.

## 6. What is left out of the modelled parts

* `ApprovalQueue`: actors, comments, reason codes and timestamps no decision
  reads; the reads `list_pending`, `list_stale_executions`, `matched_count`.
  The wall clock is assumed not to run backwards.  A limited recovery takes
  any subset of the allowed size, where the code takes the first in insertion
  order; its events may come in any order.
* `ApprovalGateway`: requests that need no approval (see `ChatCompletion`);
  authentication and payload checks, which answer before any state changes; the
  content of the per-request events and of `response_analyzed`.  Of the five fields
  for which a stored chat can be refused the handlers produce `invalid_route` only;
  the other four are there for contexts an embedding program stores, and a run
  with one of them would have the same behaviours.  Appends that
  raise and restarts are in `ApprovalService`; there the evidence is in SQLite,
  and with the in-memory store a restart would empty it too.
* `ProviderAdapters`: requests and responses as bytes; which HTTP status falls
  into which class is kept, error messages and redaction are not.  RuntimeErrors
  that are neither a `ProviderError` nor a stored-context error come from no adapter
  and are left out, with the summary `main.py:563-583` makes of them.
* `PolicyEngine`: what the regular expressions match, labels, confidences and
  positions of findings (for positions see `PiiMasking`), reasons of decisions,
  names of models and providers.  What a JSON parser accepts is one case,
  "malformed"; a priority that is no integer is written as a negative one.  Risk scores are
  whole twentieths: this agrees with the code's floating-point sums for the thresholds of
  the built-in rules, but a rule file with a threshold such as 0.9, which is
  itself a sum of weights, may be decided otherwise by rounding.
* `ChatCompletion`: payloads refused with 403 or 422 before anything is
  evaluated; what an approver does beyond "resolved"; payload fields of events
  other than action, policy, route and whether the text was changed.  A reply
  is the text of its choices, which is all the guard looks at.  The
  evidence is in SQLite: with the in-memory store a restart would empty it too.
* `PiiMasking`: patterns and validators, whose matches are an input; the
  confidence and severity of a finding.
* Evidence: payloads, timestamps and canonical JSON are part of the event;
  the reads are in `AuditReports`.  A thread's wait for the lock in `Acquire`
  has no timeout, as in the code.
* `AuditReports`: payloads but for what reports count or filter, timestamps and
  time windows, the CSV and JSONL layouts of an export.  The guard's and the executions'
  events are recorded once each for a request, though executions may recur (bound),
  and of them the run `reports` has `approval_resolved` only: the theorems
  cover the rest.  An append that raises, and so leaves an evaluation unfinished, is
  in `ChatCompletion`; here it is an evaluation that does not go on.  Reports are made from
  the in-memory store, where a reader and an appending thread meet in one live
  list.
* `AdminDashboard`: the other panels, messages, drafts of comments, and all but
  the first six approvals of the list.

Not modelled: the conversion between OpenAI payloads and the gateway's
requests, the dataclasses and the command line, which keep no state and decide
nothing but shapes; what regular expressions match; HTML and CSS; the scripts,
and the tests.

## 7. Plan

Done: the approval queue, its callers and the faults they meet, the provider
adapters, both evidence stores and the reports made from them, the policy
engine with router and response guard, the client request path with failing
appends and restarts, PII overlap resolution and masking, the approval panel of
the dashboard, and the proofs above, which cover every safety property of the
passing runs.

Nothing of the plan is left.  What could still be added is a model of the
dashboard's other panels and of the payload conversion; neither keeps state that
another component reads.
