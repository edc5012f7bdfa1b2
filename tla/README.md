# Mr. Lister in TLA+

Mr. Lister turns a seller's artwork into a Printify product draft, keeps that
draft synchronized with the seller's reviews, and (in its later phase) publishes
it under one-use authority. Money and public listings hang on calls to a print
provider that has no idempotency keys and no conditional writes, made by Lambdas
that crash, time out and overlap. This directory models that machinery in TLA+,
checks it with TLC and proves its safety properties with TLAPS.

Paths below are relative to `src/src/mr_lister/` unless they start with `docs/`
or `infra/`, which are relative to `src/`.

## 1. Inventory of the system

| Component | State it keeps | Operations | Talks to |
|---|---|---|---|
| Seller-control job (`control/service.py`, `worker_service.py`, `models.py`) | one `ControlJobRecord`: 13 states, review version, uncertainty flags, cancellation, active work; attempts and one-shot permits beside it | seller commands (revise, approve, refresh, cancel, retry) and worker commands (prepare, upload, write, reconcile, price, fail, settle) | store |
| Transactional store (`control/store.py`, `control/dynamodb.py`) | job, works, attempts, permits, receipts; secondary indexes for due and marked work | one compare-and-set transaction per command, `validate_command_commit` | DynamoDB |
| Outbox dispatcher (`control/dispatch.py`, `cloud/phase6_machine.py`) | lease and claim id on each `WorkRequest` | sweep every minute, stream events, claim, start, mark, defer | store, Step Functions |
| Worker Lambda (`production/phase6_worker.py`, `production/draft_sync.py`) | none | synchronize, reconcile, refresh economics | store, Printify |
| Settlement Lambda (`cloud/phase6_machine.py`, `control/settlement.py`) | none | after every worker, successful or not | store |
| Execution recovery (`control/execution_recovery.py`) | none | settles marked work whose execution is terminal | store, Step Functions |
| AgentCore preparation (`control/agentcore.py`, `agent/`) | checkpoints in the job | analyse artwork, draft a listing, validate a review | Bedrock, store |
| Artwork upload intake (`control/upload_service.py`) | upload intents, quarantine objects | begin, complete, expire | S3, store |
| Publication request (`publication/service.py`, `dynamodb.py`) | aggregate, root attempt, permit, work, snapshot | request once per approved draft | store |
| Publication execution (`publication/execution_service.py`, `execution_store.py`, `provider_coordinator.py`, `provider_boundary.py`, `evidence_provenance.py`) | the same, with call claims, one-use grants, audits, staged evidence, preflight proof, observations | dispatch, reconstruct, claim, record, recover, settle; audit, stage; one provider call per invocation | store, Printify |
| Publication orchestration and recovery (`publication/orchestration*.py`, `infra/phase7/statemachine`) | the Step Functions execution and its poll count | start, poll, redrive, settle at the deadline | store, Step Functions |
| Publication retention (`publication/retention*.py`) | one expiry on every row of a publication, a completion marker | stream handler: read, assign in batches, prove, mark last | DynamoDB |
| Draft retention (`production/retention*.py`) | tags of S3 versions, a page cursor | daily sweep: pin again, release | S3, store |
| Operational cleanup (`production/operational_cleanup*.py`) | expiries on rows of old jobs, a checkpoint | daily sweep: scan, assign page by page | DynamoDB |
| Judge cleanup (`judge_cleanup/`) | one leased record per demonstration product, a discovery cursor | scheduled sweep: process one due record, discover one page | DynamoDB, Printify |
| Judge sessions (`judge_session/`) | invitations with a redemption count, sessions | redeem, renew, log out | DynamoDB, Cognito |
| Connections (`connections/`) | candidates with a secret each, one setup, binding and receipts per owner, a budget | validate, select, activate, clean up | DynamoDB, Secrets Manager, Printify |
| Accounts (`accounts/`) | one row per account, group membership | post-confirmation and pre-authentication hooks | DynamoDB, Cognito |
| Legacy workflow (`workflow/`, `durable/`) | one `JobRecord` of 16 states, review rows, write claims, an approval wait | intake, prepare, revise, approve, publish, verify | DynamoDB, the production adapter |
| HTTP API, projections, model adapters, pricing, acceptance, release | none of their own | routing, views, stateless calls, offline checks | - |

What is hard here:

* **A call that may have happened.** A POST or PUT whose answer is lost may or
  may not have been applied. The permit is consumed *before* the call, and what
  follows may only read (`docs/phase6-provider-integration.md:73`).
* **Overtaking.** A worker Lambda, a seller, the settlement of the same work, the
  successor work and the recovery sweep interleave between any two store commands.
* **Cancellation** arriving before, during or after each of these calls.
* **At-least-once dispatch** under leases shorter than the Lambda's timeout,
  with ambiguous `StartExecution` answers and batches that an exception cuts.
* **Deadlines** inherited by retries of retries, and the one deadline of a
  publication, which commands race with clock readings of their own.
* **A publication POST** that must leave at most once while invocations overlap,
  are redriven, and recover each other's claims.
* **Two services, one decision.** A secret and its row, a tag and its intent, a
  group and its account are written in two places; whoever dies between them
  leaves an orphan that a scheduled cleanup must find, without taking what a
  slower request is about to commit.
* **Sweeps behind limited pages** of eventually consistent indexes, with cursors
  that outlive runs and rows that can never be handled.

`PROJECT.json` lists each of these at its line under `hazards`, with the
properties that would catch it going wrong.

## 2. Modules

```
DraftPromise            what the seller is promised about the draft (abstract)
     ^  refined by
ProductMachine  -- EXTENDS -->  ControlJob          the job and its commands
  executions, worker Lambda,        ^
  settlement, sweeper,              | proofs: ControlJobProofs
  the provider, faults
     |                    proofs: ProductMachineProofs
     |  takes claim / start / mark / settle as atomic steps of
WorkDelivery            what the outbox promises about each row (abstract)
     ^  refined by
Dispatch                dispatchers, leases, due index, ambiguous starts
                          proofs: DispatchProofs

PublicationPromise      what a seller who confirms a publication is promised
     ^  refined by
PublicationMachine  -- EXTENDS -->  Publication     the durable execution authority
  workflow, workers, recovery,
  provider                          proofs (of both): PublicationProofs

PublicationRetention -- EXTENDS -->  PublicationRequest    birth and end of its rows
SourceRetention      -- EXTENDS -->  UploadIntake          birth and end of a source
PublicationSweep   the dispatcher, queue and recovery of many publications
ExecutionSweep     the recovery of many stuck executions
Connection, AccountProvision, JudgeSession        who may act
JudgeCleanup, OperationalCleanup                  what is taken away
ListingWorkflow                                   the job of the first phase

proofs: PublicationSideProofs  (PublicationRequest, PublicationRetention,
                                ExecutionSweep, PublicationSweep)
        AccessProofs           (Connection, AccountProvision, JudgeSession)
        CleanupProofs          (JudgeCleanup, OperationalCleanup, UploadIntake,
                                SourceRetention)
        ListingProofs          (ListingWorkflow)
```

The modules of the last block stand beside the job and the publication: they
touch them in one or two rows, and keep of them what they look at.

**ControlJob.** The variables are the fields of `ControlJobRecord` that commands
read or write, the work requests, and the two attempts with their permits. Each
command is one action: its guard is the command's checks, its effect is the whole
commit. A command is a compare-and-set on `record_version`, so it is atomic and
the version itself need not be modelled: a command computed from a stale record
has no effect. Reviews are their version numbers; a payload, a fingerprint and a
listing are the review they were made from. `ledger` is a history variable: how
often each call was permitted, and which permitted calls still lack evidence.
Anybody may issue a worker command here, which makes its invariants independent
of the processes.

**ProductMachine** adds those processes. A worker is a program counter that
advances over one store command or one provider call at a time, with the write
attempt it carries; a refused command makes it raise. The provider is three counters
(images, products, the review the product carries). Faults are a dead Lambda, an
invocation Step Functions gives up while the Lambda runs on, an execution that dies,
an unavailable read, and a lost reply, whose request was applied, was not, or is
applied at any time later (`LateEffect`).

Nothing in the code stops a worker that was given up. The `Catch` of the state
machine settles its work at once (`SettleExecution` asks nothing of the worker; only
the sweep waits, twenty minutes, until it is surely gone), the seller may retry, and
the new work takes the unused attempt over. Most commands name the caller's work and
are refused then (`Owns`). The two that consume a permit do not:
`authorize_provider_upload` and `authorize_provider_call`
(`control/worker_service.py:432`, `738`) take the attempt, and serve whoever carries
it under the authority of whatever work is active. So a given-up worker may use its
successor's permit and call late, while the successor, which finds the permit
consumed, records the outcome as unknown (`production/phase6_worker.py:236`, `380`).
`SyncAuthorizeUpload` and `SyncAuthorizeWrite` have the three branches of the code.

`overtaken` is a history variable: an update was recorded as not applied (`PRIOR_MATCH`)
while it was still with a worker or on its way (section 6). What is said about the
payload of a product is said until then.

**Dispatch** models `control/dispatch.py` row by row: the due index is a sequence
in due order with a prefix that is ripe; a claim or deferral moves a row to the
back. `Rejected` rows are those Step Functions refuses for good; such a refusal
leaves `dispatch_due` as an exception and drops the rest of the batch.

**Publication** has one operator per command of `PublicationExecutionService` and
per append of the execution store. A command is a compare-and-set on the whole
authority it has read, but it compares that authority's deadline with a clock it
read earlier: hence `t \in Reading`, any time between the last change and the
commit. Calls are records (purpose, audited, staged evidence, consumed) in claim
order; evidence is what the properties tell apart, e.g. `"proof"` for a positive
observation made before the deadline, the only kind the boundary's parser
produces. The terminal report, its tombstone, the notification and the link in the
job are written in the same commit as the outcome and abstracted into `Settle`.

**PublicationMachine** drives it: the execution the dispatcher starts under a
deterministic name, the workflow that invokes a worker, routes on the state it
returns and counts polls, the workers, the recovery, the clock, and the provider
(how many POSTs were sent; is the listing absent, taken, live). A worker is
`"running"` until it commits its first command; dispatch and reconstruction let
it go on (`"prepared"`), the other commands end it, and a claim binds it to the
call it holds the fresh grant of: validate, audit, one request, stage. Which
command comes first is the order of the coordinator's tests, stated as guards.
`CommitAudit` has the store's idempotent branch; with one-use grants no worker
comes to it twice. An invocation that the workflow loses runs on beside its
successor, and crashes or is refused anywhere (`Raise`).

**PublicationRequest** is the command that creates a publication, as several
invocations at once see it: look for the receipt of the key, load and freeze the
authority, commit one transaction conditioned on the job's row, on the binding's
epoch and on nothing of a publication being there, and after a cancelled
transaction look for the receipt twice more. Keys are used again, also with
another body, and answers get lost. Beside it the seller edits, approves and
disconnects. `issued` and `told` are history: the requests that got a permit, and
what callers were answered. **PublicationRetention** goes on from there: workers
append rows on the aggregate they have read, the settlement writes the report, and
the stream record of the settlement (delivered again after a failure, and perhaps
twice at a time) makes the handler give every row one expiry and leave its marker
last, while DynamoDB deletes what has expired in any order.

**ExecutionSweep** is `control/execution_recovery.py` over several jobs: the
recovery index is a set that lags behind the rows, a sweep takes its first page,
and for each candidate reads the job, describes the execution, reads again and
settles by compare-and-set a bounded number of times. Executions end at their
timeout, are forgotten by Step Functions, and are redriven by an operator: a
redriven execution fills the page without being settleable, until it ends.
**PublicationSweep** is the same question for `publication/orchestration*.py`: the
dispatcher pages through the due index and moves nothing, so a row stays due until
a worker has activated it; the queue is fed by the dispatcher and by failure events
that may be lost; queue handler and sweep share the recovery, which redrives or,
past the deadline, settles.

**UploadIntake** is one intent with its forms, the versions posted under its key
and the requests on it, each a program counter from the row it read to the
transaction that compares it. The tag of a version is written by S3 calls between
them (`Pin`, `Stage`, `Reassert`); `by` records who wrote it last.
**SourceRetention** adds the lifecycle rule of the bucket, the end of the job, and
the sweep: list a page, read the tags of the whole page, then decide version by
version on an authority it reads anew, before and after a releasing write.

**Connection** is one owner: the sequence validate (budget, token check, secret,
shops, publish) and the sequence select (recheck, transaction, activate, group,
mark), and the cleanup of candidates nobody selected. A secret exists before its
row is published, a row is fenced against the cleanup by its state. Invocations die
at their time limit, which is what the cleanup's grace is measured against.

**AccountProvision** has the enrolment hooks: verify the user as Cognito has it
*now*, create the row if absent, add to the group; `event` is the user as the hook's
event shows it, which may be old. **JudgeSession** has redemption, renewal and
logout, each of which reads, calls Cognito, and reads or writes again; `overtaken`
are the requests whose session ended before that second look.

**JudgeCleanup** is the sweep of `judge_cleanup/service.py`: claim a due record
under a lease, look at the product, check the lease again, delete, read back, finish;
then one page of discovery behind a stored cursor. Times are countdowns, so that the
state space is finite without a horizon. **OperationalCleanup** is the daily sweep
with its two cursors, the scan of the table and the assignment within a job, and
with rows whose foreign expiry makes each run at them fail.

**ListingWorkflow** is the service of the first phase. A call of it is a sequence of
reads, transitions, claims and provider calls; `call` records where it stands and
what it has read, and an idle one has forgotten everything. A transition reads the
job itself and replaces it by compare-and-set, so it is atomic, but the review it
writes and the claim it is made under come from earlier reads. The Lambdas and the
state machine of that phase issue these calls, and again when one was lost, while
the lost one goes on: here anybody may issue any call at any time.

**WorkDelivery**, **DraftPromise** and **PublicationPromise** are the abstract
specifications. DraftPromise has no works, permits or workers: machine and seller
take turns, one image, one product that is only replaced by a later review, an
approval of what the product carries. It names its two limits: a job that ended with
an outcome told as unknown (`told`), after which the call may still take effect, and
an update written off while it was on its way (`strayed`). PublicationPromise says
what remains possible: after a failure no POST ever, after `unknown` one may still be
on its way, because the request leaves a moment after its audit commits.

**The MC modules.** `MCJob`, `MCAccess`, `MCCleanup` and `MCPublicationSide` each put
several components into one run that share no variable. Their variable `scope` is
chosen at the start and picks the component whose steps a behaviour takes; the others
stay at an initial state. A property of one component only reads that component's
variables, so this loses nothing, and the state spaces add up instead of multiplying.
Actors of a kind are interchangeable, and the runs without liveness say so (`SYMMETRY`).
`MCPublicationSide` also narrows a scope where two kinds of overlap are independent
of each other: `OneDelivery` (requests that cross see nothing of the deliveries),
`OneRequest` (deliveries that cross see only what the one committed request left)
and `FewWorks` (sweeps that cross need one work; a page of several needs one sweep).

## 3. Runs

| Run | Asks | Bounds |
|---|---|---|
| `control_job` | the invariants of the record and its permits under every command; one provider write per version, and nothing published unapproved, in the first phase | 2 reviews, 6 works; 2 calls, 3 listings of which 2 pass, 2 versions |
| `product_machine` | is the record true about the provider, one image and one product with nothing unannounced, is an ended job left alone, does machine work end, is `DraftPromise` implemented, beside workers and calls that were given up | 2 reviews, 9 works of which 4 the seller's, 2 faults |
| `dispatch` | rows and executions under racing dispatchers, no starvation by refused rows; `WorkDelivery` is implemented | 3 rows of which 2 are refused, batch of 2, 2 dispatchers, 2 faults |
| `publication` | one POST, outcomes true to the provider, `PublicationPromise` implemented, every request settles | 2 workers, 1 shop GET, 3 product GETs, deadline 2, prices fresh until 1, 8 polls, 1 redrive, 1 fault |
| `access` | enrolment, connections and judge sessions | 2 users, 2 hooks, 1 fault, 1 change; 2 candidates, budget 1, 2 requests, 1 cleaner, 6 ticks; 2 browsers for 1 redemption, 1 change by the operator |
| `cleanup` | does a sweep take what is still needed | 2 judge jobs (one cannot be loaded), 2 runs, 2 attempts, 1 fault, 1 slow tick, 1 change; 2 jobs of 2 rows and a receipt, pages of 2, 1 clock error; 1 version, 2 requests, 4 ticks |
| `cleanup_ends` | does a sweep take all that is to go | the same with 1 run and no changes; pages of one assignment, 1 failing run, no clock error; 2 versions on pages of one, 1 request, 4 ticks |
| `publication_side` | requests, marker, and the two recoveries under overlap | 2 keys, 2 calls; 2 deliveries of a record, batches of 3; 2 works, 2 sweeps, 1 redrive; 1 publication, 2 recoveries, 2 failures, 1 redrive |
| `publication_side_ends` | settled means marked or reported; stranded work and publications end | 1 call, 1 edit; 1 delivery at a time, 2 tries, batches of 2; pages of one row with 2 rows to fill them |
| `retry_deadline`, `late_update`, `staged_proof` | the places where code and documentation differ (section 6) | as `control_job`; as `product_machine`; 5 polls, no fault |

*Why the bounds are enough.* Two reviews give a create and an update; six to
nine works give preparation, a failed synchronization, its reconciliation, a
retry, the exact repetition and its own reconciliation. Two faults give an
ambiguous call whose recovery fails as well, and a worker that was given up, whose
permit its successor takes over, and whose late call loses its reply. (The safety
properties were also checked once with 3 reviews, 12 works and 6 of the seller's:
2.4 million states; the proofs cover any number.) `SellerWork` keeps sellers from consuming the works the
machine needs to finish, so that the bound `MaxWork` never stops the machine:
`MachineEnds` would report it otherwise. The weak fairness there is of `Owed`, the
machine as a whole (as long as one of its steps is due, one happens), which is weaker
than what schedules and Lambdas owe each for itself, and enough. In Dispatch a batch of two with two
refused rows is the smallest in which refused rows fill a whole batch.

For publications, three product GETs give a preflight, a poll that is lost and one
that answers; two workers and one fault give an invocation that goes on after its
successor started (more workers add nothing to a protocol in which the store
serializes, and the proofs below cover any number); freshness ending before the
deadline separates the two clocks; eight polls let a request reach its outcome,
five (`staged_proof`) exhaust the workflow just when its last step has staged.

In `access` two hooks, two requests, two browsers are what a race needs; a budget
of one is a budget at its limit; a grace as long as the time limit and a candidate
that lives one window let an invocation outlive the candidate it works on. In
`cleanup` two overlapping runs, a lease that the tick of a slow run uses up, and a
poisoned job in front of a good one; two jobs because the checkpoint must go on
from one to the next; a version with two completions, the smallest race of a
compensation with a winner, and lifetimes in the order the code's assumption
(`RetentionAssumption`) states. In the two `publication_side` runs pages are no
longer than the rows that can never leave them: that is the case in which a limited
page could starve the rest.

`CHECK_DEADLOCK FALSE` is set where the system does stop: an approved, cancelled
or finally failed job accepts no command, a row that is settled is done, a request
with an outcome too, and clocks and budgets are bounded.

*Fairness.* Schedules (EventBridge) return, a Lambda runs until it returns, raises
or dies, clocks advance, indexes and accepted deletions catch up: those actions are
weakly fair. Sellers, operators, browsers and faults owe nothing. Strongly fair is

* `Sweep` of Dispatch and of PublicationSweep, and the receipt of a queue message:
  events may keep finding the handler busy, but the schedule and the queue return,
  and a message stays until it was handled;
* the clock of JudgeCleanup, which must tick between invocations however often one
  starts;
* the sign-in of AccountProvision, for "a user who keeps signing in";
* claim and disposal of an expired candidate in Connection: a cleanup may die or
  fail any number of times, but not always (an invocation that fails again and
  again disposes of nothing, and no design could).

For publications only the clock and the two commands of the recovery are fair: the
scheduled sweep issues them until the request is terminal. Workers, workflow and
provider owe nothing, and `Settles` holds all the same. The properties of the MC
modules with a `scope` carry their fairness themselves (`Fairness => ...`), because
a behaviour that follows another component owes this one nothing.

What dispatch liveness does not say: faults are at most two. An operator who keeps
failing starts can keep a row unsettled for ever; so can he in the code. And the
publication dispatcher never moves `next_dispatch_at`: a page of 25 or more pending
rows that cannot start delays the later ones until the first pass their deadline,
which is why `EveryPublicationEnds` speaks of an end and not of a start.

## 4. Properties worth knowing

Each run checks few formulas; most are conjunctions of named parts.

| Property | Parts | Says |
|---|---|---|
| `OneShot` | | at most one upload, one create, and one update with one exact repetition per review, over any sequence of failures, retries and takeovers |
| `PermitsAccounted` | `AmbiguityKept`, `NoPermitAfterClose` | a permitted call without evidence keeps its flag up, and while the job is open its active work is the consumer or a reconciliation; a closed job has no permit left |
| `JobCoherent` | `RecordCoherent`, `OneLiveWork` | the record's fields agree; at most one work is live, and it is the active one |
| `CommitAccepted` | | every command computes a record that the store's `validate_command_commit` accepts (otherwise it could never commit) |
| `CallsKept` | `NoReplacementWhileOpen`, `NoCallAfterCancel` | an unresolved permit mints no successor; no call is permitted once a cancellation was asked for |
| `MachineSound` | `MachineTypeOK`, `EvidenceTrue` | what the record says of the provider is so; of the payload, until an update on its way was written off |
| `LateCallsSafe` | `OneProviderResource`, `LateCallAnnounced` | no call, however late and of whichever worker, makes a second resource or an unannounced one |
| `QuietAfterEnd` | | an ended job's resources are left alone, but for calls whose outcome the record calls unknown for ever, and updates written off on their way |
| `MachineEnds` | `HandsBack`, `CancelCompletes` | machine work ends, and a cancellation is carried out |
| `StartedSettleable`, `RowsTrue` | `DispatchTypeOK`, `DispatchedRuns` | an execution is never stranded by its row; a marked row has an execution |
| `WorkSettles` | | every row is settled, behind rows that abort every batch they are in |
| `OnePost` | | a publication POST leaves at most once |
| `OutcomesTrue` | `MachineTypeOK`, `FailedUnsent`, `AcceptedTaken`, `PublishedProven` | failed means unsent, accepted means taken, published means proven and live |
| `PromiseKept` (of both machines), `DeliveryKept` | | refinements |
| `EnrolmentSound`, `EnrolledAtLast` | `EnrolledHasAccount`, `SignedInIsMember`, `OnlyConfirmed`; `RowKept` | rows before members, members before sign-ins; half an enrolment is repaired, and no row is written twice |
| `SecretsSafe` | `SelectedSecretKept`, `NoSecretLeftBehind` | the cleanup never takes the secret of a selection, and no secret outlives the row that names it |
| `ConnectionSound`, `SetupSettles` | `BudgetHolds`, `OneDestination` | the budget holds under races and lost replies; one destination, chosen once; unselected secrets go at last |
| `SessionsHold` | `RedemptionsHeld`, `LogoutWins`, `GrantBounded` | no more sessions than redemptions; no token after a logout that the request could have seen; no token past session, invitation or campaign |
| `DeletionSound`, `EveryProductClosed` | `OneDeleter`, `AttemptsBounded`, `WindowKept`, `ClosedMeansGone` | one run at a time deletes, rarely and late enough, and a closed record has no product; every record is closed at last |
| `ExpirySound`, `TerminalJobsDisappear` | `OnlyOldTerminalExpires`; `RemovedStaysRemoved` | only rows of old ended jobs expire; they all do, and a removed row stays removed |
| `SourceKept`, `OrphansDeleted` | `OneOutcome`, `NeededPinned` | a job keeps its source (section 6 has the exception); what no job needs is deleted |
| `RequestSound`, `GrantedOnAuthority` | `OnePermitEver`, `AnswersAgree` | one permit for a job, ever, also when its rows are being deleted; all answers tell of it; it is granted on what was asked for |
| `MarkedMeansExpiring`, `MarkedOrReported` | | the marker is true, slow workers included; a settled publication is marked or its record reaches the operators |
| `RecoverySound`, `StrandedSettled` | `EndsOnlyTheDead`, `CancellationKept`; `SettledStays` | recovery ends only what is dead, as the seller wanted it ended, and all of it |
| `RedrivesBounded`, `EveryPublicationEnds` | `OutcomeKept` | recoveries that hold one failed execution redrive it no more than allowed; every publication ends, once |

## 5. Proofs

Every safety invariant and every action property that a passing run checks is also
a theorem, for every value of the constants. Each candidate invariant was checked with
TLC before it was proved. The proof modules:

`ControlJobProofs`: `TypeCorrect` (the type invariant; `resume` has to be known for a
retry to return to a state, hence the conjunct `ResumeKnown`), `OneShotAlways`,
`JobCoherentAlways`, `PermitsAlwaysAccounted`, `CallsAlwaysKept` and
`CommitAlwaysAccepted`, for all values of `MaxReview` and `MaxWork`. `OneShot` is not
inductive: nothing in it says why an available permit may be consumed. `LedgerInv`
ties the history counters to the record: the upload count is what the upload permit's
state says (`UploadCounted`), creates are what `createClaimed` and the create permit
say (`CreateCounted`), and the puts of a review are bounded by the retries of the
attempt that is current for it (`PutsCounted`). The other four rest on `JobInv`,
whose further parts say that a permit is unused only under its own flag and a call
without evidence went out on a consumed one (`PermitsFlagged`), which uncertainty each
kind of work can meet (`FlagsByWork`), and into which states a failure may resume
(`ResumeSound`).

`ProductMachineProofs`: `LateCallsAlwaysSafe`, `MachineAlwaysSound`,
`QuietAlwaysAfterEnd` and `DraftAlwaysAsPromised`, the safety half of the refinement of
DraftPromise, all from `MachineInvariant`, and without a hypothesis on when a given-up
worker stops, a late call takes effect or an execution is settled. The machine issues
the job's commands and nothing else (`MachineObeysJob`), so `JobInv` holds in it;
`TellingInv` adds what the job tells of each permitted call. `OwedInv` says that while
a synchronization is open or a write uncertain, the record lacks what the review asks
for: so no update is sent for a payload already recorded. `CarryInv` follows the
attempts: a worker that is past its claim carries one that existed, a permit is
consumed once, by whoever comes first, and what it allows is with at most one worker or
one late call. `SentInv` then says for each of the three calls where it is (unused, at
a worker, still out, at the provider, on record), and that what a worker has read or
sent is still so when it records it, although others may have called meanwhile: who is
refused by the store has learned nothing that counts. The properties of the payload
need `~overtaken`: an update that is written off on its way breaks the chain, in the
code as in the model.

`DispatchProofs`: `OutboxSafe`, `RowsAlwaysTrue` and `DispatchImplementsDelivery` for
any set of works, dispatchers and refused rows. `DispatchInv` adds to the two
properties that a completed row had an execution and that whoever serves a row serves
one that was claimed. `IndexInv` says that the rows of the due index are those that
wait, each once; only the type invariant needs it.

`PublicationProofs`: every invariant of the run `publication` and the refinement
`MachineSpec => PromiseKept`, for any number of workers, faults and redrives, any
budgets and any deadline. The inductive invariant `MachineInv` has these parts.
`PermitPart`: the permit is consumed by the command that appends the only publish
claim, and the state goes with it. `EvidencePart`: what is staged for a call is of its
purpose, and a consumed proof is what `published` means. `GrantPart`: no two workers
hold the grant of one call. `SentPart`: so the worker that may still send the POST is
the only one, it has not sent it, and a POST that was sent belongs to a consumed
permit. `TruthPart`: evidence, staged or still in a worker's hands, is true of the
provider. Commands are proved one by one, then grouped by what they do to the calls
(`Recording`, `Claiming`, staging), and a step of the machine is one of them together
with what it does to its worker (`Withdraws`, `Granted`, `Answered`). The audit is not
needed for any of this: it bounds *when* a POST may leave, not how many.

`PublicationSideProofs`: `RequestAlwaysSound`, `GrantAlwaysOnAuthority` and
`MarkerAlwaysMeansExpiring`. `SideInv` says that an invocation about to commit holds
an authority over the job as it is, unless the job has moved since; that there is
nothing of a publication or exactly the request the receipt names; that every appended
row is counted by the aggregate; and that the marker comes after all that was counted.

The same module has the sweeps: `RecoveryAlwaysSound`, `SettledAlwaysStays`,
`RedrivesAlwaysBounded`, `OutcomeAlwaysKept`. `SweepInv` and `PubInv` date a reading by
a version: while the version is still the row's, what was read is still so, and a
reading that is older cannot be committed.

`AccessProofs`: `EnrolmentAlwaysSound`, `RowAlwaysKept`, `SecretsAlwaysSafe`,
`ConnectionAlwaysSound`, `DestinationAlwaysKept`, `SessionsAlwaysHold`. `AccountInv`: a
hook that goes on writing works for a user it found confirmed, and confirmation is
not taken back. `ConnectionInv`: an invocation ends before the grace of a candidate it
found unexpired does, so the cleanup claims no candidate whose secret may still be
created; and a reservation leaves the list only when no window it is in can hold it.
`SessionInv`: a request reserves a session of its own name once, and whoever was
overtaken by a revocation finds it at its second look.

`CleanupProofs`: `DeletionAlwaysSound`, `ExpiryAlwaysSound`, `RemovedAlwaysStays`,
`SourceAlwaysKept`. `JudgeInv`: the lease of a record outlives the run that holds it,
for the run has less left of its life than a lease lasts. `ExpiryInv`: what the scan found
old and ended stays old and ended, and rows that vanish from a page being assigned are
not written. `SourceInv`: a request ends before a version it may still refer to is old
enough to be released, so what the sweep finds unreferenced stays unreferenced.

`ListingProofs`: `WorkflowAlwaysSound`, for any number of calls, listings and reviews.
A call of the first phase writes what it has read many steps before, so `ListingInv`
says at each point of a call what it may still rely on (`Relies`): the listing it
carries is that of its version, the product it is about to attach was made from it, the
review it publishes has the seller's consent. That lasts because no step takes back a
review, a product, a consent or the failure of a generation (`Grows`). That a write
happens once rests on the claims: the call with a request on its way is the only one
under its claim, and has had no effect before (`WritesAlone`); a claim outlives its call
and names what the call made (`ClaimsKept`). Until a generation has failed late a failed
job has no review yet, so nothing leads from a product back to another review
(`OwnProduct`).

*Assumptions.* Only the named ones on the constants, which TLC evaluates. Those that
carry an argument are the code's own numbers: a run of the judge cleanup lives shorter
than its lease (`CleanupAssumption`; 60 and 90 seconds), an intent and the last
invocation on it are over before a version is old enough for release
(`RetentionAssumption`), a validation ends within the cleanup's grace (`Connection`),
and the rows of a table, the jobs and the appended rows are finite.

*Model-checked only*: liveness everywhere, and with it the half of ProductMachine's
`PromiseKept` that is about fairness, since it rests on ENABLED, which the prover does
not handle.

## 6. Where code and documentation differ

* `authorize_provider_call` (`control/worker_service.py:738`) does not look at the
  inherited deadline, so the exact repetition of a PUT may be sent after it
  (`docs/phase6-provider-integration.md:75`). Run `retry_deadline`.
* A readback of the prior payload counts as proof that an ambiguous PUT was not
  applied (`control/worker_service.py:1251`): the uncertainty is cleared, and with a
  cancellation pending the job ends. The request whose reply was lost may be applied
  after that, and so may the call of a worker that was given up and has just used the
  permit; the product then carries a review the record does not name.
  `docs/architecture/0010-one-printify-product-per-job.md:35` says that the GET and
  its comparison "determine whether the update completed before any retry". Run
  `late_update`. One lost reply suffices.
* Recovery settles an expired request without looking at staged evidence
  (`publication/orchestration_recovery.py:648`). If the workflow's last poll staged
  a proof and then exhausted its budget, the request ends in outcome unknown, which
  `docs/phase7-publication-contract.md:51` defines as "no positive proof by the
  fixed deadline". A worker would have recorded the proof first. Run `staged_proof`.

More are stated in the modules as the documentation has them, and are left out of the
runs; adding them to the configuration named shows the behaviour.

* `ExhaustedUpdateEnds` (MCControlJob.cfg). A repetition whose deadline has passed
  before it is claimed raises (`control/worker_service.py:671`), is settled as a
  retryable failure, and every retry of the seller fails the same way;
  `docs/phase6-provider-integration.md:76` says it "ends terminally".
* `NoReceiptStranded` (MCCleanup.cfg with a row `"command"` in `MCOwnerRows`). An
  assignment is abandoned, its receipts unseen, when the rows of the job are gone or
  a page of them is empty, and the receipts of commands, which unlike those of
  uploads have no expiry of their own, then stay;
  `docs/phase6-acceptance-hardening.md:182` says the cleanup assigns the expiry to
  "exact `CANCELLED` and `FAILED_TERMINAL` job partitions and matching owner
  receipts".
* `AbandonedOnlyOnChange` (MCCleanup.cfg). An empty page of the job's partition is
  reported as a changed authority, although the job's row may stand as it was; the
  error is documented as "The exact terminal job authority changed before expiry
  assignment" (`production/operational_cleanup.py:47`).
* `WinnerRemainsPinned` (MCCleanup.cfg). A losing completion that reads the intent
  before a concurrent one commits, and writes its tag after it, and then dies before
  its second look, leaves the winner's version staged;
  `docs/phase6-seller-control-contract.md:497` says that "a concurrently committed
  winner's referenced version remains pinned". The daily sweep pins it again, unless
  the lifecycle rule is faster. `SourceKept` therefore excepts a tag that a
  compensation wrote last.

* `PublishedStays`, `OnePublication` (ListingWorkflow, MCJob.cfg). A preparation
  whose generation fails after its retry has done the work commits `FAILED_RETRYABLE`
  or `FAILED_TERMINAL` from whatever state the job is in (`workflow/service.py:197`),
  and the table allows that from `PUBLISHING` and `PUBLISHED`. A published job then
  counts as failed; prepared again it starts from review 1, whose publication has a
  key of its own. `docs/aws-durable-workflow-phase4.md` says of the last step that it
  "independently advances a persisted publication through `VERIFIED`".
* `VersionsGrow`. In the same way a late preparation records review 1 over review 2
  while that waits in `NEEDS_REVISION`; the number 2 is taken from then on, and a
  revision with another listing conflicts for ever. ADR 0002: "Editing an approved
  snapshot creates a new version".
* `PublishedAsApproved`, `DraftMatches` after such a failure. A generation that fails
  after review 2 was validated leaves the job prepared from review 1 again, with a
  product of review 1; if the seller's revision then records review 2 once more, with
  its own listing, another late failure and an approval of review 2 that had been
  checked before it put the product of review 1 on sale as review 2. It takes four
  overlapping calls, two of them late, so `WorkflowSound` claims the two only while no
  generation has failed late (`late`); the run has two calls.
* `SnapshotNamesProduct`. An approval that reads the review before the product of a
  repeated revision is attached puts the older product id back into the row: the
  fingerprint does not cover it (`workflow/dynamodb.py:63`). The job's own id, which
  is the one published, is right.

## 7. Not modelled, and the plan

Not modelled:

* **Provider resources and pricing**: arithmetic on catalogue answers. Only the age
  of a pricing observation matters to the job, and it is in ControlJob.
* **Projections, HTTP API, model adapters, acceptance and release tooling**: pure
  functions, routing and offline checks of files. They are most of the code by
  lines (`tools/`, the strict models, parsers and fingerprints of each package), and
  hold no state that a step could leave inconsistent.
* Of what is modelled: parsing, fingerprints, credentials and the wording of
  reports; the canary's bindings and its read-only coordinator, which issues a
  subset of the commands in PublicationMachine; command receipts of the job's own
  services (those of publications, uploads and selections are there); edits at the
  provider behind the application's back, except the shop owner's in JudgeCleanup;
  dry runs; of AccountProvision the checks that an email is verified and a user name
  well formed (one flag `confirmed` stands for what Cognito has proved). In
  ExecutionSweep the settlement of a preparation, which reads the job once more for
  itself, is folded into the one reading before every settlement. The clock of a publication stops at its deadline, after which nothing
  compares times any more.

Next: the first phase against an abstract specification of its own, so that what an
external write promises (claimed, sent at most once, answered or left for
reconciliation) is stated without its calls, and shown to be implemented by them; and
what still holds of the product on sale after a generation has failed late.
