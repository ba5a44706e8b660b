# Formal models of grid-core

`grid_api` is the control plane of AI Power Grid: an API process takes inference
requests, holds money for them, hands them to volunteer workers over a Redis
stream, and on the worker's terminal charges the customer and records what the
worker is owed. This directory models the parts in which money and work can be
lost, doubled or stranded.

## 1. The system

| component | state | operations | who it talks to | what makes it hard |
|---|---|---|---|---|
| credit ledger and reservations (`services/credits.py`) | `grid_credits`, `grid_credit_ledger`, `grid_reservations`, `grid_ledger` | `credit`, `debit`, `authorize_*`, `record_and_settle`, `settle_*`, `release_job`, `sweep_stale_reservations` | called by every router and by the worker socket | three pockets drawn in separate commits; terminals, releases and sweeps race |
| promotions (`services/promotions.py`) | campaigns, grants, spends | `grant_once`, `consume`, `release`, `sweep_stale_spends` | called by credits and identities | a spend outlives the transaction it belongs to |
| account merge (`services/identities.py`) | `account_aliases` | `merge_accounts` | moves balance and grants | requests authenticated before the merge carry the old id |
| daily free credits (`services/free_credits.py`) | two Redis keys per account and UTC day | `consume`, `release` | called by credits | the day changes between them |
| service limits (`services/service_limits.py`) | Redis exposure per service and day, one record per job | `authorize`, `reconcile`, `release` | called by credits | a read precedes each script |
| in-flight slots (`services/concurrency.py`) | one Redis counter per account, with an expiry | `acquire`, `release` | called by routers | raised before it is checked; processes die in between |
| job queue (`services/job_queue.py`) | Redis stream, consumer group, routing inboxes | submit, pop, ack, handoff, route, claim stale | routers submit, worker sockets consume | a delivery is owned, transferred, claimed and acknowledged by different processes |
| worker socket (`routers/worker_ws.py`) | one connection's jobs | pop, dispatch, relay, terminal | queue and credits | disconnect at any line |
| token stream (`services/token_stream.py`) | Redis buffer and channel per job | publish, subscribe | worker socket writes, request handler reads | two deliveries of a job write one stream; the settlement lies between the last token and the terminator |
| async media journal (`services/media_jobs.py`) | `media_jobs`, dispatch outbox, execution leases | reserve, dispatch, claim, renew, detach, resume | admission, queue, worker socket | leases expire while workers render |
| worker payouts (`services/settlement/payouts.py`, `payout_periods.py`) | `grid_payouts`, one advisory lock, the treasury's nonces | freeze, send, reconcile, retry | chain RPC | a broadcast may or may not have happened |
| x402 (`services/x402_payments.py`) | `grid_x402_payments` | open, settle, report, prove, reconcile, flag | facilitator, chain RPC, reservations | the facilitator collects after its answer was lost |
| deposits (`services/deposits.py`) | `grid_deposits`, daily caps, row and advisory locks | claim, verify, credit | chain RPC, `credit` | claims, caps and merges race |
| validators (`services/validators.py`) | probe assignments and groups, leases, attestations | issue, probe, attest, finalize | validator nodes, workers | attempts whose lease lapsed answer late; counting and writing are apart |
| bonded references (`services/validator_references.py`, `validator_reference_reviews.py`, `validator_bonds.py`, `worker_control_reviews.py`) | references, bonds, control reviews | choose, review, synchronize | issue of media probes, chain RPC | the list of candidates is read before any of them is locked |
| validator pairing (`services/validator_pairing.py`) | the pairing slot and the association of a node | create, approve, confirm, unlink | node, console | signed and approved data is old when it arrives |
| reward budget, consent, payment (`validator_compensation*.py`, `settlement/validator_payments.py`) | campaigns, consents, payment rows | create, finalize; start, prepare, approve, bind; send | chain RPC, the worker sender's nonces | approval spans two transactions; runs of one payment overlap on a chain that reorganizes |
| validator audit budgets (`services/validator_audit_budgets.py`) | audits and five budget counters | reserve, settle, release, sweep, manual review | `record_and_settle` | two terminals of one job. Dormant: `reserve_audit` has no caller outside the tests |
| worker enrollment (`services/worker_enrollment.py`, `accounts.py`) | a Redis record under a lock of 30 s, `grid_api_keys` | prepare, approve, acknowledge | console, rig manager | Redis and the database commit apart |
| OAuth, recipes, pricing, routing, statistics, p2p | see PROJECT.json | | | |

The rest of the tree (`horde/`, the SDK, deployment files) is either legacy that
`grid_api` never imports or client code. PROJECT.json lists every component with
its status.

The hard behaviours are all of one kind: several processes run the same
transactions over one database with no process-wide lock, and the code relies on
conditional updates (`WHERE status = 'held'`), unique refs and row locks. PROJECT.json
lists each hazard at its line with the property that covers it.

### What makes each part correct

- **Ledger and reservations.** A debit exists exactly with its reservation; a
  reservation closes once, as a charge with a paid worker or as a full refund with
  an unpaid one; refunds return to the account and the lineage (funded or
  granted) they came from; every hold is eventually closed.
- **Promotions.** A grant never holds more than it was issued for; what a
  reservation counts as promotional was really drawn; every spend is eventually
  settled.
- **Account merge.** The retired account is empty for good; a merge multiplies
  neither balance nor grants.
- **Daily free credits.** What is drawn on a day and not given back on that day never
  exceeds the day's largest cap. A release lowers the counter of the day it runs on:
  one that runs after midnight gives the allowance to the new day, although the comments at
  `free_credits.py:174-176` and `:201-204` speak of the day of the draw.
- **Service limits.** The counter of a day is the sum of the open exposures of that day,
  and stays below the ceiling.
- **In-flight slots.** No more than the limit are admitted through the counter, counting
  crashes, failed commands and the floor at zero.
- **Job queue and worker socket.** One live delivery per job; only its owner runs
  it; retry counters survive every hand-off and are capped; a job whose delivery
  is gone has been closed, and a lost worker's delivery is eventually reclaimed.
- **Token stream.** A reader is told of a success once, and only after the settlement that pays for it.
- **Media journal.** At most one fresh render per job; only the live execution
  token closes the job; a started render is never refunded by a duplicate delivery.
- **Payouts.** An account is paid at most once for a period, although a broadcast may
  or may not have happened; a row marked sent is on chain at its nonce; no two rows share a nonce.
- **x402.** A settled payment has a transfer of its own, and what was collected belongs to
  a payment that recorded it before.
- **Deposits.** A transfer is credited once, to the account that sent it or the one it was merged
  into, and the daily caps hold for concurrent claims.
- **Validators.** A verdict that counts votes counts answers of current attempts only, of
  operators who differ.
- **References.** The witnesses of a media probe are bonded, reviewed and independent of the
  target and of each other when the probe commits.
- **Pairing, consent, campaigns, payment.** An association has two parties who both still want it; a
  recipient is bound only with both consents to the same association; a campaign and its supplements
  never promise more than its budget; a reward is paid once, although several runs observe the chain.
- **Audit budgets.** Every counter is what its audits hold and spent, under its cap; one audit settles
  once; an ambiguous one waits for manual review.
- **Enrollment.** An account has one permanent key per rig; a revoked key stays revoked.

## 2. Plan

Order of work, most important behaviour first. Each line names the modules, what
they compose, the abstract specification and the runs.

1. **Reservations (done).** `Billing`, `CreditLedger` and `Promotions` hold the
   operations; `Reservations` composes them with the request, terminal, sweeper and
   merge processes; `ReservationProps` states the properties; `JobMoney` is the
   abstract specification. Theorems: type correctness, every ledger invariant and that the
   balances are the ledger's sums, the promotional pocket, the action properties, and that
   `Reservations` implements `JobMoney`.
2. **Dispatch of text jobs (done).** `JobStream` holds the operations of
   `job_queue.py`; `WorkerSocket` composes them with the loop, the poller and the
   cleanup of `worker_ws.py` and with the stale reclaimer; `DispatchProps` states the
   properties; `DeliveryLife` is the abstract specification. Theorems: every safety
   invariant, and that the dispatch implements `DeliveryLife`.
3. **Video jobs (done).** `MediaJobs`: journal, outbox, execution fence, connections;
   refines `JobMoney` again, under its own fairness. Theorems: both invariants and the refinement.
4. **The accounts beside them (done).** `FreeCredits`, `ServiceLimits`, `InflightSlots`; `Payouts`,
   `X402`, `Deposits`; `TokenStream`; one run, `books`, checks them all (section 6). Theorems: the
   property of each.
5. **Validators (done).** `ProbeQuorum`, `ReferencePool`, `AuditBudgets`; `Association` with `NodeLink`,
   which implements it, and `RewardConsent`, which rests on it; `Campaigns`; `RewardPayment`. Theorems: the
   property of each, and that `NodeLink` implements `Association`.
6. **Enrollment (done).** `Enrollment`. Theorem: one key per rig.
7. **Left.** OAuth codes and refresh tokens, which are single guarded rows.

`RECURSIVE` is used nowhere: sums over accounts and rows are folds of the community modules, so that
theorems can be proved about them (`SetProofs`).

## 3. Reservations: how the model corresponds to the code

| module | models |
|---|---|
| `Billing` | the minimum and maximum the splits of `settle_job` and `_refund_funded_micro` use |
| `CreditLedger` | `grid_credits` (`balance`, `funded`), `grid_credit_ledger` (`ledger`, keyed by the unique ref), `account_aliases` (`canon`); `_debit_in_session`, `_credit_in_session`, `_refund_funded_micro`, `_try_extra_debit_in_session`, `credit`, and the balance move of `merge_accounts` |
| `Promotions` | one campaign: `promo_grants`, the campaign's `granted_micro`, `promo_spends`; `grant_once`, `consume`, `release` and the grant part of `merge_accounts` |
| `Reservations` | `grid_reservations` (`res`), the existence of the job's row in `grid_ledger` (`paid`), the request handler (`req`), the promotional step after a terminal's commit (`after`) and the positions of both sweepers (`sweep`, `promoSweep`) |
| `ReservationProps` | the properties, the inductive invariant, fairness, and the refinement mapping |
| `JobMoney` | the abstract specification |
| `MCReservations` | constants of the instances |
| `ReservationSafety`, `ReservationRefinement` | proofs, with the facts about sums of `SetProofs` |

One SQL transaction is one action; what the code commits separately is separate
actions. A transaction that ends in a rollback with no effect is no step.
Admission is four steps: `Request` (authentication resolved the account),
`DrawPromo` or `DrawFails` (its own commit), `Hold` or `HoldRefused` (debit and row
together), and `UndoDraw`. `authorize_request` and `authorize_media` share them;
they differ in the price at the terminal (`Exact`) and in the job id (`Retryable`:
`media_jobs.prepare` derives it from the idempotency key). A terminal is
`CompleteAndSettle` (worker row and settlement in one transaction) or `ReleaseJob`,
followed by `RunAfter` for the promotional pocket. The stale-hold sweeper is three
steps, the stale-spend sweeper two, with anything in between. `Legacy` jobs are
holds that predate the atomic terminal: they start held with a worker row, the only
reason the sweeper has a settling branch.

**Why a merge may be one action.** `merge_accounts` holds `FOR UPDATE` locks on
both `grid_accounts` rows until it commits. Ledger rows, credits, grants and spends
have foreign keys to `grid_accounts`, so each transaction that inserts one takes
`KEY SHARE` on that row and is ordered before or after the merge;
`media_jobs.reserve` locks the account as well. A reservation row has no foreign
key, but a hold with a purchased part inserts a ledger row in the same transaction,
and one with a promotional part has a held spend, which stops the merge. A hold
wholly covered by the daily allowance is not ordered this way and may land on an account being
merged away. It moves no money then or later, and the state it leaves is that of a hold opened
before the merge.

**Abstracted.** A price is a constant and a counted cost any member of `Actuals`
(token counting and den arithmetic are not modelled). The free allowance is an
input: any member of `FreeDraws`. One promo campaign exists. Money is in whole
units of micro-USD with no width, as in the database's `BIGINT`.

## 4. Dispatch: how the model corresponds to the code

| module | models |
|---|---|
| `JobStream` | the Redis stream and its one consumer group (`stream`, one record per entry): `submit_job`, `pop_job` (`ReadNew`, `TakeRouted`), `ack_job`, the four modes of `_HANDOFF`, `_ROUTE`, and the claim of `claim_stale_jobs` |
| `WorkerSocket` | one record per connection (`conn`), the registry `grid:workers:active` (`online`), the reservation a handler closes (`hold`); the loop of `worker_websocket`, `_poll_jobs`, `_keepalive_registry`, `_requeue_incompatible_job`, the cleanup in its `finally`, and the reclaimer |
| `DispatchProps` | properties, inductive invariant, fairness, refinement mapping |
| `DeliveryLife` | the abstract specification |
| `MCDispatch` | constants of the instances and the liveness property |
| `DispatchSafety` | proofs: the safety properties, and that the dispatch implements `DeliveryLife` |

**Steps.** A Lua script runs alone in Redis, so `_HANDOFF`, `_ROUTE` and `_TAKE_ROUTED` are
one action each; so is every single Redis call and database transaction. Between
two of them everything else may happen. The handler's place between its awaits is
`conn[c].step`:

| step | the handler is about to |
|---|---|
| `idle`, `fetched` | take the prefetch slot; check again that a routed delivery is still its own (`Recheck`) |
| `targeting`, `bouncing`, `unserved` | compare the job's target with itself; hand the job back for the target; fail it because a required target is missing |
| `mismatched`, `routing` | list compatible peers; try one after the other, then requeue |
| `running`, `acking` | wait for the worker; acknowledge what it has settled |
| `closing`, `failing` | release the hold, after a verdict of the queue or after a failure of its own |
| `requeueing`, `closingCurrent`, `draining`, `closingSlot` | the cleanup: requeue `current_job`, release it, requeue the slot, release it |

A connection can hold four deliveries: `poller` (read by `_poll_jobs`, which waits for
the slot), `slot` (the queue of size one), `job` (the local of the loop) and `current`
(`current_job`, which survives a refused settlement). `SettleFails` leaves the entry
pending and `current_job` set, as the code does.

**Entries.** An entry is `new`, `pending`, `acked` or `expired` (taken off the list because
its deadline passed while it lay in an inbox, so that its holder must fail the job).
`hint` is the worker whose inbox names it, `routed` that it came from an inbox, `late`
that its dispatch deadline has passed, and `passes`, `requeues` and `failures` are the
three counters the handoff script keeps. `sent` and `recovered` count entries and are
history only.

**The reclaimer.** `claim_stale_jobs` claims an entry idle for five minutes and then hands
it off, in two actions (`Claim`, `Recover`). There is no clock: an entry in
somebody's hands (`Attended`) may be claimed at most `MaxSlow` times, which is the
slow worker; any other entry may be claimed once the registration of its last owner has
expired (`Lingers`), because the registration lives 60 seconds and the idle limit is
five minutes.

**Abstracted.** `Serves` stands for the model, format and feature checks; `Target` and `Hard` for the
preferred or required worker of a job. What a worker sends is reduced to the four ways a
generation ends: `Succeeds`, `SettleFails`, `FailsVisibly`, `FailsEmpty`. The reservation is the
three-valued `hold`: `record_and_settle` and `release_job` change it once, which is what the
modules of section 3 establish. Only the text stream is modelled.

## 5. Video jobs: how the model corresponds to the code

`MediaJobs` models `media_jobs.py` and what its callers do with it; `MCMedia` is its
instance. One action is one database transaction, one Redis call or one frame.

| variable | code |
|---|---|
| `demand`, `payout` | the reservation's status and the row in `grid_ledger` |
| `journal` | `dispatch_state`, `dispatch_attempts`, the dispatch lease |
| `published` | whether the stream can still deliver the job (any number of copies) |
| `fence` | `execution_worker_id`, `execution_token`, its lease, and whether it is too old to resume |
| `socket` | where each connection's handler is between two awaits |
| `outbox` | the round of `dispatch_batch` in each API process |

`List`, `Lease`, `Add`, `Confirm` are the outbox: it lists in one transaction, leases in a second,
appends to the stream, confirms in a third, and may stop between any two. `Exhaust` gives up
what `List` read as spent. `Offer`, `ClaimExecution`, `SendJob`, `Finish`, `Fail`, `Break`, `Detach` are a connection
that renders; `ClaimResumption` and `RenewResumed` are the reconnect that resumes. A commit
whose answer is lost sets the fence and leaves the connection without the job. Leases have no
clock: a live one may lapse at any moment, which is every order the clock allows. `SweepHold` is the
stale-hold sweeper, which looks at the age of the hold only.

Abstracted: results, uploads and receipts (a terminal is `Finish` or `Fail`), the identity of a request
and its digests (the retried admission is in `Reservations`), and the number of copies in the
stream: `JobStream` has them one by one.

**Fairness** (`MediaFairness`): one outbox process, at least, lists each spent or unpublished row again and
again and ends the rounds it starts (strong fairness, because restarts may interrupt any round but not every
one), and a dispatch lease ends. `_media_job_outbox` (`main.py:88-105`) loops
and catches every error; a lease has a time. Workers need do nothing.

## 6. The accounts beside them: how the models correspond to the code

Each of these modules models one component with a protocol of its own. They share no state with
each other (but for `Association`, below), so one instance, `MCBooks`, checks them all: the variable `study`
names the component a behaviour moves, the others rest in their initial state. The
instance is a union of the state spaces, not a product, and TLC tells states apart by the component under study
(`Studied`), which is exact because the others never move.

| module | models | a step is | what is left open |
|---|---|---|---|
| `FreeCredits` | `_CONSUME_LUA`, `release`, and the expiry of the two keys of a day | a script | which of the caps of a day a request is entitled to |
| `ServiceLimits` | `authorize`, `reconcile`, `release`, with the read before each script | a script, or the read | amounts |
| `InflightSlots` | `acquire` and `release`, command by command; each may fail, the process may die | a Redis command | |
| `Payouts` | `freeze`, the senders of `payouts.py` with wallet binding, nonce, record, broadcast, proof | a transaction or a call to the chain | allocation, preview, manual decisions |
| `X402` | the payment row from verification to proof, hooks, monitor, operator, stale flag | a transaction, a facilitator call, a look at the chain | terms and signatures |
| `Deposits` | claims with their locks, caps, receipts, credits; merges; midnight | a lock or the statements until the next one | prices; one asset for the four, which are recorded alike |
| `ProbeQuorum` | seats, probe leases, attestations, tally, finalization of a shared text group | the statements under one lock | challenges and scores |
| `ReferencePool` | choice and locking of witnesses, both reviews, the bond synchronizer, reconnects | a row lock, a review, a write of the synchronizer | freshness windows, rotation weights |
| `Association`, `NodeLink` | the association of a node; the pairing protocol that makes it | a transaction under the node's row lock | rate limits |
| `RewardConsent` | request, proposal, approvals in two transactions, export, binding | a transaction | contract wallets verify like others |
| `RewardPayment` | plan, nonce and bytes, receipt, screening, broadcast, status of one reward | a transaction or an RPC call | fees and balances |
| `Campaigns` | creation, supplements, preview and finalization | a transaction under the advisory lock | evidence of each report |
| `AuditBudgets` | every transaction that touches an audit or its counters | a transaction | |
| `TokenStream` | events of one job from all its deliveries, its settlement, its reader | a Redis call or a transaction | cancellation, raw passthrough |
| `Enrollment` | enrollments of one rig, their keys, revocation and merge | a Redis call or a row lock | the wallet an approval sets |

`BudgetProofs` holds the proofs about `InflightSlots`, `ServiceLimits`, `FreeCredits`, `Deposits`, `Payouts`,
`RewardPayment`, `AuditBudgets` and `Campaigns`, which keep amounts; `BooksProofs` those about `X402`, `NodeLink`,
`RewardConsent`, `ReferencePool`, `ProbeQuorum`, `TokenStream` and `Enrollment`. `StudyProofs` carries both over to the instance.

Worth knowing when reading them:

- **Chains.** `Payouts`, `X402` and `RewardPayment` each have a small chain of their own: blocks are appended in nonce
  order; what a node answers may be any earlier state of the truth; `RewardPayment`'s chain may drop
  blocks that are not final. `RewardPayment` shares the nonces and the lock of the
  treasury with a worker sender, `rail`, which does what `Payouts` does in detail. The RPC calls of one `_receipt` look are one
  moment, because a block takes far longer to become final than a look takes.
- **Association.** `RewardConsent` reads an association it does not make. It is checked against
  `Association`, the abstract specification of what may happen to the row, and `NodeLink` implements
  `Association` (section 8). In the consent study every pairing counts as agreed (`PairingsAgreed`).
- **References.** Account and wallet are one identity; there is one model and one modality; a poll that joins
  an open group passes on to the next target. A maintainer's preview and
  its digest are the atomic apply that compares them.
- **Enrollment.** A request was authenticated before it took its lock, perhaps as an account that has been
  merged away since. A request that dies leaves its lock for up to thirty seconds; the model frees it at
  once, which allows more. A lapsed lock is `Lapses`, a Redis answer that is lost `PublishFails`.
- **Audits.** `reserve_audit` has no caller outside the tests in this commit: the module states what the
  budget code promises once it has one.

## 7. Runs

| run | instance | what it shows |
|---|---|---|
| `resv_text` | 1 text job, 2 accounts, 2 top-ups, grant, merge, expiry, 1 crash, free draws of 0 to 2 (1,206,028 states) | debits, refunds, charges and promotional draws stay matched; `IInv` holds, the invariant the proofs use |
| `resv_shared` | a retried video job and a text job on one balance and one grant (1,069,964) | the balance is the ledger's sum; releases from terminals, undone admissions and sweeper never overfill the grant; `JobMoney` is implemented when two jobs compete for funded value |
| `resv_live` | one video job, 2 tries, 2 crashes, and a legacy hold (16,106) | holds and spends are eventually closed; paid work is charged by the sweeper, never refunded |
| `resv_pocket` | violation of `PromoBacked` | finding 1 |
| `resv_merged_grant` | violation of `GrantNeverOverfilled` | finding 2 |
| `disp_route` | 1 job that one of 2 workers serves, its deadline may pass; 1 slow claim, 1 refused settlement, 1 lost connection (923,383) | one live delivery, final verdicts, nothing stranded; `DeliveryLife` is implemented, which includes bounded retries |
| `disp_reconnect` | 2 connections of one worker, 2 jobs, one bound to another worker, 2 lost connections (369,823) | no reconnect doubles work; `DispatchInv` holds, the invariant the proofs use |
| `disp_live` | 1 job preferring the second of 2 workers, 1 bounce, 1 lost connection (89,316) | whatever has been read leaves the pending list |
| `disp_attempts` | violation of `RetriesAreAttempts` | finding 3 |
| `media` | 1 video, 2 workers, 3 connections (2 of one worker), 1 outbox, 2 attempts, 2 tokens (291,285) | one render, no give-up of a started job, a decision in the end; the money is `JobMoney`'s |
| `books` | the fifteen modules of section 6 (1,509,452: payouts 517,306, references 294,240, consent 148,294, quorum 144,216, audits 92,888, enrollment 86,160, reward payment 71,736, campaigns 65,424, the others below 50,000) | section 1's promise of each |
| `stream_done` | violation of `SuccessIsSettled` | finding 4 |

**Bounds.** Two accounts are the fewest that can merge, two jobs the fewest that can
share a balance. Two top-ups, one of which may be granted and the other funded,
give every split of lineage; `Cost = 2` with counted costs 0, 1 and 3 reaches a full
refund, a partial one and an overrun, and free draws of 0, 1 and 2 cover every subset of the three
pockets, the hold that costs no credit included; in the other instances nothing is free. `MaxTries` bounds retries of an idempotency key, `MaxCrashes` crashes of an
API process; every other counter is bounded by the finite sets.

For the dispatch, two workers are the fewest between which a job can be routed or
bounced, and two connections the fewest that can overlap. `MaxRequeue`,
`MaxGeneration` and `MaxAffinity` are 25, 2 and 10 in the code; with 0, 1 or 2 each
mode is taken below its limit and at it. `MaxSlow`, `MaxOutages` and `MaxDrops` bound what the
environment may do, and one of each is enough to put every claim, refused settlement
and lost connection into every gap of the loop. `MCDispatch` bounds the ids in
`PendingIsResolved` by 10; the instance makes at most 9 entries. The theorems hold
for every value of all these constants.

For the video jobs, one worker with two connections is what a resumption needs, a second worker what a
wrong resumption needs. Two attempts and two tokens (`MaxAttempts`, `MaxTokens`) give a lost append and its
repetition, a first execution and a resumed one. `HeldLimit` is met by one job.

For `books`: two processes wherever a component has concurrent ones (senders, terminals, claims,
finalizers, carriers, runs, polls, requests); two accounts, the fewest that merge; two rows, payments or enrollments, the
fewest that can be confused, and a third transfer or request where a cap must be passed with two inside; two days
(`LastDay`, `FinalDay`, `FinalDate`) for midnight; four validators for a quorum of 2 of at most 3 seats, two of them of one
operator; caps of 2 and 3 units, so that an amount of 2 fits once and 1 twice. `MaxTries`, `MaxSigned`,
`MaxBlocks`, `MaxHeight` bound the transactions signed and mined: two, so that a retry can meet its predecessor.
`MaxEntries` and `MaxRelayed` are two deliveries and one token each; `MaxPairings` and `MaxRequests`
bound replacements, `MaxMerges`, `MaxChanges`, `MaxReports`, `MaxEdits`, `MaxSlots` and `MaxFaults` what the environment may do.
`ReferencePool` was also checked with two edits on three owners (4.3 million states).
`Alike` exchanges `a1` with `a2` and `b1` with `b2`, which the constants
use only in pairs: two rows, two processes. `r1`, `r2`, `q1`, `q2` play parts of their own and are not exchanged. Each study uses
only its own component's properties, and no liveness is checked there.

`CHECK_DEADLOCK FALSE` is set because all these systems may stop: when every job is closed
and every bounded event has happened, nothing is left to do.

**Fairness.** For reservations, `Fairness` asks that a request coroutine that has drawn finishes, unless it crashes
(`RequestCrash`, bounded), that a committed terminal's promotional step runs or is
lost to a crash, and that the sweepers progress. The last is what `main.py:121-150`
provides: `_reservation_sweeper` catches every exception and loops for the life of the process,
listing holds older than its cutoff. Nothing is assumed of workers or
customers: no terminal has fairness, so a worker may never answer.

For the dispatch, each connection's loop, poller and cleanup progress while it is open
(they are coroutines of a live event loop), registrations expire, and
`_stale_job_reclaimer` (`main.py:66-85`) catches every exception and repeats each minute. The fairness of
the loop includes that `running` is left: a worker that falls silent for 300 seconds
(`worker_ws.py:2372`) has its connection closed, which is a `Disconnect`, and the model assumes that
the others end their generation. A worker that sends frames for ever is outside this
assumption; its entry becomes idle and is claimed from it (`Claim`). Connecting,
losing a connection, the clock and the claim of an entry in somebody's hands have no fairness.

## 8. Proofs

Every theorem holds for every value of the constants, under the named assumptions of the
modules, which TLC evaluates in the runs:

- reservations: `NoAccountAssumption`, `LedgerAssumption`, `NoGrantAssumption`, `CampaignAssumption` (of `Promotions`), `JobsAssumption`;
- dispatch: `StreamAssumption` (of `JobStream`), `SocketAssumption`; video jobs: `MediaAssumption`;
- the accounts beside them: `SlotAssumption`, `LimitAssumption`, `FreeAssumption`, `DepositAssumption`, `PayoutAssumption`,
  `RewardAssumption`, `AuditAssumption`, `CampaignAssumption` (of `Campaigns`), `X402Assumption`, `LinkAssumption`, `ConsentAssumption`,
  `PoolAssumption`, `QuorumAssumption`, `StreamAssumption` (of `TokenStream`), `EnrollmentAssumption`.

They give the constants their types, keep absent values (`NoAccount`, `NoTx`) apart from real ones, and ask that the
sets over which an amount is summed or votes are counted be finite, as the rows of a table are. All other sets may be
infinite. The proofs have 17,200 obligations: `ReservationSafety` 3,754, `BudgetProofs` 3,687, `BooksProofs` 3,046,
`DispatchSafety` 3,001, `MediaProofs` 1,430, `StudyProofs` 1,211, `SetProofs` 739 and `ReservationRefinement` 332.

### Reservations

`ReservationSafety` proves `TypeCorrect` and that `IInv` is
inductive. Its parts:

- `AccountsInv`: aliases lead to a root in one step, a retired account has no
  balance, and a held reservation with a purchased part belongs to a root. Without
  it a refund could meet a merged account and find no debit to restore from.
- `RequestInv`: the draw is within the price, and no row exists before the hold.
- `SweepInv`: what the sweeper has read stays true. `settle` implies the worker row,
  which is never deleted; `release` implies the job is not legacy, and only legacy
  jobs are held while paid. This is why a stale read does no harm.
- `RowsInv`: the hold, refund and extra rows of a job match the reservation, refund
  and extra debit exclude each other, and the refund's funded part is what the
  remaining charge did not consume.
- `Charged`: the net cost of a paid, closed job.

`FundedSubset` needs `RowsInv` because a refund adds the funded part recorded in
another row; `UnpaidCostsNothing` and `PaidIsCharged` need the mutual exclusion of
refund and extra debit. From `IInv` follow the invariants, and then
`ClosedStaysClosed` and `SweepSparesPaidWork`, which are action properties. `LedgerOnlyGrows` adds that no
step writes to a ref that has a row (`LedgerIsAppendOnly`): each action books only refs that `IInv` shows to be free.

**The ledger.** `LedgerInv` adds to `BalanceMatchesLedger` that the two refs of a merge are free until it happens. A step
books one row under a ref no row has yet (`BooksOne`), and a merge two; `SetProofs` says what that adds to the sum over an account's rows, and the
action's balance changes by as much (`BookingKept`, `MergeBooks`). `BalancesMatchLedger` follows, for spendable and for funded credit.
`MoneyIsConserved` looks at all accounts at once: their balances add up to the credited top-ups less the net cost of the
jobs, and a merge changes no side of that equation. `BalancesMatchLedger` alone would be content with a merge whose two rows
do not cancel.

**The promotional pocket.** `PocketInv` is inductive beside `IInv`. The amount of a spend is either all of what a
request, a reservation, a pending terminal and a sweep count as promotional, or they count nothing (`DrawInv`); a spend keeps all
until its first release (`SpendInv`), and a part of it only after the terminal of a job that cannot be admitted
again (`PartInv`); an account is not merged away while a spend is held for a request or a hold of its own (`RootInv`). For a job that is admitted once,
`OnceInv` orders the races: the stale sweep reads such a spend only when no request holds it in hand and its reservation is
closed. From these follow

- `RetiredStayEmpty`, unconditionally;
- `OnceAdmittedIsBacked` for every job outside `Retryable`, whatever the retried ones do, and so `PromoIsBacked` where
  `Retryable` is empty. The condition is needed: finding 1 is its counterexample;
- `OnlyCollapsesOverfill`, unconditionally: only a grant that another was collapsed into (`CollapsedInto`) can ever hold more
  than it was issued for. A merge that moves a lone grant, and any later release of its spends, is harmless.
  The invariant is `GrantsFit`: what is left of such a grant and what its spends still keep fit into it (`FitKept`). A
  collapse takes the larger of two remainders and leaves the spends where they were, which
  breaks it and in the end the property: finding 2. So `GrantsAreNeverOverfilled` holds as long as no two grants were collapsed.

`ReservationRefinement` proves `Implements`: `Spec => ImplementsJobMoney`. A step
leaves a job's phase, payout and net cost alone (`Quiet`) or is one of four abstract
steps; each lemma shows one: `Holds0` for a hold, `Records` for an unreserved
payout, `Charges` for a completion or a settling sweep, `Refunds` for a release or
a refunding sweep. A merge moves balances by rows of its own and is a stutter.

### Dispatch

`DispatchSafety` first shows what each script does to the stream: it changes one live entry in place
(`EditedAs`) or acknowledges a pending entry and appends its replacement (`Retried`, with
one of four ways to count). Either preserves `StreamInv`: the counters of a live
entry account for every entry of its job (`Counted`), which is what bounds retries
across workers and modes, and an expired entry was the last of its job.

Then it proves `DispatchInv` inductive. The safety properties are not inductive by
themselves: that two connections never hold one delivery depends on where
the four places of a connection come from. `HeldInv` says that what a connection holds was read and
lies in no inbox, so neither `ReadNew` nor `TakeRouted` can give it to another; `PlacesInv` that
the places hold different deliveries, except that `current` may repeat `job`
while it runs, so a routed delivery is really gone from its
sender; `WorkInv` that a delivery in the
hands of the loop is still pending unless its job was recovered. The step of a connection has an
effect on a delivery that only it holds (`OwnStep`), so the others keep what
they know; the reclaimer alone reaches past a holder, and counts it (`BackgroundKept`).
From `DispatchInv` follow `OneDelivery`, `NeverSharedDelivery`, `BoundedRetries`,
`VerdictsAreLast` and `OnlyRecoveryDoubles`. The runs check the second and third through `DispatchInv` and
`ImplementsDelivery`.

`NothingIsStranded` needs an invariant of its own, `UnlostInv`, of the states in which no connection was lost: what the loop works on has
not expired under it, what it acknowledges last is settled, and every submitted job with an open hold is cared for. The lemma `Unlost` is the step:
the entry whose life ends is handed to a closer, to another holder or to a new entry of its job (`PassedOn`), and all
other entries live on. The lemmas `LoopStepUnlost`, `EndingsUnlost`, `FetchingUnlost` and `BackgroundUnlost` show this of the actions.
After a disconnect or a crash the statement says nothing; then the reclaimer answers for the job, which `PendingIsResolved` checks.

The last part of the module proves `DispatchImplements`: each effect on an entry is a step of its job's
`DeliveryLife` or a stutter (`AddMoves`, `EditMoves`, `RetryMoves`).

### Video jobs

`MediaProofs` proves `MediaInv` inductive. That a video is rendered once is not inductive: what counts is who may still
send a first frame. A fence never changes its worker and is set only for a held job nobody started, so every session works
for the fence's worker (`SessionOK`); a session that was not resumed stems from the one claim that set the fence, and as
long as it waits with its frame no other does and nothing was rendered (`FirstOK`). `MoneyOK` ties the payout row to the
charge, and a give-up to a job without a fence. Each action then only has to keep the fences (`FencesKeep`) and add no
first frame (`NoNewFrame`). The refinement of `JobMoney` follows because the money of a job moves in three ways
(`MoneyMoves`) or not at all.

`OneSessionEnds` says that of all connections at most one may end a video: those with the right to end it all carry the
token of the job's fence, and a token is carried by one connection only, because a claim takes the next number (`TokenInv`). `FencesOnlyAdvance` is the
action property beside it: worker, token and attempts never go back.

### x402 payments and the association

`BooksProofs` proves `PaymentInv` inductive: whatever a facilitator has been told, a prover looks at or the chain shows
stems from a payment that recorded the charge of a settled bill (`RequestOK`, `ProverOK`, `CollectedOK`), and such a
payment never loses its permit or its charge again (`CollectedKept`). `BooksAlwaysMatch` follows.

`LinkInv` adds to `LinkIsMutual` that pairing numbers only grow: an open pairing is newer than the association and than
all that was withdrawn (`PairingInv`), so that a confirmation can only make a newer association. From it follow
`AssociationsAreMutual` and `LinkImplements`: the pairing protocol implements `Association`.

The other proofs of `BooksProofs` have the same form: an inductive invariant that says what a process
remembers between two transactions.

- *Consent* (`ConsentsAreMutual`): a signature under verification is over a consent that was there, and an exported or bound consent is of a
  request that no cancellation can reach any more.
- *References* (`WitnessesAreIndependent`): what a poll has picked fits its target by the reviews in force, and the locks the poll holds
  keep them so until it commits; a bonded reference is of the owner whom the chain had bonded at its block.
- *Quorum* (`VerdictsAreBacked`): seats are of distinct operators, a vote is the completed probe of a seat, and an outcome shown or about to be written
  is the only one the votes give (`TallyWins`, `WinnersGrow`). Votes with one verdict are as many as their operators, because seats are of different ones (`VotesAreOperators`, an injection).
- *Token stream* (`DoneMeansSettled`): the connection between settlement and done event holds the only promise of one.
- *Enrollment* (`RigsHaveOneKey`, an action property): an activation that is about to finish has the row lock, and its key lasts.

### Amounts

A sum is a fold of the community modules, whose recursion is over an element chosen by `CHOOSE`. Instead of an induction, `SetProofs` argues by a smallest
counterexample (`LeastSubset`, from the well-foundedness of strict inclusion on finite sets): two functions that unfold alike agree on every subset, so a sum does not
depend on the order, and changes by what one element changes or adds. With it `BudgetProofs` proves for each component its property from an inductive invariant:

- `SlotsBound`: the counter covers all who own a unit of it, those over the limit included, until a command fails or the key expires.
- `ServiceStaysUnderCeiling`: the equality of counter and open exposures holds of every day and not of today only, since a late terminal writes the counter
  of the day its request was bound to.
- `FreeCreditIsAccounted`: what a request took is what the counter drew on for it, as long as the day has not turned.
- `DepositsCreditOnce`: at most one claim is between its cap statement and its insert, and the sums it read still have room for it, because the cap lock
  is held from the one to the other; a merge moves receipts and balance together.
- `PayoutsPayOnce`: what reached the network for an account carries the nonce its row is bound to, which is never rebound, so at most one of its
  transfers can be mined; and while no sender lost its lock, nonces are told apart (`Apart`).
- `RewardPaysOnce`: the reward's one nonce is none of the worker sender's, only it is ever in the pool, and a run that has decided "sent" has seen the
  transaction final, which no reorganisation takes back.
- `AuditBudgetsAreExact`: each of the five counters is the sum of what every audit holds of it and has spent.
- `CampaignsStayInBudget`: a campaign without a parent leaves its supplements what it can never reach itself (`FamilyOK`). Shares rounded down add up to no more than
  what is shared (`SharesAdd`), and the reports counted, a fold over the list that keeps those that fit beside the kept ones, pair no operator and group twice
  (`IncludedTogether`); both by the same argument.

### The joint instance

The runs check the accounts of section 6 side by side, in `MCBooks`: a step of `BooksSpec` is a step of one component, and
the pairing protocol and the reward consents share the association. `StudyProofs` closes the distance between the
components' theorems and that instance.

- `StudiesImplement`: a behaviour of `BooksSpec` is a behaviour of each component that shares no state, since the others'
  steps leave its variables alone.
- `StudiesAreTyped`: `StudyTypeOK` in every reachable state. Only some of the inductive invariants above contain the
  whole of their type invariant; for the others the types are proved beside them (`QuorumTyped`, `LocksTyped`, `AuditTyped`,
  `CampaignTyped`, `PoolTyped`).
- `StudiesAreSafe`: all safety properties of the components together, and `OneKeyPerRig`. Consents read an
  association that pairing changes; `AssociationStudied` is their joint invariant.

### Only model-checked

The four liveness properties `HoldsAreClosed`, `SpendsAreClosed`, `PendingIsResolved` and `DecidedInTheEnd`: fairness is beyond the prover. Every
invariant that a passing run checks is the consequence of a theorem, with one reservation:
`PromoBacked` and `GrantNeverOverfilled` without the conditions above are false; the runs that pass check them on instances without the race that breaks them. That
the conditions cannot be dropped is what the two `violation` runs show.

## 9. Findings

1. **A retried video admission counts promotional value it never drew.** A video
   job id is derived from the idempotency key. When an admission draws promotional
   credit, fails and gives it back, a retry meets the released spend, and
   `consume` answers its amount without drawing. `resv_pocket` shows the
   reservation then open with nothing kept from any grant.
2. **A merge can overfill a grant.** The promotional release of a terminal runs
   after its commit. If the sweeper settles the spend first and the accounts are
   merged, the merged grant keeps the larger remainder, and the late release adds to
   it. `resv_merged_grant` shows the remainder above the amount issued.
3. **A lost connection uses up the retries of empty generations.** A requeue after a
   disconnect counts as a failure of the job in the same counter as an empty
   generation, even when the delivery only lay in the prefetch slot. `disp_attempts` shows an
   empty generation that closes its job after fewer attempts at a backend than
   the comment on `MAX_GENERATION_REQUEUE` promises.
4. **Silence is reported as success.** A reader that hears nothing for 300 seconds ends, and its request
   handler sends `[DONE]`, or a completion with `finish_reason` "stop", for a job whose hold is open and whose worker
   may still deliver. `stream_done` shows it; the comment in `worker_ws.py` says a client never gets a
   success terminator on an unsettled job.

What else modelling showed, without a line of the repository that says otherwise:

- A crash between the settlement's commit and `publish_done` (`worker_ws.py:1214-1215`) leaves a client charged
  and without an answer. After a refused settlement the client sees an error, but
  the delivery is reclaimed, served again, and may be charged later. A job that is requeued after a disconnect
  streams from its beginning into the same buffer (`worker_ws.py:1247-1273`).
- A finalizer that counted before a vote in flight may overwrite an accepted outcome with
  `insufficient_evidence` (`validators.py:2177-2206`). It never replaces one verdict by another.
- Polls take their targets in "one global worker-lock order" (`validators.py:2286-2295`), but the rows of witnesses
  and of control reviews are locked out of that order: two polls may wait for each other, the database
  aborts one, and the validator polls again. Two groups may share a pair of references once the first has
  committed; the docstring's "concurrent groups do not silently reuse the same pair" holds while both hold locks.
- A lost answer of Redis after it has the completed enrollment (`worker_enrollment.py:251-264`) revokes the installed key
  although the record says "complete": the manager can never acknowledge it and must enroll anew. An
  approval authenticated before a merge installs its key on the account merged away (the insert waits for the
  row lock, `accounts.py:649`, and then goes ahead); that key works for the surviving account, beside one of
  its own for the same rig.
- The shadow scorer discards route events that are still pending when a run is finished, and one whose evidence changed
  between two deliveries counts as invalid.

## 10. Not modelled

PROJECT.json gives a reason for every component left out. The map covers a small share of the lines in the
repository, for four reasons. A third of the tree is `horde/`, the code base the product was forked
from, which the README calls "frozen historical source; never part of the Grid runtime" (`README.md:90`) and
`grid_api` never imports. Much of the rest declares schemas, parses requests, formats answers and checks
policies around the transactions modelled here. Statistics, pricing, recipes, allocation and den arithmetic are pure
computations with unit tests. And what remains of the state is single guarded rows: OAuth codes and tokens, API
keys, canaries, settings, operator reviews.

Of the modelled components, these parts are left out:

- dispatch: the claim heartbeat of media jobs, passthrough, probes and canaries, strikes, the
  trimming of the stream by `MAXLEN`, the expiry of inbox keys;
- video: recovery of results, source objects, the admission deadline;
- validators: registration, challenges, scoring, fidelity probes, history pruning, statistics, and the shadow
  scorer, which has no economic effect;
- payouts: allocation, Merkle trees, manual decisions; rewards: the recomputation of a report's evidence;
- the buffer's expiry in the token stream; the experimental p2p transport, which every deployment file turns off; SDKs.
