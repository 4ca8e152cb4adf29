# Zimamless V3 — formal models

Zimamless is an invoice-receivable marketplace: a supplier is onboarded and
submits an invoice, the invoice is verified, scored and listed, banks offer, one
offer is accepted, a contract is signed, the bank funds it, the platform pays the
supplier, and at maturity the buyer pays the bank. The backend (`src/apps/api`,
NestJS over PostgreSQL) is a set of request handlers and one scheduler that
share nothing but the database. This directory models it in TLA+, checks the
models with TLC and proves the main properties with TLAPS.

Contents: [components](#components-of-the-system) ·
[modelling conventions](#modelling-conventions) · [modules](#modules) ·
[runs](#runs) · [fairness](#fairness) · [proofs](#proofs) ·
[disagreements](#where-code-and-documents-disagree) ·
[observations](#what-the-models-reach-and-no-document-denies) ·
[limits](#not-modelled) · [what remains](#what-remains)

## Components of the system

Paths are under `src/apps/api/src/modules` unless they say otherwise. INV-*n*
are the invariants of `src/docs/04_AGENT_A_BACKEND_BRIEF.md:154-166`; ZM-* are
requirements of `src/docs/01_ZIMMAMLESS_V3_REQUIREMENTS.md`.

| Component | State | Hard behaviour | What makes it correct | Modules |
|---|---|---|---|---|
| **Onboarding** `onboarding/*` | application, information requests, organization status, SLA events | handlers overtake each other while registries answer; pause and resume | the clock counts exactly the time the platform holds the case; nothing is stranded | `Onboarding`, `SlaClock`, `BusinessTime` |
| **Registries** `government/*` | provenance rows per field, the breaker of each source | overlapping lookups, retries, outages | silence is never adverse; what the registry said stays in force | `Breaker`, `Registry`, and facts of `Onboarding`, `Screening` |
| **Submission** `transactions/transactions` | transaction, invoice and its fingerprint, fraud cases before the market | duplicates submitted at once; slow checks before writes by id | one live transaction per invoice | `Submission`, `TransactionState` |
| **Documents** `documents/*` | rows, objects, hashes, readings | the database, the store and the reader share no transaction | only a changed file is accused; a hashed file is read | `Documents` |
| **Screening** `transactions/verification`, `risk/*` | facts, model versions, assessments | two readers of the same facts; sources that fail; boundaries | the checks and the blockers agree; a blocked transaction is CRITICAL | `Screening` |
| **Marketplace** `marketplace/listings`, `offers`, `listing-deadlines`, `contracts/acceptance` | listing rounds, offer versions, lock, selection, snapshot, commission | rows read before the lock; a sweep that writes what it selected earlier; rounds that repeat | one sale, atomic, with its evidence (INV-1, 4); approved by a second user (INV-12); one active listing (ZM-CON-017); every round ends | `Marketplace`, `AtomicSale` |
| **Prices** `marketplace/eligibility`, `policy-filters`, `commission`, `offer-math`, `admin/*` | tiers, filters, fee, snapshots | the tariff changes under an agreed deal; rounding | what was accepted is what is charged; the split fits the gross | `Pricing` |
| **Contracts** `contracts/contracts`, `conditions`, `pre-contract-checks` | conditions, contract, signature slots, documents | counts inside open READ COMMITTED transactions; a document stored before its contract | both parties' signatures (ZM-CON-010, 012); no contract over an open condition (ZM-CON-006); no document lost | `Contracts` |
| **Funding, settlement** `funding/*`, `ledger/*` | transfer mark, codes, settlement, attempts, journals, notices | codes issued concurrently; the rail called between two transactions; lost answers, death, retries | FUNDED needs transfer and code (INV-10); paid and booked once (INV-13, 5); stalls are escalated (ZM-FND-012) | `Funding`, `Payout` |
| **Lifecycle** `payments/*`, `cases/*` | payments, maturity, disputes, fraud reviews, recourse claims | cases overlap, each remembering the state to restore; a sweep on a stale list | state and money agree; a claim is made once and accounted for | `Lifecycle`, `TransactionState` |
| **Withdrawal** `cases/withdrawal` | withdrawal cases, relisting requests | check then insert, repeated decisions | one open request; every eligible case raised one | `Withdrawal` |
| **Idempotency** `src/apps/api/src/common/idempotency` | keys and stored responses | a retry races the first request; swallowed writes | executed once, answered alike | `Idempotency` |
| **Scheduler** `src/apps/api/src/jobs` | none | errors, several instances | sweeps eventually act | in `Marketplace`, `Funding`, `Lifecycle` |
| Authentication, notifications, audit, admin, demo, health, web, ml service | records and I/O | — | — | — |

How they interact: all of them meet in `receivable_transactions.state`
(`transactions/transaction-state.ts`) and its lock columns. An approved
organization drafts and submits; verification makes the transaction ELIGIBLE (or
freezes, reviews or rejects it) over facts that documents and registries supply
and that scoring reads again; activation lists it; acceptance moves it to the
contract stage; the last signature makes it CONTRACTED; `markSent` and `confirm`
take it to FUNDED and start the payout; maturity, payments and cases live from
there on. Every mutating request passes the idempotency interceptor, and the
scheduler calls the sweeps.

## Modelling conventions

* **One subject per behaviour**: one receivable (its rounds, offers, contract,
  settlement, cases), one application, one idempotency key, one field of one
  organization. Rows of different subjects meet in no guard of the modelled
  operations; where they do (fingerprints), `Submission` has several
  transactions.
* **Atomicity is PostgreSQL's at READ COMMITTED.** A handler that takes
  `FOR UPDATE` first and decides on what it then reads is one action. One that
  reads in a statement of its own and later writes *by id* is two: the first
  remembers what was read in the handler's record, the second writes it, guarded
  only by what is evaluated then (a lock, a `WHERE`, a unique index, a CHECK).
  Where an open transaction's uncommitted write matters (`Contracts`,
  `Registry`), the open transaction is a handler's record and its commit is the
  action.
* **Failure.** A handler may fail or die between any two of its actions
  (`Fail`, `Abort`, `Die`, `SweepFail`), which leaves what was committed. A
  request refused by a unique index is such a failure, and so is a deadlock that
  PostgreSQL resolves by aborting one transaction.
* **What rolls back is not modelled.** A wrong or expired code and a failed
  signature throw inside the transaction that records them and change nothing.
* **Time** is the `TimeProvider`'s instant, advanced by `Tick`; a handler keeps
  the instant it computed with. `SlaClock` counts ticks of a small day,
  `Onboarding` whole business hours, `Lifecycle` days.
* **Data** is cut down to what the guards tell apart: an optional value is the
  set of its values (`{}` when it is missing), an amount an integer of the
  smallest unit, an invoice the value that tells it from another.
* **History variables** (marked `history` at their declaration) remember what
  happened for a property and guard nothing.

## Modules

| Module | What it is |
|---|---|
| `AtomicSale` | abstract: a receivable is sold at most once, its evidence in the same step |
| `Marketplace` | the marketplace in detail; implements `AtomicSale` (`AcceptanceIsAtomic`) |
| `Payout` | abstract: money moves once, under one key; books and commission follow together |
| `Funding` | funding, payout, books, the funding sweep; implements `Payout` (`PaidOnce`) |
| `Contracts` | conditions, generation and signing, up to FUNDED |
| `TransactionState` | the whitelist of moves, extended by `Submission` and `Lifecycle` |
| `Submission` | drafting, editing, submission, checks, duplicates, cancellation |
| `Lifecycle` | payments, maturity sweep, disputes, fraud reviews, recourse |
| `Withdrawal` | withdrawal cases and relisting requests |
| `Idempotency` | the interceptor's statements on one key |
| `Onboarding` | one application's handlers and clock events |
| `BusinessTime`, `SlaClock` | business time as operators; the SLA log read over calendars |
| `Screening` | the eight checks, hard blockers and the Trust Score |
| `Pricing` | filters, tiers, fees, offers, and the figures a deal freezes |
| `Documents` | upload, hash, reading and integrity check of electronic invoices |
| `Breaker`, `Registry` | the circuit breaker of a source; the provenance rows of one field |
| `MC*` | model values, symmetry and side-by-side hosting for TLC |
| `*Proofs` | theorems and their proofs |

`Submission` ends where `Marketplace` begins (ELIGIBLE), `Marketplace` where
`Contracts` begins (OFFER_ACCEPTED or CONDITIONS_PENDING), `Contracts` reaches
CONTRACTED, where `Funding` begins, and `Lifecycle` begins at FUNDED.
`Contracts` carries `MarkSent` and `Confirm` in reduced form, because late
handlers of the contract stage still run when funding has started; `Lifecycle`
also has fraud reviews of a transaction that is not yet funded. `Pricing` walks
the whole deal with its amounts and without its interleavings, which the stage
modules have without the amounts.

**Marketplace.** `state`, `lockedBy` are columns of `receivable_transactions`;
`listing` and `fee` are indexed by round, `offer` by row (round, bank, version);
`selections`, `snapshots`, `charges` are the evidence tables. Handlers are pairs:
`ActivateRead`/`Activate`, `CreateRead`/`Create`, `ReviseRead`/`Revise`,
`ApproveRead`/`Approve`, `WithdrawRead`/`Withdraw`, `AcceptRead`/`Accept`, whose
offer is read before the lock and not again. `RejectAll` and `Cancel` lock first
and are one action each. The sweep is `SweepStart`, `SweepClose`,
`SweepFindLapsed`, `SweepLapse`. The two partial unique indexes are
`OneActiveListing` and `OneCurrentOffer`, evaluated on the next state of every
statement that could break them.

**Funding.** Issuing a code is `IssueRead`, then `Reissue` of a row found, or
`IssueFirst` and `Insert`, because `FOR UPDATE` on no row locks nothing. `Confirm`
verifies the code and, with the evidence, funds; its handler goes on to the
payout. `RetryRead` enters `retry`. `Claim`/`Decline`, `Rail`,
`RecordSuccess`/`RecordFailure` are the three parts of `executePayout`. The ledger
is the number of times each journal was posted; `Line` gives the journals' entries
and `Balance` the accounts. `abandoned` (history): a handler died between claim
and record.

**Contracts.** `FulfilRead`, `FulfilCount`, `FulfilRefresh`, `Fulfil` are
`ConditionsService.fulfil`, which records waivers too; `GenerateRead`,
`StoreDocument` / `GenerateRefused`, `InsertContract` / `InsertFails` are
`generate`; `SignRead`, `SignCount`, `Sign` are `sign` with
`settleContractStatus`. `orphaned` (history): documents left by handlers that
died or could not delete theirs.

**Submission.** An edit is `EditRead`, then `PutBuyer` or `PutInvoice` by id. A
submission is `Submit`, `Search` for the fingerprint, `Claim` or `Refuse`, `Enter`
(the move by id), `Gather` (the facts and the outcome, slow and outside any
transaction) and `Route`, or `RefusedMove` when the whitelist says no.
`Cancel`, `OpenFraud`, `ClearFraud`, `FindFraud` lock the row. The partial unique
index over live fingerprints refuses a write, and with it the handler's whole
transaction.

**Lifecycle.** Every handler locks the row and is one action; only the sweep
works on a list it read earlier (`SweepRead`, `RemindRead`, `Remind`,
`MarkUnconfirmed`). `before` is the `previous_status` of the newest history row of
each kind, which is what ending a case restores.

**Onboarding.** `EnterRead`, `Submit`, `Retry`, `VerifyRead`, `Ask`, `Route`,
`RouteRefused`, `DecideRead`, `Decide`, `RespondRead`, `RespondCount`, `Respond`;
each write moves status, organization and clock together (`transition`).
`overtaken` (history): a status was written over one nobody had read.
**SlaClock** reads the log the way `reconstructSlaClock` does and compares it
with the working ticks counted one by one (`worked`); **BusinessTime** has the
window walk, its offset lookup and the deadline walk.

**Screening.** Pure operators named after the functions of `verification.ts`,
`scoring.ts` and `rules-engine.ts`, over one record of facts; the actions change a
fact, the setting or the active version, and take a calculation's two steps
(`Calculate`, `Persist`), between which the model answers anything or nothing.

**Pricing.** `CreateCommissionTier`, `PatchSettings`, `EditFilters`, `PutInvoice`,
`PutMinimumAmount` and `Learn` change what the next `Activate`, `WriteOffer`,
`Accept`, `MarkSent` or `PayOut` reads; `snapshot`, `charge` and `settlement` hold
the frozen figures.

**Documents, Withdrawal, Breaker, Registry.** One action per statement or
outside call: `Download`, `StoreHash`, `Extract`, `Verify` of a finalizer working
on the row it read first; `OpenCheck`/`OpenInsert`, `RelistCheck`/`RelistInsert`,
`Decide`, `Approve`; `Ask`, `Refuse`, `Answer`, `Silence` of a lookup over
`recordSuccess` and `recordFailure`; `Look`, `Supersede`, `Insert` of an answer
recorded in its transaction, which sees only committed rows.

## Runs

| Run | Shows | Bounds |
|---|---|---|
| `marketplace_sale` | `LockEvidence`, `WinnerWasApproved`, `OpenIsListed`; `Marketplace` implements `AtomicSale` | two handlers, two banks in round 1 and one again in round 2, windows of 1, clock to 2 |
| `marketplace_deadlines` | `EveryRoundEnds`, through a lapse and a relisting | one handler, one bank with two versions, clock to 4 |
| `funding_payout` | `FundedTogether`, `BooksFollowPayout`, `AttemptsAreEvidence`, `NeverStallsSilently`, `ClaimsAreSettled`; `Funding` implements `Payout` | two handlers, one scheduler, two code rows, one resend, review after 2 failures, 3 attempts, 2 rounds, clock to 2 |
| `contracts_signing` | `ContractedIsSigned`, `TermsAreResolved`, `DocumentsAccounted` | two handlers, three signatories (two of the bank), two mandatory conditions and one optional, two documents |
| `submission` | `OneLivePrint`, `FinancedOnce`, `ChecksAreInHand` | two transactions, one buyer, two invoices, two handlers |
| `submission_financed_twice` | violation of `NeverFinancedTwice` | the same |
| `lifecycle_cases` | `MoneyAgrees`, `NeverClaimedTwice`, `ClaimsAccount`, `ResolutionRestores`, `SweepAssertsNothing`, `PastDueIsNoticed` | two disputes, a fraud case, two claims, a sweep, payments of 2 against 3, the day before to the day after the due date |
| `onboarding` | `ClockIsHonest`, `VerificationIsInHand`, `AnswerableWhileWaiting`; beside it `ElapsedIsWorked`, `DeadlineIsKept` | two handlers, two information requests, two registries, 3 hours; logs of 3 events over 26 ticks of a 6-tick day, four calendars |
| `appraisal` | `AgreedIsCharged`, `SplitIsCovered`; beside it `PassedIsUnblocked`, `OutageIsNotAdverse`, `BlockedIsCritical` | two rounds, two banks, four tiers, two fees, deductions of either sign, two changes; two profiles, three versions, three tenor settings, two changed facts |
| `requests` | `OneOutcome`, `LateIsReplayed`; beside it `OnlyChangeAccuses`, `HashedIsRead`; `RelistedOnRequest`; `OutageIsKnown`; `RegistryPrevails` | four requests with two bodies; two handlers over two documents; two cases and three relisting requests; two lookups, threshold 3, two tries; two lookups recording three rows |
| `documents_accused` | violation of `FailMeansChanged` | two handlers, one document |
| `registry_scored` | violation of `GovernmentIsActedOn` | two lookups, three rows, two values |

`onboarding`, `appraisal` and `requests` check specifications that share no
state *beside* each other: a behaviour chooses one of them at its start
(`part`, `subject`, `protocol`), takes only its steps, and the others' variables
stay as they began. That is not a composition, and nothing is claimed of one.

Why the bounds are enough. Two handlers are one that read and one that commits
in between, the shape of every race in the code; a third would only repeat it.
Only `Idempotency` needs four: an owner that releases, two that lost the insert
and find no row, and one that comes late. Two banks give a winner and a loser,
two versions a revision racing the approval of its predecessor, two rounds a
stale handler of the first meeting the second. A window of 1 puts the clock
before, on and after each deadline. `MaxRetries = 2` with three attempts passes
the boundary to MANUAL_REVIEW by one. Two code rows are what two first issues
insert. Two transactions with one buyer and two invoices give a duplicate, an
edit that makes one, and an edit that removes it. Two disputes and two claims are
a case and the next one that must not confuse itself with it; a payment of 2
against 3 needs two to cover and overshoots. The calendars put a weekend, a
holiday, an offset that rises and one that falls before, in and after the log,
whose three events are a start, a pause and what ends it. In `Screening` two facts
change from a wholly sound and from a wholly unknown profile, so every pair of
causes a check or blocker combines occurs; the versions are the seeded one, one
that follows the model alone, and one whose bands are out of order. A breaker threshold of 3 is above one lookup's two tries, so it is
reached only by lookups that overlap or follow each other; a reset of 2 on a
clock to 4 has a refusal before it is due and a trial when it is.

In `Funding` the bound on `MarkSent` keeps the whole escalation window before the
end of the clock, and in `Marketplace` the bound on `ActivateRead` keeps both
windows there; without it "eventually" would be refuted by the end of the
model's time. In `marketplace_sale` the clock ends with the first round's
windows, so a second round follows a rejection there, and a lapse in
`marketplace_deadlines`. All bounds are named in the guards and the constants'
comments (`\* bound`).

Deadlock is checked in the marketplace runs. In the others the system may really
stop (a paid transaction, a decided application, a stuck contract), so it is off.
A property "holds" while handlers fail anywhere; the safety runs assume no
fairness.

## Fairness

* `WF(Tick)`: the clock advances.
* The scheduler's cron runs for as long as the process does and every pass
  ends: weak fairness of the sweep's next step or its failure. A failed pass is
  logged (`scheduler.service.ts:108`) and the next tick tries again, so a pass is
  assumed not to fail for ever: strong fairness of its writing steps.
* A request that is running ends: weak fairness of its next step *or its
  abort*. No bank, supplier or reviewer is assumed to do anything.

`EveryRoundEnds`, `NeverStallsSilently` and `PastDueIsNoticed` therefore hold
whatever users do. `ClaimsAreSettled` carries its exception openly: a handler that
dies with the claim strands the settlement in PAYOUT_INITIATED, because no code
revisits it.

## Proofs

TLAPS proves the following for every value of the constants that satisfies the
modules' named assumptions (numbers are naturals, windows and retry limits
positive where the policy has them so, a party has a signatory and no person is
on both sides, tariffs are not negative, null values are not rows; the rest are
named at the end).

* `MarketplaceProofs` — `LockEvidenceHolds` and `AcceptanceRefinesSale` from
  `SaleStep`: a step leaves lock and evidence alone or is the one acceptance, on
  an unlocked row; `SoldStaysSold`, from the lock being asked in `MayCancel`;
  `OpenIsAlwaysListed`, inductive once the unique index is part of each
  statement; `WinnerAlwaysApproved`, which needs `ApprovalInv`: an approval is
  never erased from a row, an active row has one, and so has whatever row an
  accepting handler read, however old.
* `FundingProofs` — `OneAttempt`, `AttemptsEvidence`, `BooksFollow` and
  `PayoutRefines` from one invariant, `PayoutInv`. None is inductive alone:
  `RecordFailure` writes without reading, so that it does not undo a success
  rests on the claim (one handler between claim and record), on the attempt's
  number being one past the retry count, and on a success in hand implying that
  the rail has paid. `FundedOnEvidence` rests on `CodeInv`: issues in flight began
  after the bank's transfer, and every row's expiry lies a full validity after
  it. `OneSchedulerSendsOnce` assumes a single API process; two both find no
  earlier notice and both send.
* `ContractsProofs` — `ContractedOnSignatures` from `SigningInv`: what a signature
  counted stays true, because the insert that creates the slots precedes every
  handler that could have read one; `TermsResolved` from resolved conditions
  staying resolved (`TermsInv`); `DocumentsAreAccounted` from `OneOwner`: each
  stored document belongs to the contract, to one handler about to insert it, or
  to nobody any more.
* `SubmissionProofs` — `OneLivePrintHolds`, `ReceivableFinancedOnce` and
  `ChecksStayInHand` from one invariant: the index holds on active flags
  (`Indexed`), the flag follows the state (`FlagFollowsState`), what is being
  checked is no draft (`Entered`), no information is ever asked for
  (`NeverAsked`), and what a transaction and its submitters hold is its own
  fingerprint unless it was edited under way (`ClaimsAreCurrent`). The index alone speaks of flags, not of what is live.
* `LifecycleProofs` — `MoneyAlwaysAgrees`, `OverdueIsConfirmed`, `ClaimedOnce` and
  `ClaimsAlwaysAccount` from `Inv`, whose strengthening is `Interrupted`: an
  open dispute sits on a DISPUTED transaction and owns the interruption the newest
  history row remembers, or the transaction has closed. Without it the state a
  resolution restores could be anybody's, and with it the money; it also gives
  `ResolutionsRestore`. `SweepNeverAsserts` needs that a sweep's instant never lies
  ahead of the clock (`SweptBefore`). `ClosedStaysClosed` follows from types, and so
  does `OnlyListedMoves`: `Lifecycle` implements the whitelist of `TransactionState`,
  also where a handler makes a move without asking it.
* `OnboardingProofs` — `ClockAlwaysHonest` from `ClockInv`: the clock runs only
  while the platform holds the case, whatever was overwritten, and exactly then
  until something is; `VerificationStaysInHand`; `WaitingIsAnswerable` from
  `AnswerInv`: one request is open at most, one answer to it is under way, and it
  is the last. Of the SLA clock: `ElapsedIsWorkedHolds` and `DeadlineIsKeptHolds`
  from `SlaInv` (`SlaHolds`), argued below.
* `AppraisalProofs` — `PricesHold` (`IInv`): offers of the open round withhold that
  round's fee and net what they say, and snapshot, charge and settlement are made
  of one another; `AgreedAlwaysCharged` and `SplitAlwaysCovered` follow. The
  numeric core is `QuoteNat`: half-up rounding of a non-negative share is not
  negative. Of screening: `PassedIsUnblockedHolds`, `OutageIsNotAdverseHolds` and
  `BlockedIsCriticalHolds` from `ScreeningInv` (`ScreeningHolds`), argued below.
* `RequestsProofs` — of idempotency keys, `LateNeverExecutes` from `LateInv`: once a
  response is stored it stays, and who comes late only looks at it;
  `OneOutcomeHolds` from `Owned`: until a claim is released one request owns the
  key, it alone executes, the row is its own and every answer is its response.
  Of documents, `OnlyChangeAccusesHolds` and `HashedIsReadHolds` from `FilesInv`:
  while nothing is altered a stored hash is its object's, and a finalizer still
  knows what it read about the row it began with, however long it took. Of
  withdrawal, `RelistedOnRequestHolds`, nearly inductive: an eligible case and its
  request are written together. Of the breaker, `OutageIsKnownHolds` from
  `BreakerInv`, which adds that `failures` counts the run of silences, so that
  overlapping lookups cannot lose or double one. Of a registry field,
  `RegistryPrevailsHolds` from `FieldInv`: rows are in the order they were recorded,
  no superseded row comes after a live one, and a lookup about to insert has
  superseded everything it saw, so what it leaves in force began after it looked.

The SLA clock. `SlaInv` says that what the log is read as follows who holds the
case, that elapsed time is the number of working instants counted one by one, and
that the stored columns are what *some* instant since the last event computed.
`ElapsedIsWorked` alone is not inductive, because whether the next tick counts
depends on log and holder agreeing; neither is `DeadlineIsKept`, which compares two
computations made at different instants. It rests on three facts about business
time, for every calendar, working hours, budget and number of days:

1. `Threshold`: where no change of the offset skips or repeats an opening or a
   closing reading, an instant precedes `Instant(w)` exactly if it reads less than
   w. This is where the second offset lookup of `instantFromAmman` is needed.
2. `BusinessTimeCounts`: `businessSecondsBetween` is the number of working instants
   of its interval; its walk meets each exactly once.
3. `RunsOutAtBudget`: `addBusinessSeconds` gives the instant right after a working
   one by which the budget has been counted. There is only one such
   (`OneInstant`), so what two instants compute agrees (`DeadlineStays`).

The walk over days and the reading of the log are recursive functions. The
library's induction theorems take an operator and cannot be used; `LeastExists`
gives a least counterexample instead, from `WFMin` of the natural numbers.

Screening. A silent source takes a component away, and the remaining weights are
renormalised, so "scores no less than the worst answer" compares two different
sums and two different quotients. The module proves that a sum over a finite set
exists and does not depend on the order (`SumsExist`, `SumAny`), is monotone, that a
mean's half-up quotient is monotone, and takes the inequality from the signals of
one component through its score, the weighted mean, the caps and the bands.
`ScreeningInv` is needed because a calculation in flight holds a version that was
active when it began; its row must be judged by that version.
`BlockedIsCritical` asks that *every* threshold of the version exceed the ceiling;
asked of HIGH only, it is false, as its proof showed: the ceiling is
derived from the default thresholds (`rules-engine.ts:28-35`) while a version's are
accepted in any order, and one whose LOW or MEDIUM begins at or below the ceiling
gives a blocked score a band better than CRITICAL. A version of that kind is now in the run.

Assumptions on the constants, besides the ones above, all evaluated by TLC on the
runs' values:

* `FactsAssumption`, `VersionAssumption`: facts are what columns, enumerations and
  clamps allow (ages are `Math.max(0, …)`, shares go through `clamp01`), weights are
  not negative, a default version exists.
* `FilesAssumption`, `BreakerAssumption`: the null value is none of the contents, the
  breaker's threshold is positive and its reset not negative.
* `CalendarAssumption`: every calendar is `Regular`, which Asia/Amman is (its offset
  changed after midnight on a Friday, and has not since 2022), and the budget is
  covered within `MAX_DAYS_WALKED` days of any instant of the run, beyond which the
  code throws.

`MarketplaceProofs`, `FundingProofs`, `ContractsProofs`, `SubmissionProofs`,
`LifecycleProofs`, `OnboardingProofs` and `RequestsProofs` (for idempotency) also
prove the component's type invariant (`TypeCorrect`); elsewhere it is part of the
inductive invariant.

Only model-checked: liveness (`EveryRoundEnds`, `NeverStallsSilently`,
`ClaimsAreSettled`, `PastDueIsNoticed`), which is beyond this prover, and the
violations, which are traces. Every invariant and every action property of the
passing runs is proved.

## Where code and documents disagree

Each is a run that TLC ends with a trace; the quotations are in `PROJECT.json`.

* `submission_financed_twice`: an edit that read a draft lands after its
  submission and puts the placeholder back over the claimed fingerprint; a
  second transaction with the same buyer and invoice becomes ELIGIBLE too.
* `documents_accused`: the verification downloads a file twice, to hash it and to
  compare the hash. A browser's upload that lands between the two, to a path the
  row already has, is compared with the empty hash: a sound file fails its
  integrity check and the transaction is frozen.
* `registry_scored`: scoring reads superseded provenance rows, in no order, and
  may act on what the registry no longer says.

## What the models reach and no document denies

Behaviours met while modelling that break no statement of the repository, or
whose statement is left without a run of its own. They are in the models' state
spaces (or named there as abstracted), and properties are stated around them.

Marketplace, contracts, funding:

* A withdrawal, revision or approval that read the offer before acceptance
  overwrites SELECTED; the sale and its evidence survive.
* An activation under way reopens a cancelled transaction; a cancellation leaves
  a listing that awaits selection open.
* Accept and the sweep lock transaction, offers and listing in different orders
  (`acceptance.service.ts:121`); PostgreSQL aborts one of them.
* Two last signatures that overlap leave a contract unsettled
  (`contracts.service.ts:844`); without another signatory nothing completes it. A
  late condition update, or a second signatory, overwrites the state.
* A retry pays while the confirmation is pending (against ZM-FND-011), and its
  authority check reads MANUAL_REVIEW before the claim
  (`settlement.service.ts:334`). A crash between FUNDED and the payout leaves it to
  a retry; one between claim and record strands it.
* The count of failed code attempts rolls back with the refusal
  (`otp.service.ts:233`), and so does a failed signature
  (`contracts.service.ts:802`).
* Two API processes both send a notice.

Submission, documents, screening:

* `submit` accepts INFORMATION_REQUIRED and the whitelist refuses the move from
  it; only cancellation or fraud moves a transaction out of UNDER_REVIEW. An
  integrity FAIL freezes a transaction without a fraud case. A crash after the
  claim leaves a draft holding the fingerprint, one in verification leaves
  AUTOMATED_CHECKS. A transition by id overwrites a freeze or a cancellation.
* The first electronic invoice by `uploaded_at` is always the one checked, so an
  abandoned reservation shadows a good file. A crash between hash and reading
  leaves a hash without a reading; two finalizers insert two readings; a stale
  one overwrites the hash of an altered object. Scoring compares an unhashed row
  with the empty hash.
* A version one of whose bands begins at or below the ceiling lets a blocked score
  reach it (the ceiling comes from the default thresholds, `rules-engine.ts:31-35`).
  Losing a good source can lower the score, because components are renormalised
  (ZM-RSK-005 and `scoring.ts:20-24`). Scoring has the minimum tenor 7 built in
  and counts UTC days; verification reads the setting and floors against now.
  Scoring compares amounts as strings, verification as decimals. An assessment is
  made on the first read and never refreshed; two first reads store two; an
  activation asks for none.

Prices:

* Accepted transaction and recourse types of a filter are never evaluated; an
  unknown sector fails a filter that asks for one. A new tier does not end the
  one it replaces. Under a changed tariff the commission record cites a tier whose
  percentage does not give its amount (`commission.service.ts:18-20`), and
  acceptance is refused when no tier covers the amount any more.
* A payout marks the fee obligations of every round DEDUCTED though the last
  round's was withheld, and none when that was zero. The listing-fee revenue
  credited at activation is debited at settlement, so it nets to zero.

Lifecycle and withdrawal:

* A claim cannot be settled by PAID, which the table allows; PARTIALLY_PAID can be
  confirmed without a payment; a cleared fraud review gives FUNDED also to what
  was partially paid or never funded (`fraud.service.ts:293`); a disputed claim
  leaves DISPUTED with no dispute to resolve (`recourse.service.ts:506`).
* Opening a withdrawal case is a check and an insert without an index; a decided
  case may be decided again the same way, which rewrites its amount and
  eligibility; an eligible decision fails whole while another request is open;
  an approved relisting does nothing further.

Requests, onboarding, registries:

* A request that lost its insert and finds the row released executes without a
  claim; a swallowed write or a crash leaves a key in progress for ever.
* Stale answers, decisions and verifications reopen a decided application
  (`application-state.ts:30`). Two verifications can leave UNDER_REVIEW with the
  clock paused; two overlapping answers each see the other's request open; a
  crash strands AUTOMATED_VERIFICATION; FINAL_REVIEW is unreachable. A breached
  clock's deadline moves with now.
* A half-open circuit admits every call, and a lookup retries after the circuit
  reopened ("One trial call decides", `resilient-adapter.ts:65`). Two overlapping
  lookups leave two live rows; two answers of one instant leave none. A NOT_FOUND
  leaves earlier values in force, and any fresh snapshot suppresses a new query
  for 90 days. A blocked answer never reaches `buyers.registry_status`, so the
  check of a blocked buyer reads what was stored before.

## Not modelled

* Authentication and the auth cache, role checks beyond four-eyes and the
  platform's exclusive retry, row-level security: no protocol state of the
  business. Notifications, audit and logging: append-only records; funding's
  notices appear as far as the sweep reads them back.
* The web application, the demo's scripts and seed data, the ml service: they
  hold none of the state; the ml service appears as a source that answers
  anything or nothing. They are most of the repository's lines that no
  definition stands for.
* Registration's own rows, consents, user management, buyers' records, payment
  evidence, downloads and document permissions, queries and their shapes.
* The demo clock's way back: instants only grow, except that `SlaClock` travels
  forward. Parsing and printing of amounts; floats, which are exact here.
* Deadlocks between row locks: a lock-taking transaction is one action and its
  abort a failure.
* The rail is external and taken to honour the idempotency key.
* A composition of all stages in one state space: the stage modules meet at the
  states named under [modules](#modules), and their product is beyond TLC at
  bounds where anything happens.

## What remains

1. `Submission`, `Marketplace`, `Contracts` and `Funding` each shown to implement
   `TransactionState`'s moves, as `Lifecycle` is, except where "reach" above says a
   write by id does not.
2. The holiday and onboarding sweeps of the scheduler, and buyers' resolution
   against stale answers.
