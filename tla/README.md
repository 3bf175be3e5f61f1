# AECi: a TLA+ development of the API's vendor core

TLA+ modules, TLC configurations and TLAPS proofs about the parts of the AECi API worker
(`apps/api`) whose correctness depends on the order in which things happen: who holds a license and
until when, who decides a contest, what a Stripe subscription is worth, who holds a seat, and whether
a mail is sent, a refund paid, a bundle merged or a page submitted twice or not at all. Paths below are relative to `src/apps/api/src/` unless they start with `src/`.

Contents: [the system](#the-system), [inventory](#inventory), [modules](#the-modules),
[runs](#what-the-runs-check), [bounds](#bounds), [fairness](#fairness), [proofs](#what-is-proved),
[disagreements found](#where-the-code-and-its-documents-disagree), [limits](#limits),
[plan](#plan), [how to run](#how-to-run).

## The system

AECi is a directory of software products for construction and of the integrations between them.
Vendors claim their listings and buy licenses; a licensed product shows as managed, and the vendor of
a live license is verified. The repository is a monorepo. `apps/api` is a Cloudflare Worker (Hono
routes, Drizzle over the D1 database) and holds nearly all of the state and the rules; `apps/web`
renders pages from it, `apps/agent` is an assistant over its read endpoints, `apps/datatool` and
`scripts` are operators' tools.

One idiom shapes everything here. **D1 has no interactive transaction.** A handler reads, decides in
memory, builds statements and commits them in one atomic `db.batch`. Between the read and the commit
any other handler, webhook or cron job may commit. The code defends the decision it made on a stale
read in four ways, and each is visible in the models as a conjunct of a commit:

| in the code | in the models |
| --- | --- |
| a guarded UPDATE whose WHERE repeats what was read (`ended_at IS NULL`, `expectUnchanged`) | `StillLive`, `TermAsRead`, `StillOwners` |
| a sentinel: a SELECT that produces malformed JSON, and so rolls the batch back, when a condition does not hold | `SweepGuard`, `SeatLeft`, `Licensed`, `NoBan` |
| a unique index (one live license per product, one open request per license, one ledger row per key or event) | `Indexed`, `asks[l] = NoProd`, `KeyTaken`, `h.event \notin ledger` |
| ids minted from what was read, so that a second writer collides | `LicenseIds` |

Where it calls a store that is not D1 (Stripe, Resend, a workflow engine, IndexNow) nothing can be
rolled back, and the code relies on a key, a lookup, a ledger row or a report that may be repeated.
`SendLedger`, `TerminationRefunds`, `PromoteJob` and `IndexNow` are about those.

What follows a commit (mails, purges, the call that cancels a subscription) is dispatched best
effort in `waitUntil` and may be lost. Daily jobs repair what was.

## Inventory

State is what survives a request. "Hard" names the behaviour that tests hardly reach.

| component | state | operations | interacts with | hard | correct when |
| --- | --- | --- | --- | --- | --- |
| Send ledger (`lib/notifications/send-ledger.ts`, `lib/email.ts`) | `notification_sends`: a dedupe key and an outcome per attempt | reserve, call Resend, settle; record a withheld send | every sender; Resend's idempotency keys | worker dies between call and settle; the ledger is down; the answer is lost | no key mails twice; the ledger never undercounts; a key is freed when no mail went |
| Licenses (`lib/license.ts`, `routes/admin-licenses.ts`, `routes/vendor-licenses.ts`, `routes/vendor-license-release.ts`, `routes/admin-license-release-requests.ts`, `lib/license-lapse.ts`) | `licenses`, the release requests, the mirrors `vendors.verified` and `products.managed_ended_at` | grant, assign, flag, ask, approve, decline, extend, revoke, the daily term end with its carry-over | termination, contests, Stripe, promote (product ownership) | any two of them crossing; the job's retry; two ends that each see the other's license | mirrors agree; ended is final; terms end when due and only then; seniority decides who keeps a license |
| Suspension and termination (`routes/admin-vendor-suspension.ts`, `lib/vendor-termination.ts`) | `vendor_suspensions`, seats' bans | suspend, lift, terminate, refund | licenses, Stripe, seats, contests | a grant in flight across the ban; a refund settled twice | while a vendor has seats and a termination left them all banned, it holds nothing |
| Contest routing (`lib/integration-contests.ts`, `routes/vendor-contests.ts`, `routes/admin-contests.ts`, `lib/vendor-handback.ts`) | `integration_field_challenges`: status, route, seat stamp | submit, decide, withdraw, re-route on a license end or a seat event | licenses, seats | a sweep's read and its commit; a stamp that outlives its reason | every open contest is with someone who may decide it |
| Contest protests (`lib/contest-protests.ts`) | protests | raise, decide | contests | - | one open protest per contest |
| Stripe sync (`lib/stripe-licenses.ts`, `lib/stripe-webhook-events.ts`, `lib/stripe-reconcile.ts`) | licenses of a subscription, `stripe_events`, the subscription itself at Stripe | webhook, daily reconcile, cancel of a dead vendor's subscription | licenses, termination | events late, twice, out of order, never; a snapshot that is stale at the commit | licenses settle on the subscription; nothing granted twice or after a ban; a dead vendor stops paying |
| Termination refunds (`lib/vendor-termination-refund.ts`) | `vendor_termination_refunds`; at Stripe, refunds and idempotency keys | settle, retry, mail | Stripe, the send ledger | two settlers crossing; an answer lost; a key dropped; a refund that fails later | paid once, and the vendor told so only then |
| Term-end notices (`lib/entitlement-expiry.ts`) | notice stamps | daily scan | ledger, licenses | the stamp and the send | one notice per term |
| Seats, claims and invites (`lib/vendor-grant.ts`, `lib/vendor-seat-invites.ts`, `routes/admin-claims.ts`, `routes/vendor-seat-claims.ts`, `routes/seat-invites.ts`) | `profiles`, `vendor_seat_invites`, `vendor_requests` | claim, approve, reject, accept, decline, fall back, invite, re-send, redeem, remove, provision, ban, terminate | contests, licenses, termination | AECi and the owners deciding one claim; a redeem that crosses a revoke; an invite made while the vendor ends | a claim decided once; an invite spent once and dead once the vendor ended; one first owner |
| Attestations and claim threads | statements and threads | state, reply, close | seats | - | a thread belongs to one owner |
| Promote (`workflows/promote-workflow.ts`, `routes/promote.ts`) | `promote_jobs`, payloads and results in KV, the instance, the catalog | kick off, run, replay, poll, restart | ownership, licenses, search, IndexNow | the engine runs a step again; KV not yet readable, or expired; a step that fails after its batch | a job's bundle is merged once, and every poll answers its ids |
| IndexNow and re-crawl queues (`lib/indexnow-queue.ts`, `lib/indexnow-drain.ts`) | `indexnow_queue`, `recrawl_submissions` | queue, expire, read a batch, report | promote, edits; an external runner | a page that changes again while its URL is out; two reports of one batch; expiry and the resend window | a change that is not submitted is queued, or lost in a known way; a row logged once |
| Ownership sync (`lib/ownership-sync.ts`) | `product_vendors` and owned integrations | sync | promote | - | the two agree |
| Jobs and schedule (`scheduled.ts`, `lib/job-runs.ts`) | `job_runs` | cron dispatch | all jobs | a run that dies | a failed run is followed by another |
| Search index, reviews, requests, retraction, proposals, metrics, retention, sitemap, authorisation, web app, agent, data tool, shared package | their own tables, or none | single guarded writes, or reads | - | - | see `PROJECT.json` for each |

`PROJECT.json` lists every component with its sources, its status and the reason where it is not
modelled, and under `hazards` each hard behaviour at its line, with the property that would catch it
or the reason why none does.

## The modules

### How a handler becomes actions

`Licenses`, `Contests` and `StripeSync` share one shape. A *slot* is a handler in flight, between its
read and its commit. `PlanX(s)` is the read: the handler's refusals are its guards, and it stores in
the slot what the handler decided and what its WHERE clauses will compare. `CommitX(s)` is the batch:
each guarded statement, sentinel and index is a conjunct, and the writes are its primed variables,
mirrors included. `Abandon` (`Evict`, `LoseRace`) is everything else that may happen to a handler:
a sentinel refuses the batch, or the worker dies. A retry reads afresh, so it is a new plan. Since
commits are atomic and everything between them is another handler's, no finer interleaving exists.

### SendLedger

One row per attempt (a call of `sendTransactionalEmail`). `Reserve`, `ReserveDuplicate` and
`ReserveFailsOpen` are the INSERT .. ON CONFLICT, its refusal and its failure; `CallAccepted`,
`CallRefused`, `CallUnknown` and `CrashCalling` are what Resend does with the call, with `seen` its
memory of idempotency keys, which it may drop (`ProviderForgets`); `FinalizeSend` and `FinalizeLost`
settle the row. `mailed`, `open` and `forgot` are history the code does not keep.

### Once

The promise of work that cannot be undone: a thing is done at most once, with one result that
never changes, and a caller is told a result only when it is so. It has no code of its own; `PromoteJob`
implements it for job ids (`Merges`).

### Register

The promise shared by the two writers of the `licenses` table, with no code of its own either. A license is
granted once and ends once; while it is live it may be on a product, and no two are on one; it leaves a
product by being freed or by its end, when each free license may take over one of the ended ones' products.
Some may be live at first. A vendor may be barred, and keep what it has, or closed, which ends what is live; it is
granted nothing until it is open again. `Licenses`
implements it for the handlers and the daily job, `StripeSync` for a subscription (`Rights`, `KeepsRegister` in both).

### LicenseTable and Licenses

`LicenseTable` has no variable: it is `lib/license.ts` as operators on a table, one per statement
builder, with the term end and its carry-over (`Carry` pairs the i-th most senior candidate with the
i-th spare license). `Licenses` is the handlers, the mirrors (`Reconcile` is `assemble`'s two mirror
statements at the end of *every* license batch), release requests, suspension and termination, and
the clock. `asked` and `cases` stand for the identity of a request and of a suspension, so that a
plan made on one is refused on the next.

Abstractions. A license's id is its place in `loadVendorLicenses`' order, which also breaks ties of
`byAssignedAt`. The job's scan and its per-term read are one step, its `at` the clock then. The
licenses are not Stripe's; `cancel_at_term_end`, the reference edit and product
retraction are not in it; the ban-term grant is [BanTerm](#banterm)'s. All products are the vendor's at first;
promote takes them (`Disown`).

*The seats* are counted, not named. `seats` is `none`, `active` (one is unbanned), or all banned: `lapsed` when the
unbanned ones were revoked or erased, or the first seat went to a banned profile, `terminated` when a termination left
them so. The code refuses a grant in the last two cases and not in the first (`allowNoSeats`): so does `FullyBanned`.
A vendor may move from any to any by `Reseat`, `SeatBannedProfile`, `LoseSeats` and the termination; one that was
terminated and whose banned seats are revoked is grantable again. The rows do not tell `lapsed` from `terminated`: the
second is history, which `TerminatedHoldsNone` and the register's `closed` are about. A hand ban of the last unbanned
seat is refused by the code, and is no action. What is lost by counting: a termination that read one unbanned seat and
meets another is refused by the code and goes through in the model, as one that had read the new seat would.

*No end date.* `ends_at` NULL is `NoEnd`, after every time: the daily job never scans it, a license with it is a spare
for any carry-over, and an extend may set its first date after now (`ExtendFloor`) but none takes a date away. Only the
back-fill, which ran and was deleted, left such rows on licenses that are not Stripe's; so they are there at first
(`Backfilled`) and no action makes one.

### Contests

The open contests on one vendor's claimed integrations, each with its route, its seat stamp and
`updated_at`; the owner's live licenses and unbanned seats. `PlanEnd`/`CommitEnd` is the end of a
license by revoke or by the job, with the sweep it plans when no other license is live, guarded by
the fingerprint (count and newest `updated_at` of both sets) the code compares. `collided` is
history: a sweep committed though the owner-routed set was no longer the one it read.

Abstractions. Entitlement and seats are read in one step. Rows stay claimed by this vendor, and
contests on the `owner` and `mechanism_kind` fields, which go to AECi whatever happens, are left out.
Ban, erase and revoke of a seat are one (`loss`); accept and decline are one (`decided`).

### StripeSync

One annual subscription. Stripe changes it and sends an event for each change (`ChangeStatus`,
`ChangeQuantity`, `Renew`, `ToggleCancel`); `Fetch` is a delivery, or the daily reconcile (event 0),
up to its retrieve; `Plan` reads the licenses and the seats and holds the batch, or enters the
ban-dead branch (`Cancel`, then `Record`); `Commit`, `LoseRace` and `Replay` are the three ends of the
batch. The delivery of an event is not an action that consumes it: any event sent and not in the
ledger may be fetched, in any order and by any number of handlers, or never. `FollowUp` is the
termination's own best-effort cancel.

Abstractions. The subscription's licenses are the account's only ones (the carry-over is in
`Licenses`) and their id is their ordinal, as in `stripeLicenseIds`. `incomplete` stands for `paused`,
`active` for `trialing` and `past_due`, `canceled` for `incomplete_expired`: `stripeSyncMode` and
`isStripeSubscriptionCancellable` treat them alike. The replay check, the retrieve and the
subscription's customer lookup are one step; so are the licenses and the seats. The vendor assigns at
one time, so seniority is the id; `Licenses` has the times. Terms versions, mails, unlinked
subscriptions and `invoice.payment_failed` are left out. The term-end job skips Stripe licenses, so
there is no clock. The subscription is annual, so no row lacks an end date. `ban` is `none`, `dead` from a
termination on, and `past` once `vendorBanDead` is false again: a seat was granted or unbanned, or the last of the banned
ones revoked. The vendor's seats before a termination do not matter to the sync and are not followed.

### TerminationRefunds

The rows a termination left to pay. A *settler* is one run of `settleTerminationRefunds`, by the
follow-up of the termination or by the retry handler: it reads the unpaid rows, and for each looks for a
refund at Stripe, creates one if there is none and writes the result, each call a step. Stripe is
`made` (refunds of a row, numbered), `sour` (those that failed since) and `keyed` (what the row's
idempotency key answers): a known key answers the refund made under it, whatever became of that. A
create that timed out may still be taken (`LateCreate`); keys are dropped (`KeyDropped`), but not while
a request with that key is on its way, since they live a day and a settler seconds.

Abstractions. One payment per row, paid back as a whole; how much is arithmetic and left out. The mail is
its state (`letters`), because its dedupe key is.

### PromoteJob

A workflow instance per job id, its payload (in the parameters, or staged in KV), any number of
executions of the commit callback, the ledger row `recorded`, what the job's batches put in the catalog
(`merged`: the ids they minted), the mirror in KV and the instance's output. The engine runs a step *at
least once*: `RunLost` loses an execution or its answer at any point, another may run beside it,
`StopInstance` is the step's ten minutes, after which the callback may go on. The merge itself, 4,000
lines of `routes/promote.ts`, is one step: it and the ledger row are one batch. `Restart`, `AgeOut`,
`PayloadExpires` and `MirrorExpires` are what operators and retention do.

Abstractions. All jobs carry one bundle, which is the case in which two of them must not both commit. The
hooks after the step are `Complete`.

### IndexNow

The queue (`row`, with an id that is never used again, as AUTOINCREMENT gives), the runner's batch, the
handlers of its report, and the log. `owed` is history: the pages that changed since IndexNow last
took them; `excused` are those the code allows to be lost: changed while their batch was out, never
queued because the hook is best effort, or expired. A day is `Phases` ticks; expiry is at the first,
the runner at the second and its post at the third. `Punctual` restricts a run to a runner that never fails.

Abstractions. Tiers and the 10,000 URLs a batch may hold are left out (every row fits), and so are
retired slugs and the operator's switch.

### Seats

One vendor: people, claims, invites. A *desk* is a handler in flight with what it read, as the slots
above, and a person is an account with its address. `seat[p]` is the one profile row of `p`: a seat
here, on another vendor (`away`), or none, with its owner bit and its ban. `gave`, `uses` and `sealed`
are history: what a claim's decision gave, the seats an invite made, and the invites that were live
when the vendor was terminated or returned to AECi.

Abstractions. Suspensions, which only refuse; the daily cap and the re-send's count; the ownership stamp;
`in_review`, which every statement treats as open; and everything a seat grant does to licenses and
contests, for which see `Licenses` and `Contests`.

### BanTerm

`routes/admin-licenses.ts`, the grant that makes good what a ban ended. One vendor, one product: the
licenses in the order they were created, whether the vendor has an unbanned owner seat, and the requests
in flight with what they read. `from` is the ended license a grant names, which the code writes to
the audit row only. The writers it crosses are short here (`Licenses` has them in full): terminate and
reinstate, a revoke or a lapse, an early release, an assign, another license on the product.

Abstractions. A request names one item; the product stays the vendor's; end dates and mails are left
out. Time counts writes, so a license is created at the time its request took before it read, as in the code.

## What the runs check

States are distinct states found by TLC.

| run | question | properties | states |
| --- | --- | --- | --- |
| `send_ledger` | three attempts, one key, two bodies, every outage, timeout and eviction | `TypeOK`, `AtMostOnce`, `IdenticalRetryOnce`, `MailedRowsCount`, `HeldKeyIsOwed` | 1.5 M |
| `licenses_portal` | the owner's and the operators' handling of assigned licenses: two handlers in flight over two licenses and two products; and, where nothing is flagged or asked, a third license: two products on one term, one spare, which may be open-ended | `TypeOK`, `FlagHasProduct`, `LeavesOnlyByRequest`, `LongestAssignedKeep` | 0.8 M |
| `licenses_admin` | AECi's handlers and the daily job over two licenses, one of which the back-fill may have left, and two ticks; seats come and go | `MirrorsAgree`, `KeepsRegister` (refinement), `EndedIsFinal`, `TermNeverShrinks`, `LapseIsDue`, `LastEndSweeps` | 0.7 M |
| `licenses_due` | does every term that is over end | `DueTermEnds` (liveness) | 92 k |
| `contests` | two contests, one on a connector-powered row; two licenses, two seats | `TypeOK`, `StrandedByCollisionOnly`, `OwnerDecidesLicensed`, `AeciForGood` | 1.3 M |
| `stripe_sync` | one subscription, the reconcile and a webhook, a second delivery of the first event, vendor and AECi acting in between | `TypeOK`, `KeepsRegister` (refinement), `BannedIsLast`, `GrantsUpToQuantity`, `Settles` (liveness) | 0.4 M |
| `machines` | five machines that share no state, each explored by itself: `MachinesInit` chooses one and only its actions are taken. Two refunds and two settlers; one promote job and two executions; two days of the IndexNow runner and two crossing reports; a vendor of two people, four handlers, two at a time; two requests of the ban-term grant, under one grant id or two | `RefundTypeOK`, `PaidOnce`, `PaidMailIsTrue`; `PromoteTypeOK`, `MergedOnce` (refinement); `IndexNowTypeOK`, `OwedIsQueued`, `AcceptedOnce`; `SeatsTypeOK`, `VerdictHolds`, `InviteSpentOnce`, `SealedStaysShut`, `GrantsOneOwner`; `GrantedOnce` | 0.9 M |
| `plan_end_mirror`, `contest_seatless`, `promote_errored`, `indexnow_deferred`, `ban_term_twice` | five sentences of the repository's documents and comments | violated, see [below](#where-the-code-and-its-documents-disagree) | - |

What they show, in words:

- **A mail per key, at most** (`AtMostOnce`): reserve before the call and never free a key on
  an unknown answer; the only way to two mails is a send that found the ledger down, and then the
  provider's key stops an identical one (`IdenticalRetryOnce`).
- **The mirrors cannot lie in the direction the code asks about** (`MirrorsAgree`): because each
  batch asks the database again for each product of its diff, a stale diff cannot date a product that
  has a live license. The other direction is `plan_end_mirror`.
- **The last license's end takes the contests along** (`LastEndSweeps`): the pair of sentinels makes
  two ends that each saw the other's license refuse one another. One sentinel is not enough; the
  mutant with only the first is caught.
- **Crossings of a term's end** (`LapseIsDue`, `DueTermEnds`, `LongestAssignedKeep`): an extend, flag or
  assign that crosses the job wins, the job tries again, the term ends at last, and whichever product
  has been licensed longest keeps the spare.
- **A contest is stranded in one way only** (`StrandedByCollisionOnly`): the sweep's guard compares counts and
  newest dates, and a submit dates its contest before its batch. One contest withdrawn and another,
  dated no later than what the sweep read, submitted in its place leave both as they were, and the new one stays
  with an owner that has no license. Nothing else leaves one behind.
- **A license is a right** (`KeepsRegister`): whoever writes the table, and whatever each had read, every step
  grants what was never granted, moves what is live to a product no other is on, or ends it for good.
- **A termination is final** (`KeepsRegister`, `BannedIsLast`, `SealedStaysShut`): while a vendor has seats and all are banned it is granted nothing,
  with terminations, grants, invites and redeems in flight together, and after a termination it holds nothing. It is no
  promise about a vendor without any seat, which AECi may grant to. For Stripe both sentinels
  are needed: seats alone fail when the vendor is no longer ban-dead before the stale handler commits, banned rows
  alone fail when the subscription had no license yet. For invites, revoking those that were read is not
  enough: one made in between must abort the termination.
- **Stripe converges** (`Settles`): from any order of events and any loss, the daily reconcile alone
  makes the licenses those of the subscription, and cancels a terminated vendor's subscription. It
  also repairs what the order of two events breaks: the handler that retrieved the subscription while it was
  active may commit last.
- **A refund is paid once** (`PaidOnce`): neither the lookup nor the idempotency key is enough alone; the
  key covers what the lookup cannot see yet, the lookup what the key has forgotten. The row may be
  wrong meanwhile (the UPDATE is by id alone, so a refused call may overwrite a payment), and the next
  retry puts it right without paying.
- **A job's bundle is merged once** (`MergedOnce`): the ledger row commits with the bundle, so whatever the
  engine repeats, restarts or forgets, there is one merge and one answer. It holds *per job id*: see
  `promote_errored`.
- **No change of a page is lost silently** (`OwedIsQueued`), and no queued row is logged accepted twice
  (`AcceptedOnce`), because the log rows are copied from what is still queued in the statement that deletes it.
- **A claim has one verdict** (`VerdictHolds`), an invite makes one seat (`InviteSpentOnce`), and whoever
  is approved second is a member, however many approvals were planned as the first (`GrantsOneOwner`).

- **A repeated ban-term grant makes no second license** (`GrantedOnce`): the primary key stops what the read
  and the product index let pass when the first license was revoked meanwhile. Two grant ids are another
  matter: `ban_term_twice`.

Each property has a mutant in `PROJECT.json`: an operator next to the one it replaces, commented "a
plausible bug", under which TLC finds the property violated on the same configuration.

## Bounds

| bound | where | why it is enough |
| --- | --- | --- |
| two slots, desks, settlers, executions or reports (three handlers in `stripe_sync`, three attempts in `send_ledger`) | all | a stale commit needs one handler that holds a plan and another that commits; the other may be a new handler each time, so a plan is crossed by any number of commits. Three deliveries let two hold a plan while a third commits. |
| two licenses, two products (one in `licenses_admin` and `licenses_due`; three licenses for the carry-over) | Licenses | two of each give collisions on the index, "the other license", and a product moved between licenses; choosing who keeps one spare of two needs three |
| `MaxTime` 1 or 2 | Licenses, Contests | before, at and after an end. In Contests equal and different `updated_at`, on which the fingerprint turns |
| `MaxAsks` | Licenses | a request, its answer and the next one on the same license; a suspension and its lift |
| `FirstEnd` | Licenses | no grant ends before it. 0 in the runs that look at a term already over when granted; 1 elsewhere |
| `Enabled` | Licenses, Contests, StripeSync | the operations a run explores; between them the runs fire every action |
| `MaxQty` 2, `MaxEvents` 2 | StripeSync | the quantity rises and falls; with the first event a change and a second, and a termination's own |
| `Ids` {1, 2} | StripeSync | a quantity that falls and rises again uses an ordinal for good, so the ids may run out: `PlanBatch` then does not plan and `Settles` excuses it by `Exhausted`, which the code does not have |
| `SecondIsEarly`, an action constraint | `stripe_sync` | a second webhook handler, on the event the first one has, takes part only before Stripe changes anything, and while it is there neither Stripe nor the vendor acts. That is what a repeated delivery needs to try to grant twice; with it unrestrained the run is beyond a few minutes |
| `MaxRefunds` 2 | TerminationRefunds | the second is the one that must not move money, unless the first failed |
| `MaxPlans` 3, one job (two in `promote_errored`) | PromoteJob | two executions that both planned, and a third after a loss; a second job only says something of the sentence that run refutes |
| `Phases` 3, `Window` 3, `MaxClock` 6, `MaxId` 2, `MaxBatch` 2 | IndexNow | the window and the maximum age are the same length, as in the code (7 days), here a day: the boundary between them is met on the day after. Two URLs or one URL queued twice, two batches. `indexnow_deferred` has `MaxClock` 9 and three ids: change, window, change, expiry |
| `MaxBegun` 4, two people, one claim, two invites | Seats | a claim, its two decisions and a redeem; two creates that cross; a termination with a plan on either side of it |
| `Backfilled` | Licenses | one open-ended license beside dated ones: another product's, or the spare of a carry-over. None in the other two runs |
| `SmallWhenStanding`, an action constraint | `licenses_admin` | a vendor without an unbanned seat is followed at one time, one that was suspended until the first tick, with a date that is over and one that is not: neither seats nor suspensions move with time, and a grant, a termination, a term end and every move of the seats cross there |
| `LateWhenOpenEnded`, an action constraint | `licenses_portal` | a carry-over at the second tick needs a spare without an end date, since no date is after it |
| `SmallWhenHandled`, an action constraint | `licenses_portal` | the third license and the second tick are for the carry-over; they are not followed once a license is flagged or asked about, which two licenses and one tick show |
| `MaxLicenses` 5, `MaxWrites` 8 | BanTerm | a termination, a reinstatement, a grant, its end and a second grant take five writes; the rest is for a second ban or another license in between |

The clock stops at `MaxTime`, so `DueTermEnds` is about terms that end by then. Symmetry is used for
products, slots, attempts, contests, seats, refund rows, settlers and invites, never with a liveness
property, and never for license ids, whose order matters. In `machines` the constants of different
machines are given the same model values (`Rows` and `People`, `Urls` and `Invites`): they are never in
one behaviour, each machine is symmetric in them, and the other machines stay in their initial state. `CHECK_DEADLOCK
FALSE` appears where the model may run out of clock, licenses, requests or handlers and stop: Licenses,
Contests, and the four of `machines` with the two violation runs of theirs. SendLedger stutters explicitly when every
attempt is over, and StripeSync cannot stop, because the reconcile can always run.

## Fairness

Safety is checked without fairness. Two liveness properties need it.

`Licenses!Fairness`. Time passes (`WF(Tick)`). A handler does not hold a slot for ever (`WF` of commit
or abandon): workers end. The term-end job is a cron (`scheduled.ts`), so a run that loses its race,
is evicted or gives up after its one retry is followed by the next day's; a due term is planned again
and again, and is not crossed for ever. Hence `SF` on planning each due term and on the job's commit:
strong, because other handlers may disable either many times. Nothing is assumed of any person.

`StripeSync!Fairness` is on the daily reconcile only: it ends (`WF`), it is run again, and it is not
evicted or crossed at the same point for ever (`SF` on fetch, plan, commit and cancel). **Nothing is
assumed of the webhook**, which may never deliver, nor of the termination's own cancel. The daily
reconcile lists the subscriptions and runs each; the model has one of them.

## What is proved

TLAPS checks these for every value of the constants: any finite set of licenses, any products, any
number of handlers in flight, any people, claims, invites, refunds, jobs and pages, any bounds. The assumptions are the named ones of the modules
(`SendConstants`, `TableConstants`, `LicenseConstants`, `ContestConstants`, `StripeConstants`, `RefundConstants`,
`PromoteConstants`, `IndexNowConstants`, `SeatConstants`): types
of the constants, finiteness, `NoProd` is not a product, the ids of a subscription are 1..n.

| module | theorem | states |
| --- | --- | --- |
| `SendLedgerProofs` | `TypeCorrect`, `NoSecondMail`, `RetryOnce`, `MailedCounts`, `HeldIsOwed` | `TypeOK`, `AtMostOnce`, `IdenticalRetryOnce`, `MailedRowsCount`, `HeldKeyIsOwed` |
| `LicenseTableProofs` | `CarryKeepsSeniors` | of any candidates and spares, those the carry-over leaves out are junior to those it carries |
| `LicensesProofs` | `Typed`, `MirrorsHold`, `FlagsHold`, `EndedStays`, `TermsGrow`, `LapsesAreDue`, `LeavesByRequest`, `LastEndSwept`, `ImplementsRegister`, `LongestAssigned` | `TypeOK`, `MirrorsAgree`, `FlagHasProduct`, `EndedIsFinal`, `TermNeverShrinks`, `LapseIsDue`, `LeavesOnlyByRequest`, `LastEndSweeps`, `KeepsRegister`, `LongestAssignedKeep` (nothing is approved) |
| | `TerminationIsFinal`, `LongestAsRead`, `OnlyEndsLoseDate`, `UncrossedLapses` | not of a run: see below |
| `ContestsProofs` | `Typed`, `SweepSound`, `DecidesLicensed`, `StaysWithAeci` | `TypeOK`, `StrandedByCollisionOnly`, `OwnerDecidesLicensed`, `AeciForGood` |
| | `OnlyCrossingsSeatless`, `UncrossedSweeps` | not of a run |
| `StripeSyncProofs` | `TypeCorrect`, `BanIsLast`, `NeverTwice`, `ImplementsRegister` | `TypeOK`, `BannedIsLast`, `GrantsUpToQuantity`, `KeepsRegister` |
| | `DeadVendorStaysBare`, `UncrossedSettles` | not of a run |
| `AfterBanProofs` | `RefundTyped`, `NeverPaidTwice`, `MailIsTrue`; `OneLicenseAGrant` | `RefundTypeOK`, `PaidOnce`, `PaidMailIsTrue`; `GrantedOnce` |
| | `SpentOnItsProduct` | not of a run |
| `PublishProofs` | `PromoteTyped`, `ImplementsOnce`; `IndexNowTyped`, `NoChangeIsLost`, `RowsAcceptedOnce` | `PromoteTypeOK`, `MergedOnce`; `IndexNowTypeOK`, `OwedIsQueued`, `AcceptedOnce` |
| `SeatsProofs` | `SeatsTyped`, `OneVerdict`, `OneSeatAnInvite`, `ClosedForGood`, `SecondIsMember` | `SeatsTypeOK`, `VerdictHolds`, `InviteSpentOnce`, `SealedStaysShut`, `GrantsOneOwner` |
| | `VerdictIsFinal`, `OwnersHaveCause` | not of a run |

The arguments, and why each invariant had to be stronger than what it proves:

- **SendLedger.** `IInv == TypeOK /\ OneHolder /\ MailersHold`. `AtMostOnce` is about mails, the index
  about rows. `MailersHold` connects them: an attempt that has mailed, or still may, holds its key.
  Two mailers of one key would be two holders, which the index forbids. Two more invariants stand
  on it: `Told` (a row is settled by its attempt only, and after an answer) for what the rows say, and
  `Remembers` (until it forgets, the provider knows every keyed mail) for the retry with the ledger down.
- **Licenses.** `IInv == TypeOK /\ PlanSound /\ FlagHasProduct /\ MirrorsAgree /\ TerminatedHoldsNone`. Every
  commit's table is shown to be a legal `Successor` of the table *as it stands*, whatever the
  handler had read; the invariants follow from that alone, so each builder is treated once. `PlanSound`
  is what a plan in flight may still be trusted for: an extend lengthens the term it read, if it had an end, a lapse
  plans a term that is over, a termination plans the sweep, an approval names the open request's product
  for as long as that request is the open one. The action properties follow action by action: `Steady`
  is what a step may do to a live license's term, end and product, `Swept` what a step that ends one
  knew of the others.
- **The carry-over.** `LicenseTableProofs` is about the builders, and is cited by both users of the table. A rank is a
  count of seniors, so there is no induction: ranks grow with seniority (`RankGrows`), every number up to
  the size of the set is one (`RankOnto`), so the carried are the first by rank (`RankFirst`, `CarryRanks`) and those left
  out are junior to them. `LongestAsRead` says it of the rows as the job *read* them, whatever commits meanwhile. What
  the rows say at the commit is the same unless a product was taken off its license and put back in between, and only
  an approval takes it off: hence `LongestAssigned` under `"approve" \notin Enabled`. The weaker promise is
  what the code keeps; see the hazard at `lib/license.ts:1242`.
- **Contests.** `IInv == TypeOK /\ PlanSound /\ StrandedByCollisionOnly`. A sweep moves everything
  it had read on connector-powered rows (`PlanSound`), so when the set is still the one read, nothing
  is left behind; a submit and a seat return that hand a contest to the owner have their own sentinel.
- **StripeSync.** `IInv == TypeOK /\ CancelIsLast /\ SawBanGrantsNone /\ BannedIsLast /\
  DeadVendorHoldsNone`. Only a commit makes a license live, and only the ids it planned. A plan that
  saw a ban grants nothing; any other is refused once there is a ban. For `NeverTwice` the
  invariant gains `RowsFirst` (the rows are the ordinals 1..n) and `GrantFits` (while the planned ids
  are free, the rows are still those counted, and they have at most ended): this is the code's claim
  that minting ids from the ordinal replaces a lock.

- **TerminationRefunds.** `IInv == RefundTypeOK /\ NewestOnly /\ KeylessIsQuiet /\ HoldsMade /\ PaidIsMade`.
  `PaidOnce` alone says nothing of what is about to happen. `KeylessIsQuiet` does: while Stripe knows no
  key of a row that has a good refund, nobody is about to create one; and while it knows one, the create
  makes none. `NewestOnly` says the good refund, if any, is the one the key answers.
- **PromoteJob.** Per execution `RunHolds`, per job `JobHolds`: what the catalog, the mirror and the
  output hold of a job is what its ledger row records, because the row and the bundle are one batch; an execution
  past its batch holds that record too. `ImplementsOnce` maps each action to a `Do`, a `Tell` or a stutter.
- **IndexNow.** `IdsHold` (ids are handed out once, and a row that was accepted is gone) carries `AcceptedOnce`:
  a stale report finds its rows by id, and finds none. `OutHolds` (a page whose row only waits to be
  deleted is owed nothing that is not excused) carries `OwedIsQueued` over the deletion.
- **BanTerm.** `GrantedOnce` is inductive with the types: an id stays in the table, and a batch that would
  insert it again aborts. Two lemmas say which writes leave the grants of the table alone.
- **Seats.** `IInv` is one part per table, each with the property about it, and `DeskPart`: a handler names
  what its batch writes. Each action is checked against the parts it writes. `InvitePart` has what
  `SealedStaysShut` needs: what was sealed is revoked, and no statement takes an invite out of `revoked`.

### Refinement

`PromoteJob` implements `Once` (`MergedOnce == Merges!OnceSpec`), checked by TLC as a property of its run and proved:
the row that answers a job is committed with the bundle.

`Register` is implemented twice: `KeepsRegister == Rights!RegisterSpec` in `Licenses` and in `StripeSync`.
In `Licenses` every commit is one abstract step; what is new to it is that the lapse's carry-over is an injection of
the ended term's products into free licenses, which needs `LapsePlanned` (the term a plan read was over, so none of
its licenses was a spare) with the index. In `StripeSync` a batch
ends and grants in one go, and the proof is that it never does both: a batch that grants was
planned with nothing to end, and one that ends with nothing to grant (`GrantsOrEnds`). A termination that finds seats closes the register, one that finds none only ends rights; the loss of
the last unbanned seat bars it, and the revoke of the last banned one opens it. `TerminationIsFinal` and
`DeadVendorStaysBare` say in the terms of the code what the refinement says in those of the register.

### Where a promise breaks, and nowhere else

A finding says that a sentence fails. These theorems say how much of it is left:

- `OnlyEndsLoseDate`, of `plan_end_mirror`: every step of the model keeps `PlanEndMirror` but the commit of a
  revoke or of a termination, the two that are guarded on `ended_at` alone.
- `OnlyCrossingsSeatless`, of `contest_seatless`: a contest comes to an owner without a seat by the submit that had read a
  seat, or by the loss that had not planned it. License ends, decisions and returns never do it.
- `SpentOnItsProduct`, of `ban_term_twice`: a banned license *is* spent while the license that restored it
  is on the product, live or ended. It rests on the order of times (`BanOrder`): a request reads only when a seat is back, so what it
  makes is created after the ban, and a later read sees it.
- `OwnersHaveCause`, of the redeem that gives an owner bit back: it is the one way to the bit that does not ask the row.

### What a handler does when nothing crosses it

`Settles` and `DueTermEnds` say that a handler gets through in the end. What fairness cannot give is that it is not
refused for a reason of its own when nothing crosses it, and that it has then done the work. That safety half is proved, for
every table, and for the sweep of `Contests` besides:

- `UncrossedSettles`: a batch planned from the current subscription and from rows nothing has changed passes `RowsAsRead` and
  `NoBan`, and its commit leaves the live licenses `Matched` to the subscription. The counting of surplus and ordinals is in it
  (`SurplusCount`, `UncrossedCounts`).
- `UncrossedLapses`: a lapse planned from the rows as they are fits all the guards of its batch, the unique index included,
  and its commit leaves nothing live on the term.
- `UncrossedSweeps`: a license end passes its guards, and the last license's leaves no contest on a connector-powered row with the
  owner, no stamp that would send one back, and no collision.

Each starts from a predicate that every plan has when it is made (`PlansUncrossed`, `PlansUncrossedLapse`,
`PlansUncrossedEnd`), so they are not about states that cannot be.

### What stays with TLC

`DueTermEnds` and `Settles` themselves: liveness under fairness and ENABLED are out of the prover's reach.
`LongestAssignedKeep` where requests are approved: `licenses_portal` checks it with approvals for two licenses, where no choice
among spares arises, and without for three; it is not claimed beyond that. No module declares a RECURSIVE operator: the ranking in `Carry` and
`Surplus` is by counting, which the prover can use, where induction over data it could not.

## Where the code and its documents disagree

Each is a run with `expect: violation`, and the trace is the run's.

1. `plan_end_mirror`. `docs/STAGE_2_PAID_TIERS_SPEC.md:867` says a mirror cannot move without its
   license. A revoke that read a license unassigned, crossed by the owner's assign, ends the license
   with the product on it: the product has no live license and shows no date. The drift report lists
   the state as an error.
2. `contest_seatless`. `docs/STAGE_2_VENDOR_PORTAL_SPEC.md:3399` says an owner with no active seat gets
   no owner-routed contest. A submit asks for the seat before its batch, which has a sentinel on the
   license and none on the seats; the seat's loss plans its re-route before its own. If each reads
   before the other commits, the contest stays with an owner nobody can act for.
3. `promote_errored`. `docs/RUNBOOKS.md:1840` says an errored job wrote nothing, and line 1872 that its
   bundle may be pushed again under a new id. The count after the batch may throw, the batch's answer
   may be lost, and the step's ten minutes may end while its callback runs: the job is errored and merged.
4. `indexnow_deferred`. `lib/indexnow-queue.ts:58` says a page held back stays queued until the first drain
   after its window closes, and that its maximum age cannot come first. The window is counted from the
   post, which is after the read: at its usual hour the runner is still inside it on the day it closes,
   and the next day's expiry runs a quarter of an hour before the runner.
5. `ban_term_twice`. `routes/admin-licenses.spec.ts:1666` says a banned license is spent once a later license
   on its product exists. The later one is looked for by its product, which an early release takes it off
   while it lives, so one ban's end is made good twice. Two grants under way together do the same once the
   first restored license has ended: the check is on the read, and the index sees live licenses only.

Observed while modelling, and not runs of their own:

- `lib/integration-contests.ts:484` says a contest submitted between the sweep's read and its commit cannot
  be left behind; the collision above is the one way it can, and `StrandedByCollisionOnly` is stated
  accordingly.
- `routes/admin-contests.ts:45` says owner-routed rows are read-only to AECi. The route is checked on the read and
  the UPDATE is guarded on the status, so a seat return in between lets AECi decide an owner's contest.
- `routes/vendor-seat-invites.ts:494` keeps the last owner seat from being removed. Two owners who remove
  each other each count two, and neither UPDATE counts: the vendor has no owner, and its next approved
  claimant is one.
- `lib/vendor-seat-invites.ts:510` keeps the owner bit the redeem's read found. If the seat is removed in
  between, the redeem gives the bit back.
- An account belongs to one vendor by checks on reads only. A grant here that crosses one elsewhere
  moves the account.
- `SealedStaysShut` is about invites that were live at the termination. One that had lapsed is not revoked
  by it, and a create or re-send that read its owner before the ban may still commit after it.
- The unban decides on a read whether to stamp `owned_at` (`routes/admin-reviewers.ts:262`). A termination that commits in
  between clears it, and the vendor is back without the stamp: should it lose that seat again it is ban-dead at once.
  `StripeSync` has the stamp always made.
- Two creates for one address may cross and leave two live invites, and an owner's accept may name an
  invite that was revoked since it was read.

## Limits

Besides the abstractions named per module: one vendor, one billing account and one subscription at
a time, since no statement here reads another's rows. Audit rows, transitions and mails that go with a
batch are left out: the seat lapse's re-route, which writes the audit row of a contest it skipped because
it was decided meanwhile (`lib/vendor-handback.ts:1310`), is not seen. D1's `batch` is taken to be
atomic and serialisable, as the code takes it. `Seats` is not composed with `Licenses` and
`Contests`, which take the seats as a set that handlers add to and take from.

### Not modelled

Most of the repository is not, and most of it should not be: pages, forms, schemas, mail templates,
reports, operators' tools and the merge of a bundle are sequential code whose errors tests find. What
has state and is left out, with the reason per component, is in `PROJECT.json`. The ones a reader may look for:
term-end notices, contest protests, attestations and claim threads, product proposals,
ownership sync, the Algolia sweeps and the Google worklist (a queue like IndexNow's, worked by hand).

## Plan

Done: `SendLedger`, `LicenseTable` and `Licenses`, `Contests`, `StripeSync`, `Once` and `Register`,
`TerminationRefunds`, `PromoteJob`, `IndexNow`, `Seats` and `BanTerm`, each with its proofs.

Next, the most exposed first:

1. `Seats` composed with `Contests` and `Licenses` in place of their set of seats.
2. `ExpiryNotice` on `SendLedger`: the stamp of a warning and its mail.
3. Contest protests; `OwnershipSync` with `Licenses!Disown`; the hooks after a promote and the sweeps that repair
   them.

Worth proving over what is there: that AECi decides a contest of the owner's only if a seat return crossed its
read, and that the last owner of a vendor is lost to a removal only if two crossed.

## How to run

    tlc -workers 2 -config MCLicensesAdmin.cfg MCLicenses.tla
    tlapm LicensesProofs.tla

`PROJECT.json` maps every definition to the lines it models, and lists the runs with their
configurations, the mutants, the hazards, the findings and the theorems.
