# Formal model of Moderaty's server

Moderaty moderates the comments of YouTube channels: a cron job fetches new
comments, decides each one by rules and AI, records the decision and carries it
out on YouTube, while reviewers decide queued comments and undo decisions in a
dashboard. Organisations pay in credits, bought at Stripe or Mercado Pago. This
directory holds TLA+ models of its server code (`src/src/lib/server`,
`src/src/routes`), the TLC configurations that check them, and proofs that TLAPS
checks. Paths below are relative to the repository's `src/src/lib/server/` unless
they begin with `routes/`.

    tlc -workers 2 -config moderation.cfg MCModeration    # one of the runs
    tlapm LedgerProofs.tla                                # one of the proofs

`PROJECT.json` lists the runs with their properties, the source lines of every
definition, a mutant per property (a plausible bug that makes the run fail), the
hazards and the theorems.

## 1. The system

State is one SQLite database. Nothing holds a lock across an `await`: every
transaction is short, so what spans several of them is protected by predicates
("compare and set"), unique keys, leases, and durable reservations. YouTube,
Stripe, Mercado Pago and the mailer are called between transactions, may fail, and
may have acted although their answer was lost.

| Component | State it keeps | Hard behaviour | What makes it correct | Model |
|---|---|---|---|---|
| Cron scheduler (`routes/api/cron`, `cronWorkload.ts`) | leases, `lastRunAt`, turn, preview rows | leases that expire under a live run; one slot per tick | one live owner; both classes and all channels progress | `CronWorkload` |
| Channel run (`pipeline/run.ts`, `scoring.ts`) | cursor, page token, boundary, nonce | rescan planted during a run, parked scans, frozen runs | no comment is skipped or left unpaid | `ScanRun` |
| Moderation preview (`dryRun.ts`, `routes/api/cron`) | drain columns of a channel, audit rows | planted while a drain runs; channel erased and reconnected | it ends only when its whole window was audited | `Preview` |
| Decision rules (`rules.ts`, `decisions.ts`), protection (`allowlist.ts`) | rules, handles | owners edit while a batch is scored | a protected author is never acted on | `Rules`, `Verdicts` |
| Staging, enforcement sweep, human dispatch, queue review, log Undo (`pipeline/`, `routes/(app)/channels/[id]`) | `comments`, `moderation_actions`, `audit_log`, reservation | all interleavings of cron and people, lost answers, batches | YouTube ends up as decided; every action ends | `Enforcement` |
| Credit ledger (`billing/ledger.ts`), Stripe inbox | anchors, balance, allowances, pending reversals, event leases | refund before grant, retries, overtaken leases | balance = sum of effects, each once | `LedgerSpec`, `CreditLedger` |
| Entitlements (`billing/entitlements.ts`, `stripe/webhooks.ts`) | plan, periods, slots | late, repeated, reordered events | plan follows Stripe; every buyer is answered | `Entitlements` |
| Auto top-up (`billing/autotopup.ts`, `autoTopupRecovery.ts`) | attempt, caps, recoveries | an outage with a payment in the air | one credit or one refund per payment | `AutoTopup` |
| Refund pause (`billing/ledger.ts`, `stripe/webhooks.ts`) | observations, pauses, consent | partial refunds out of order against a new consent | a refund revokes exactly earlier consents | `RefundPause` |
| Saved card (`stripe/webhooks.ts`) | pointer and its cursors | card events of one second, overtaken handlers | consent covers the card charged | `Cards` |
| Checkout attempts (`billing/checkout.ts`) | attempt, session, customer | tabs, expired sessions, lost answers | one attempt is paid once | `Checkouts` |
| Mercado Pago (`mercadopago/`) | attempts, grants, reversals | overlapping notices of one payment | paid is granted or owed back; reversed is taken | `MercadoPago` |
| Account deletion (`deletion.ts`) | three outboxes | crash between commit and provider call | nothing owed is forgotten | `Teardown` |
| Organisations (`org.ts`, `deletion.ts`) | memberships, invites, sessions | owners demote, leave and erase at once | a team keeps an owner | `Tenancy` |
| Sign-in and OAuth (`routes/api/auth`, `consent`, `legal.ts`) | cookies, users, grants | tabs overwrite each other's cookies | a flow ends with the account that began it | `SignIn` |
| Zero-credit retention (`zeroCredits.ts`) | three stamps of an account | top-up racing deletion, sweeps overlapping | warned first, never erased with credit | `Retention` |
| Feedback digest (`feedbackDigest.ts`, `feedbackHistory.ts`, `feedbackCluster.ts`) | checkpoint, markers, digests | retries of half-done jobs | each comment once, and paid | `DigestJob`, `Themes` |
| Welcome and contact mail (`welcome*.ts`, `contact*.ts`) | delivery rows | unknown outcome of a send | one mail | `Delivery`, `Contact` |
| User interface, content | none | - | - | - |

Interactions: the cron claims a channel and calls `runChannel`, which stages
through the ledger and then runs enforcement; enforcement replays what the
dashboard recorded; the end of a run triggers the auto top-up; webhooks feed the
ledger, the entitlements and the card; erasing an account tears its grants and
customers down. Dashboard and cron meet in the rows of a comment (`Enforcement`),
in the lease of a channel (`CronWorkload`, `Preview`, `DigestJob`) and in its scan
columns (`ScanRun`).

## 2. Modules

Each component has a module with its state, one action per transaction, query
batch or provider call (so that other processes step in wherever the code awaits)
and its properties. The mutants of a run are in the module of the definition they
change. MC modules give values to constants and define symmetry.

`Enforcement`, `CronWorkload`, `CreditLedger`, `Entitlements` and `Teardown` are
checked by runs of their own. The others are checked through sums: `Moderation`
(`Enforcement`, `Verdicts`, `Rules`), `Billing` (`AutoTopup`, `Cards`, `Checkouts`,
`RefundPause`) and `Services` (`Tenancy`, `SignIn`, `Retention`, `ScanRun`,
`Preview`, `DigestJob`, `Themes`, `Delivery`, `Contact`, `MercadoPago`). A sum is
not a composition: its machines share no variable, and where one component writes
another's columns, that write is an act of the environment in the other's module.
So a behaviour of all machines projects to one of each, and exploring one at a time
(`machine` names it) loses nothing. `Tenancy` has the run `ownerless_team` besides.

Real composition is inside the modules: requests, cron replay and corrective writes
share the dispatch of `human-dispatch.ts` in `Enforcement`; live runs, previews and
dashboard requests share the lease in `CronWorkload`; webhooks, success page, staging
and plan changes share the ledger in `CreditLedger`; erasures, requests under way and
drains share the rows of `Teardown`. `CreditLedger` implements `LedgerSpec`, the
ledger's promise: credits of a payment are granted once, withdrawn once however often it
is disputed, given back at most once for each dispute, taken at most once by a refund, and
only what is there is spent.

### `Enforcement`

Two kinds of process. A **runner** is one execution of the channel's cron job. It
starts `"idle"`, may stage verdicts (`StageDecision`) and sweep (`ReadActions` ..
`FinishRun`); its local variables are the record `run[w]`. A **request** is one click:
`QueueClaim`, `UndoClaim` or `UndoResume`, then the reservation and the dispatch, then
`Release` on a failure that allows it. Its id stands for the audit row it inserts.

| Model | Code |
|---|---|
| `comment[c]` | row of `comments`: `status` (`"absent"` = no row), `decidedBy`, `restoreIntentId`, `humanDispatchToken`, `humanDispatchState` |
| `action[c]` | the comment's row of `moderation_actions` (`"none"` = no row) |
| `intents[r]` | the user row of `audit_log` that request `r` inserted |
| `active` | `channels.active`, what `assertChannelActive` tests |
| `remote[c]` | moderation state on YouTube |
| `late[c]` | writes whose caller gave up and which may still land |
| `task[p]` | a `HumanDispatch` object and the write made under it |

The sweep follows `processOutstandingActions` in order: snapshot of outstanding rows,
snapshot of fenced comments, convergence of cancelled rows, protection guard, claim,
then per kind mark - partition - write - converge - complete; finally
`reconcileRestoring`. `convergeHolds` is used three times; `run[w].phase` says which.
Abstracted: text, scores, reasons; system audit rows; `decidedBy` distinguishes only
human from the rest; a batch has no size limit (fifty in the code), but all batch
behaviour is there, including a 404 for the whole and the fall-back to single writes;
the recovery cursor pages through claims in the code and is one read here. Left out:
dry runs, `recoverRestore` for claims without a valid binding, how a token is
refreshed; charging is in `ScanRun` and `CreditLedger`.

### `CronWorkload`

A **runner** is one invocation of the cron endpoint, or one dashboard request that
takes a channel's lease. An invocation goes `Sweep` (`finalizeStalePreviews`), `Claim`
(the transaction of `claimCronWorkload`: candidate, lease, attempt stamp and turn at
once), then `RecordRun`, or `StartPreview`, `EndPreview`, `Release` for a preview. The
other exits have an action each. `Hold` is a moderation preview or "Generate now";
`ClaimPreview` - `Plant` - `StartPreview` - `EndPreview` - `Release` is the kick of the
free feedback preview, which runs on in the background. `Toggle`, `Connect` and
`Disconnect` ask for no lease, as in the code.

| Model | Code |
|---|---|
| `channel[c]` | row of `channels`: status, `leaseExpiresAt` (as `owner` and time `left`), `lastRunAt`, `feedbackDryRunUsedAt` |
| `preview[c]`, `queue` | the preview's row of `feedback_digests`: status, `attemptedAt` as an age, the order of ids |
| `turn` | `cron_workload_state.nextWorkload` |
| `runner[r].conn` | whether the connector fingerprint still matches (`channelMatchesClaim`), or the row was erased |
| `served`, `events` | history and total, for `TurnOwed` and `RotationBound` |

A lease is recognised by its timestamp, so a runner that overruns sees whether it
still has it; nothing stops it. `Elapse` passes a unit of time at any moment, so every
lease can run out under its holder. `lastRunAt` is only compared, so stamps are
renumbered at each claim. Left out: two leases that end in the same millisecond, the
maintenance sweeps before the claim, health columns. Two results of the code have no
action because they cannot occur: `claim-lost`, whose update repeats the condition of a
query in the same write transaction, and a contested choice without a live candidate.

### The other modules in a line each

| Module | Processes | Time and faults |
|---|---|---|
| `CreditLedger` | handlers of Stripe's inbox (`worker`), the success page, staging's charges, plan changes; a ledger row is its unique anchor | a handler throws, dies, or outlives its lease |
| `Entitlements` | handlers of purchases, cancellations, refunds and disputes; Stripe's objects beside the rows; whether an invoice names its charge (`named`) | events of the same second are ordered by id; a fault takes an act's place |
| `AutoTopup` | cron and channel runs that claim, submit, reconcile, sweep; the owner's form; two webhooks; refunds that stay pending or fail. Which card is charged is in `Cards` | days; runners cut short anywhere, answers lost |
| `RefundPause` | handlers of `charge.refunded`, the late grant (of an invoice that may name no charge), one form that may date consent anew (`Disable` is another tab) | every refund and consent has its instant |
| `Cards` | handlers of card events and of a checkout that stores a card | seconds of `event.created`, retries |
| `Checkouts` | tabs, expiry, settlement, webhook, success page | a tab dies between steps; idempotency keys are forgotten |
| `MercadoPago` | handlers that fetch the payment first, owner and plan | notices repeat until answered |
| `Teardown` | erasures, one request under way, drains of three outboxes | a provider's failure or lost answer, crash |
| `Tenancy` | requests that change roles, leave, invite, accept, erase; seniority is a place in `created_at` order | requests outlive what they read |
| `SignIn` | tabs of one browser, Google, erasure, new terms | a response overwrites the whole cookie |
| `Retention` | sweepers that evaluate, warn, claim and erase; funding moves | evaluations as the clock; mail fails, sweeper dies |
| `ScanRun` | runs, publication, planting of a rescan, human claims, top-ups | a lease lapses under a run, crash |
| `Preview` | planting requests and cron drains; pause, erase, reconnect | a job frozen past its lease, failure |
| `DigestJob` | runs over stored comments or over an owner's window | lapsed lease, crash, credit exhausted |
| `Themes` | the model's answer to one batch | any answer, or none |
| `Verdicts` | one run's batch; owners add and remove handles, move the channel | deadline, moved channel |
| `Rules` | an owner who types a pattern and stores rules | - |
| `Delivery`, `Contact` | mailers, discovery, enrolment; submission and confirmation | answer of SMTP lost, mailer dies, claim lapses |

## 3. Properties and runs

| Run | Instance | Shows |
|---|---|---|
| `moderation` | one comment scanned twice, one runner, two requests, every verdict, one fault of any kind but a pause and a late write; batches of two authors, two handles, two teams; patterns of six signs | `VerdictsHold`: a comment at rest shows on YouTube what the human decided, and nothing in review or on hold is public. `ProtectionExact`, `HandlesKept`: verdicts miss no protection that stood when they were staged, and no handle appears that nobody asked for. `RulesExact`: the scanner takes exactly the patterns without equal alternatives, and rules are tried longest first |
| `overlapping_runners` | one comment, two runners, two requests, pause, crash, lost and late writes | `OneDispatcher`, `FenceHolds` and `ClaimsKept` (a claim is bound to a recorded intent, a finalizer finds the claim it was sent for) without the lease's help |
| `progress` | two comments, one runner, one request, crash, failed commit, owner removing comments | `IntentDecided`, `ActionResolves`: recorded decisions are committed, outstanding actions end |
| `cron_overlap` | two channels, two runners, every event, leases that may all be outlived | `LeaseExclusive`, `TurnOwed`; `OutcomesStand`: a late run replaces neither newer bookkeeping nor the outcome of a preview |
| `cron_expiry` | two channels on the 15-minute schedule, previews, holds, pauses, crashes, late claims, failed writes | `RotationBound`: a ready channel is passed over less than twice for each channel and each fault or dashboard action; `PreviewsResolve`: each preview ends |
| `ledger` | two handlers, one purchase paid, refunded and disputed, a success page, two comments charged from a period and the balance, one fault | `KeepsPromise`: the ledger implements `LedgerSpec`; `EventsHonoured`: an acknowledged event stays answered; `DebtBounded`, `ChargesExact` |
| `ledger_serial` | one handler at a time, two purchases and a dispute, every order of delivery | `BooksMatchStripe`: with everything handled and nothing failed the books agree with Stripe; `EventsSettle`: every event is acknowledged |
| `entitlements` | two subscriptions, two lifetime purchases, two organisations after the last slot, three acts of customers, two seconds | `SlotsHeld`: slots, lifetime entitlements and the cached plan agree at all times; `BuyersAnswered`, `PlanIsTrue`: once everything is handled, periods and money agree with Stripe |
| `billing` | up to two top-up attempts with two runners over three days; two bank cards and two handlers over two seconds; two tabs, two keys, two sessions; a charge refunded in two parts with two handlers | `TopupsKept`: each payment is credited or paid back, and none survives the refund that stopped it. `CardKept`: the card charged was agreed to, and the copy settles on the customer's card. `CheckoutsKept`: one payment per attempt, an unfinished one shields the account, one customer. `MandateKept`: top-up is on exactly if wished after the last refund |
| `teardown` | an account and another member of one shared team, one channel, one worker, a request under way, one fault | `NothingForgotten`, `PaymentSettledFirst`, `ErasureCompletes` |
| `services` | ten machines, each with two overlapping workers and one fault | `TeamKeepsOwner`; `SignInKept`: a flow finds its cookie entry, accounts sign up once, a grant goes to who asked for it; `NeverErasedUnwarned`; `ChannelKept`: the cursor leaves no comment behind, every verdict and digest is paid once; `RecurrenceTrue`: recurring themes are counted truly; `RescanCovers`, `PreviewCovers`: a rescan or preview that is reported over has covered its window; `MailKept`: one welcome, and no more notices than failures account for; `TraversalCovers`: a discovery pass enrols everybody; `MercadoKept` |
| `ownerless_team` | two owners, a member, two requests | violation of `NeverOwnerless` (section 4) |

**Bounds.** Each instance is the smallest in which the processes can disagree: two
handlers, runners, sweepers or tabs for a race over one row (a third finds what the
second left), three processes where one may resume what another recorded
(`moderation`), two comments for batches and loops, two channels for a rotation, two
purchases for a pending row that belongs to another charge, three people for a
succession. `MaxFaults` = 1 puts one crash, lost answer or exception at any point; it
does not bound the races. `MaxVisits` = 2 (in `moderation`) lets a rescan meet every state
an earlier scan, sweep or human left behind. `MaxClock` = 5 with `Notice` 1 and `Grace` 3
reaches a second countdown after a cancelled one, but not the erasure at its end: that one
rests on the theorem. In `billing` `MaxLoad` = 3 counts attempts, acts and faults of
`AutoTopup` together: two attempts with one act or fault, one attempt with two, and a
refund is an act. Counters of acts (`MaxActs`, `MaxScans`,
`MaxTopups`, `MaxChanges`, ...) bound what people do, not the interleaving.

Larger instances were explored once and hold: `Verdicts` with three comments and more
adds (4.7 M states), `Preview` with three comments (1.7 M), `Rules` of length 7
(0.4 M), `Themes` with three themes (0.4 M), `Checkouts` with three keys and sessions
(0.7 M), `Teardown` with two drains (1.1 M), `RefundPause` with three parts, `SignIn`
with three flows (where a crowded cookie drops the oldest entry, which `FlowsKept`
excepts). In `cron_overlap` units of time are arbitrary: a cron lease lasts two, a
dashboard lease one, and the scheduler may call at any time (`Cadence` = 0), so it
covers the schedule of every minute. In `cron_expiry` a unit is a slot of the
documented 15-minute schedule: every lease ends within one, `PREVIEW_PENDING_STALE_MS`
(35 minutes) is two and a bit, and an invocation ends before the next one (`Punctual`).
`SweepBatch` = 1 (25 in the code) makes the limit bite.

Symmetry is used for interchangeable workers, requests, tokens and slots, and in no run
that checks liveness. Deadlock is checked in the Enforcement runs and in `cron_expiry`,
where something can always go on; elsewhere bounded acts end.

**Fairness.** `progress`: each runner keeps taking sweep or dispatch steps (the
scheduler calls the cron every few minutes) and a request that has begun runs on until it
ends or crashes. Nobody has to click, pause or scan, and no provider has to be reachable
twice. `Orphaned` comments, whose reservation was lost to a crash or an unknown answer,
are excepted: the code leaves them to an operator on purpose (`human-dispatch.ts:26-30`).
`cron_expiry`: the scheduler calls, and a runner that has begun goes on, to an end that
may be a deadline or a crash; no class of work, channel or request is favoured.
`ledger_serial`: a running handler goes on, and Stripe delivers an event until it is
acknowledged, which is a strong fairness, since a delivery fails while another handler
has the lease. `teardown`: a drain that has begun goes on, the cron serves each outbox
row again and again (strong, because drains exclude each other and a row is served when
one is free), and the payment recovery that a deletion waits for is attempted. The
sums' safety runs assume no fairness.

**What the instances leave out.** `VerdictsHold` is stated for one runner at a time,
which is what the cron's lease is for, and without late writes and pauses: with those
it fails, see section 4. `ledger` has one dispute per charge; its theorems are for any
number. `teardown` has one shared team and one worker; its theorems are for any number.
`entitlements` handles one event at a time: two handlers that overlap break
`BuyersAnswered` (a subscription is tested before the write it guards), but not
`SlotsHeld`, which excepts `Downgraded` (section 4), nor `PlanIsTrue` in a trial with
two acts. `PlanIsTrue` excepts the payments whose reversal is still queued (`Waits`)
and a lifetime plan whose won dispute hid a refund (`outranked`), both in section 4.
The cached plan `hosted` is not compared with the subscriptions that run: events of one
second, with ids against their order, part them. `BuyersAnswered` excepts plans
restored by a won dispute (the code looks at no subscription then). `TopupsKept`
excepts a refund that failed (a human makes it), a protected payment that a second
refund, heard of later, put in doubt again (`Doubted`), one paid back before an earlier
refund gave it a consent's protection (`Reprieved`), one that a refund passed by
(`overlooked`) and one judged by the earliest of several refunds (`Misdated`).
`Reprieved`, `Misdated` and `overlooked` are needed only by instances with three acts,
where they were found; section 4 lists them. `NeverOwnerless` needs `overtaken` to
fail; `TeamKeepsOwner` is the same without the write that falls on an owner it read
with a lower role. `late` in `Teardown` marks what a request stored at a provider after
its account was erased. The exemptions `crossed` (`Cards`, `Checkouts`, `Preview`),
`exposed` (`SignIn`) and `Unclaimed` (`RefundPause`) are real races of the code; each
is named at its property and listed in section 4. `NothingSkipped` counts from `floor`:
a rescan planted with a boundary newer than the cursor moves the cursor forward past
comments no run has read.

## 4. Disagreements with comments, and races found

Found by the run `ownerless_team`: `org.ts:332-334` says that concurrent demotions can
never strand the organisation ownerless. `setMemberRole` derives `demotingOwner` from a
role it read before its transaction. Read a member, let another owner promote it and then
leave or be removed, and the unconditional write takes the last owner's role away.

The rest was met while modelling. Those with a counterexample were shown by an instance
of these modules; none has a run of its own.

- *Moderation.* A request that fails after the cron replayed its intent, whose commit
  failed, releases the claim and deletes the intent although the write landed
  (`log/+page.server.ts:285-295`, `queue/+page.server.ts:133-156`); one pause is
  enough. The log's release does not re-arm a hold that a sweep superseded meanwhile,
  as the queue's does (`enforcement.ts:143-145`). With protected handles, a dispatched
  action on a comment that is gone makes every later sweep throw
  (`enforcement.ts:533`). `staging.ts:146-149` says that cancelled actions leave the
  remote state alone; the sweep re-asserts the decided status first
  (`enforcement.ts:617-625`), which is right. A late write makes the corrective write
  not "guaranteed to land last" (`enforcement.ts:709`), and a runner that outlived its
  lease may repeat a write that a human has since undone (`enforcement.ts:641`).
- *Cron.* `cronWorkload.ts:5-7` promises a preview that met its deadline a retry on
  the 15-minute schedule; a channel held at the slot between loses it. A kick frozen
  past its 60 seconds marks a preview failed while the cron runs it
  (`feedbackDigest.ts:1096-1116`).
- *Scan and preview.* A comment claimed when it is read and released before staging is
  neither decided again nor stamped. A preview request that overran its lease reports
  `background: true` though nothing was planted (`routes/(app)/channels`, preview
  action); a failed preview has used up the allowance. A drain that began before a
  reconnection meets an equal all-time boundary
  (`routes/api/cron/+server.ts:115-116`).
- *Ledger.* A grant and its drain between the lookup and the queueing of a reversal
  leave a row that nothing drains (`webhooks.ts:620`). Two disputes of one charge
  whose handlers overlap are both stored as reversed, and both restored when won; one
  queued row stands for both, and the second is forgotten when the first is won before
  the drain. A won dispute can be overwritten by the handler of its opening. A restore
  races the refund it checked for. The floor of a refund may wipe out the debt of
  another charge's dispute. `webhooks.ts:1776-1777` says that "reversing after the
  credits are spent can leave a negative balance": the code floors the balance at zero
  for refunds (`ledger.ts:351-356`), and only disputes may leave a debt, as the docs
  say elsewhere. `DebtBounded` states what the code does.
- *Entitlements.* `docs/stripe-checkout-webhooks.md:49` says "Disputes release
  lifetime slots". A disputed entitlement keeps its slot (`entitlements.ts:168-170`,
  286-299), and only a refund releases it (270-284): `SlotsHeld` states what the code
  does. An invoice may name its payment and no charge (`webhooks.ts:1000-1017`); a
  refund or dispute that came before it is then neither found nor deleted
  (`entitlements.ts:136`, 154) and the period is `paid`. A reversal queued between the
  lookup of its grant and the record of the purchase, by overlapping handlers, waits
  for nobody. A won dispute outranks a queued refund of the same lifetime plan, which
  stays active without its money (`entitlements.ts:198`, 208-213). A checkout handled
  while it is disputed is rejected and acknowledged; a superseded subscription is
  tested before the write it guards; a lifetime plan restored by a won dispute stands
  beside a live subscription; the refund of one that had been contested and then
  replaced takes the plan from the team although the later one is active
  (`entitlements.ts:191-195`, called at 281, looks for no other); `postGrantFollowup`
  returns false when a preserved row was reopened, and the event is acknowledged
  without a grant.
- *Top-up and card.* Enabling discards the marker of a payment that may still settle,
  so a second one is charged, which `autotopup.ts:294-299` means to exclude. A refund
  looks at the claim, the grants and the recoveries (`ledger.ts:215-243`): a payment
  made since the refund that is none of these - after a disable, or with its marker
  discarded - is passed by and kept. A recovery keeps the earliest refund only, so a
  consent between two refunds protects a payment made after the second
  (`autoTopupRecovery.ts:72-81`); and an earlier refund heard of after the money went
  back, but before that is recorded, can call the payment protected, which leaves
  credits of a payment that was returned. `savePaymentMethod` disables in one write
  and stores in another, so consent given between them covers the old card
  (`webhooks.ts:508-561`). Card events decide by a read made earlier
  (`webhooks.ts:1142`, the tie of a second retried at 1162-1178; reconciliations of
  one second at 1134-1135), and a handler that dies at 1633-1650 loses the card.
- *Refunds.* The handler finds no owner, the grant commits, and the observation is
  stored for nobody (`webhooks.ts:699-709` against `ledger.ts:256`): the refund pauses
  nothing until the next one of the charge.
- *Checkout.* Two tabs that replace an expired session leave two payable ones
  (`checkout.ts:280-283`, 304); a save after fulfilment opens the attempt again; a
  `refunded` verdict leaves the attempt open (`webhooks.ts:1729`). Mercado Pago's
  checkout accepts an attempt that awaits a manual refund
  (`mercadopago/checkout.ts:116-122`), whose second payment's webhook then throws for
  ever.
- *Sign-in.* Two tabs do overwrite each other's cookie (`legal.ts:78-81`,
  `channelConnect.ts:24-26`: "never overwrite one another"); a form sent twice files
  the consent twice; consent for an account erased meanwhile mints a session of the
  tombstone.
- *Retention, digest, deletion.* An account funded and spent again between two
  evaluations keeps its countdown. In stored mode two runs that overlap under a lapsed
  lease digest the same comments twice (`feedbackDigest.ts:226-227` says otherwise). A
  revocation whose answer was lost leaves a row that is served for ever. A request
  that outlives its erased account may create a team or an invite.

## 5. Proofs

Everything below holds for all values of the constants, from the named `ASSUME` of the
module (`ConstantsAssumption`, `CronAssumption`, `ConstantsOK`: types, finiteness, and
that the placeholder is no member of the sets). No other assumption is made except where
a theorem states it. The bounds on faults and acts are constants like any other, so the
theorems hold for any number of them.

| Theorem | States |
|---|---|
| `EnforcementProofs.TypeCorrect` | types of the variables |
| `EnforcementProofs.SingleDispatcher` | `[]OneDispatcher`, for any number of overlapping runners |
| `EnforcementProofs.SpecImpliesClaimsKept` | `[]ClaimsKept`: a decision is never lost while the comment waits for it, and a finalizer finds the claim it was sent for |
| `EnforcementProofs.FenceKeeps` | `FenceHolds`, an action property |
| `ModerationProofs.SpecImpliesHandlesKept` | the list of protected authors |
| `ModerationProofs.SpecImpliesProtectionExact` | `ProtectionExact`, an action property of the step that stores verdicts |
| `CronProofs.SpecImpliesRowsOK`, `...LeaseExclusive`, `...TurnOwed` | types, lease, turn |
| `CronProofs.SpecImpliesRotationNeverRewinds`, `...PreviewResolvedOnce`, `...OutcomesStand` | action properties: late runs rewrite nothing |
| `CronProofs.ScheduledImpliesRotationBound` | `[]RotationBound` |
| `LedgerProofs.SpecImpliesTypeOK`, `...DebtBounded`, `...PaidIsHonoured` | types, the bound of a debt, buyers answered |
| `LedgerProofs.SpecImpliesEventsHonoured` | `[]EventsHonoured`, however often a charge is disputed |
| `LedgerProofs.SpecImpliesChargesExact` | an action property of every charge |
| `LedgerProofs.SpecImpliesKeepsPromise` | refinement of `LedgerSpec`, however often a charge is disputed |
| `TeardownProofs.SpecImpliesNothingForgotten`, `...PaymentSettledFirst` | both safety properties of `teardown` |
| `ServicesProofs.SpecImpliesNeverErasedUnwarned` | retention |
| `ServicesProofs.SpecImpliesMailKept` | welcome and contact mail |
| `ServicesProofs.SpecImpliesTeamKeepsOwner` | teams |
| `ServicesProofs.SpecImpliesMercadoKept` | Mercado Pago |
| `ServicesProofs.SpecImpliesTraversalCovers` | the enrolment of older accounts, an action property |
| `ServicesProofs.SpecImpliesPreviewCovers` | `[]PreviewCovers`: previews |
| `ServicesProofs.SpecImpliesNothingSkipped`, `...EveryVerdictPaid` | the two parts of `ChannelKept` about scans |
| `ServicesProofs.SpecImpliesRescanCovers` | `RescanCovers`, an action property |
| `ServicesProofs.SpecImpliesScanDigestsEach`, `...DigestsPaid` | the two parts of `ChannelKept` about digests |
| `ServicesProofs.SpecImpliesChannelKept` | the four together |
| `BillingProofs.SpecImpliesCheckoutsKept` | checkout attempts |
| `BillingProofs.SpecImpliesMandateKept` | refunds against consent |
| `BillingProofs.SpecImpliesCardKept` | the saved card |
| `EntitlementProofs.SpecImpliesSlotsHeld` | `[]SlotsHeld`: slots, lifetime entitlements and plans |

**Enforcement** (`EnforcementProofs`). The inductive invariant
`IInv` has five parts. `TypeOK` alone is not inductive: a replay looks up the verb of the
intent a claim is bound to, and a corrective write takes its status from what the runner
has read. `ClaimHasIntent` gives the first, and needs `ClaimsKnown` (an unused request
has recorded nothing, so its id is fresh). `WorkKnown` gives the second.
`ReservationHeld` says that a process in mid-dispatch owns the stored reservation and,
for a human write, the claim it was made for. It is kept because a step is `Orderly`:
only one process moves (`Alone`), and it `Respects` what others have reserved. `ClaimsKept` joins
`ClaimHasIntent` with what `ReservationHeld` says of a finalizer.

**Verdicts** (`ModerationProofs`). `ListInv`: an id is never given twice, a list is of the
team that is connected, and whoever is about to add a handle holds the very connection it
asked for. With the last part a request that began before the channel changed hands adds
nothing to the next team's list. `BatchInv` says what a proof a run carries is worth later:
it is about a row whose id no other row bears, then or since, so a handle that was deleted
and listed anew is a row without proof; and while the run's connection stands, a proof that
names nobody is about a handle no author of a waiting comment has (`Faithful`).

**Cron** (`CronProofs`). `RowsOK` is inductive; its hard part is that a renumbered stamp
stays in range, which counts the stamps in use (`RenumberRange`). `LeaseExclusive` is
inductive with it: a step either takes the lease of a free channel (`TakesFree`) or gives
up at most its own (`GivesUp`), and time passes for both sides alike. For the rotation,
`InOrder`: whoever may still record a run was claimed no earlier than the run the row
records; a claim keeps it because renumbering is monotone (`RenumberMonotone`). For
previews, `Plantings`: a resolving write asks for the pending status, and nothing plants a
second preview, because a channel with one is used and a planter is alone with it.

**Rotation** (`CronProofs`). The bound counts who still stands before a channel:
`Threats(c)` are the channels that had no turn since. `Patience` says that what `c` was
passed over, plus two for each threat, is at most `2(N - 1)`, two for each event, and one
if the next turn is a live run's. A live claim takes a threat away (its claimer goes
`Behind`), a preview is taken at most once between two live claims, and an event can make
at most one new threat. A first bound of one claim per fault was false: with a long stale
time a late preview costs two. The theorem is of `Scheduled`. Under `Spec`, where runs
may outlive their lease, a channel whose run always does is passed over without end.

**Ledger** (`LedgerProofs`). `Inv` joins types, the queued reversals (`Named`), what each
handler may rely on from what it read steps ago (`Founded`), and
`AllAnswered`: each acknowledged event left behind what answers it. `DebtBounded` counts
grants withdrawn and not restored. The refinement maps `standing` to the anchors of a
charge; every step of a handler changes one charge's anchor and the balance as one step of
`LedgerSpec` does, or neither. A charge may have any number of disputes. `LedgerSpec`
counts restorations by dispute (`given`), because two disputes of a charge that were both
reversed and won are both restored (section 4); and an acknowledged dispute may be answered
by the win of another one whose queued row stood for both.

**Teardown** (`TeardownProofs`). `NothingForgotten` speaks of states with no request under
way; its invariant has to follow one through its two writes. `CustomersKept`, `MailsKept`
and `GrantsKept` say where a customer, an e-mail or a live grant is accounted for: with its
members, in an outbox, or with the request that is storing it. They need that an erased
account is nobody's member (`Membership`), that a dissolved organisation does not come back
and its rows are of stored customers (`Rows`), that a drain drops a row only after the
provider's confirmation (`Jobs`), and that a grant in an outbox is never given again
(`Spent`), so that the late answer to a revocation is about the same grant.

**Services** (the second half of `ServicesProofs`), by machine:

- *Retention*: a countdown bears a warning only if a mail was delivered a notice after it
  began (`WarnedOK`); a sweeper that delivers one read such a countdown (`WarningOK`), and
  one that erases read a warning of this very countdown and a grace that is over.
- *Contact*: the copies sent, the claims that may still send one and a row that can be
  claimed make no more than one plus the failures so far, for every request (`NoticeOK`);
  the claims are counted as a finite set.
- *Welcome*: whoever submits, or has submitted, a welcome is alone with its row, and that
  row is past every claim. So a row that a sweep may take up has reached nobody.
- *Traversal* (`TravelInv`): a mailer in a traversal holds a token of its own. If that is
  still the stored one, everybody before the account it is at is enrolled, passed over or
  not there, and everybody up to the end when it releases the traversal as done. A mailer
  whose token was replaced writes nothing, so two that overlap do not skip accounts.
- *Mercado Pago* (`MercadoInv`): what a notice told is true of the payment (`ToldTrue`); a
  handler read the payment no earlier than it was told (`ReadingsOK`), so a payment that
  was seen to go back stays gone; the checkout that accepted one payment is closed to the
  others (`CheckoutsOK`); a payment that went back leaves no grant, or one that is taken
  back (`WithdrawnOK`), and the credits are counted over finite sets (`CreditsCount`).
- *Teams*: an open link leads to a team with members; a request that removes or demotes
  read its target below owner, or finds another owner in its transaction (`Spare`); an
  erased owner's successor is one of the other members. A write on an owner that was read
  with a lower role sets `overtaken`, which is what the finding above is about.

**Entitlements** (`EntitlementProofs`). `Inv` says that what a handler works on fits its
step (`WorkersFit`); that whatever speaks of a dispute - an event, a handler, a queued
reversal, a disputed entitlement - is about a payment that has one (`DisputesKnown`); that
an entitlement has a slot exactly while it is active or disputed, and no slot is shared
(`SlotsOwned`); and that a team has one active entitlement, which its cached plan follows
(`OneActive`, `PlanFollows`). `DisputesKnown` is needed because only a release of what was
once disputed can take the plan of another entitlement (section 4), which `Downgraded`
excepts. The theorem is for any number of overlapping handlers, where the run has one.

**Channel** (the first half of `ServicesProofs`), by machine:

- *Preview* (`TrialInv`): what a row or a job on the row it claimed calls reached has been
  audited (`ShelfOK`, `JobOK`), so the page token of one is as good as that of another and
  a late save does no harm. A job that outlived its row is told by the stamp of its claim
  (`PlacesOK`); the one case it is not told by is `crossed`.
- *Scan* (`ScanInv`): from the page token up to where the scan began every comment is staged
  (`CheckOK`), and from `floor` up to the cursor (`Under`); so it is for the checkpoint a run
  has loaded, whose page joins the rest without a gap (`PassOK`, `PageOK`), also when that
  checkpoint is stored late (`SameOK`). `RescanAbove` is the part that was found by failing: a live run that began
  before a rescan was planted ends by moving the cursor, and may do so only because the
  rescan covers everything above the cursor that run had read.
- *Money* (`ScanMoney`, `DigestMoney`): what was bought is what is left and one credit for
  each member of the set of charges; a charge takes the first of the comments still owed
  (a prefix of a finite set, counted).
- *Digest* (`DigestInv`): what was told of the scan under way is what the rows say, and all
  of it from the token on (`AskOK`); a run whose checkpoint is the stored one holds in its
  batch or finds told whatever lies beyond the place it will store (`BatchOK`).

**Billing** (`BillingProofs`), by machine:

- *Checkouts* (`CheckoutInv`): a link that was shown and can still be paid, or was, is the
  row's (`RowLeads`); a tab that read the row's key has read its session, or will be
  answered with it (`TabAgrees`), which is what the idempotency key is for; a session is
  replaced only when it has expired (`TabReads`).
- *Refunds* (`RefundInv`): the news of the last refund is still on its way, or its instant
  is the observation's; a claimed observation leaves no consent from before it, nor a form
  that would store one (`ObservedOK`, `Lagging`); a handler of the last refund has the
  whole sum (`HookLast`). Owner, page and wish are tied by `OwnerOK`.
- *Cards* (`CardInv`): there is a second `d` of the last change of the default such that,
  until two handlers raced, whatever is still wrong - a cursor behind `d`, a handler that
  would store another card (`Misleads`), a copy that is nobody's - is outlived by the event
  of that change, waiting or being handled (`Carried`), or by a hosted checkout.
  `ConsentOK` follows a handler between its two writes.

Only model-checked:

- `IntentDecided`, `ActionResolves`, `PreviewsResolve`, `EventsSettle`,
  `ErasureCompletes`: liveness under fairness, which TLAPS cannot prove.
- `VerdictsHold`: its invariant must say what each local snapshot of a runner means, at
  each of its steps.
- `BooksMatchStripe`: relates every order of delivery to Stripe's final word.
- `BuyersAnswered`, `PlanIsTrue`: the same for subscriptions, payments and periods.
- `RulesExact`, `RecurrenceTrue`: what a scanner or a grouping computes over a sequence
  needs induction over data. So does `SignInKept`, whose cookie is a sequence that flows
  filter.
- `TopupsKept`: not proved yet.

## 6. Not modelled

Left out because nothing of interest happens between two of their steps: usage summaries,
pricing validation, the calendar sweeps of consent e-mails and handles, the fourteen-day
sweep of pending reversals, `reverseSessionGrant`, the operator's manual mail batch.

Left out because it is computation over text or remote AI: matching of rules, scoring,
classification, ranking, redaction, sanitising; the models' answers are arbitrary values.
The scanner of patterns takes one sign for all ordinary characters; `recheck` is external,
and a pattern longer than 256 is refused before it.

Left out for size: the renewal of a subscription (each has one invoice), scans and drains of rows planted before scan nonces existed, the guard
that parks a run under `DRY_RUN`, cookie lifetimes and renewal, disconnection during
sign-in, won chargebacks at Mercado Pago, customers deleted at Stripe during a refund, the
health columns of the cron. User interface, blog and translations hold no server state.

## 7. Plan

1. Proofs next: `TopupsKept`, whose invariant must follow a payment from its claim to the
   refund that stops it.
2. An abstract specification of one comment (undecided, claimed, decided) that
   `Enforcement` refines, as the way to `HumanVerdictStands`.
3. `HumanRecovery`: the persisted cursor of `reconcileRestoring` and `recoverRestore`.
