# Bürgerwecker: a verification project

Bürgerwecker watches the appointment calendars of German citizens' offices and tells
subscribers, by mail or by push to the app, when a matching appointment becomes free. This
directory models the parts of the server that carry its promises to subscribers, checks
the models with TLC on small instances, and proves the most important properties with
TLAPS for every instance.

Contents: [1 The system](#1-the-system) · [2 The plan](#2-the-plan) ·
[3 The models](#3-the-models) · [4 The runs](#4-the-runs) ·
[5 Fairness](#5-fairness) · [6 The proofs](#6-the-proofs) ·
[7 Where the code and its documentation disagree](#7-where-the-code-and-its-documentation-disagree) ·
[8 What is not modelled](#8-what-is-not-modelled) · [9 Running the checks](#9-running-the-checks)

## 1. The system

Two programs share one SQLite database (`app/db.py`, WAL mode, `BEGIN IMMEDIATE` for
every transaction that decides before it writes):

- the **web** process, several workers of one Flask application: the website
  (`app/web.py`), the app's JSON API (`app/api.py`), the providers' webhooks
  (`app/webhooks.py`), the operator's pages (`app/admin.py`);
- the **poller**, one process with one main loop (`app/poller.py`): each minute, once a day
  the housekeeping (`app/housekeeping.py`), then the unproven device tokens, then a cycle
  (`app/cycle.py`) that polls the cities that are due, stages digests (`app/digest.py`) and
  flushes them through the mail batch (`app/mail.py`) and, in a thread beside it, the push
  batch (`app/push.py`); last the queued confirmations (`app/confirmations.py`) and the
  parser canary.

Nothing but the database is shared, so every interaction is a read or a write of a row by
one of them between two steps of the other. A restart of the poller loses what it holds in
memory, and every network call may fail, time out after it was accepted, or be answered
late.

### Inventory

For each component: its state, its operations, what is hard about it and what makes it
correct. The status of each is in `PROJECT.json` ("components"), the single hazards, each
at its line, under "hazards".

| Component (files) | State | Operations | Hard behaviours | What makes it correct |
|---|---|---|---|---|
| **Poll cycle and digest delivery** (`cycle`, `digest`, `poller`) | `seen_slots`, `last_notified_at`, `city_state`; in memory: snapshot of subscriptions, staged digests, results of two batches | poll, count, check, `send_digest`, `flush_digests`, record | two concurrent batches; restart between a provider's acceptance and the record; quota shared with other mail; subscriptions that change meanwhile; polls that fail in part | nobody recorded as told who was not; nobody told twice but for a lost record; the longest-waiting first on one queue over both channels; everyone told in the end; a failed poll is never read as an empty one |
| **Plan cap and the two front doors** (`planning`, `web`, `api`, `repo`) | subscription rows with their filters; nothing else, the counts are queries | subscribe, confirm, renew, manage; create, update, renew, delete of the app; `build_plans` | judgements on rows read before the transaction; conversion of services from mail to app; long legal sequences | the city's site is polled for a bounded number of services whatever is signed up |
| **Subscription term** (`housekeeping`, `repo`, `web`, `api`) | `expires_at`, `reminder_sent_at`, `deleted_at`, `consent_special_at`, the claim of the check-in | sign-up, confirm, renew, edit, unsubscribe; purge, clamp, soft delete, two check-in steps | handlers between a step's read and its write; failing steps, crashes, days without a run | every term asks exactly once; no row outlives its retention |
| **Mail batch** (`mail`) | `sent_idempotency` (claims), `email_failures`, `email_suppressions` | `send`, `send_batch`, `_claim`, `_deliver`, `pool_room` | partial acceptance, lost answers, provider failover, process death between two transactions | one mail per key, windows kept, strikes only for unanimous refusals, the tail of the queue is what is deferred |
| **Push batch** (`push`) | devices' tokens, `dead_since`, `sent_idempotency`; in memory: what was delivered, whom the relay called dead, a budget | `send_batch`, verdicts of the relay, retirement on evidence, release | rows that change while their answer is on the way; wrong settings that make every phone look dead; a restart between claim and record | only the dead are retired; the same promise as the mail batch |
| **Device registration and verification** (`api`, `push`, `repo`) | rows with a token, two secrets, the stored code, `verified_at`; `verify_attempts` by token | register, change of token, verify, resend, delete, subscribe; sweep, claim, record, retire, prune | handlers that authenticate before they write; two senders on one row; an old code for a new token; strangers who know the token; records that outlive rows | a row is verified for the phone its token reaches; what a person put on a row stays theirs; each kind of request spends its own budget |
| **Confirmation queue** (`confirmations`, `signup`) | `confirmation_sent_at` | enqueue, drain within a share of the pool | a crash after delivery; a queue head that never succeeds | one confirmation per sign-up; the reserve of the day is kept; the queue does not starve |
| **Webhooks and suppression** (`webhooks`, `repo`) | `email_suppressions`, soft-bounce counts | bounce, complaint, delivery, re-arm | events late, repeated and out of order | nobody live at a dead address; a complaint stands whatever came before it |
| **Rate limiting** (`ratelimit`, `api._token_gate`) | `rate_events` by bucket (a network and its /48); windows in one worker's memory | hit of several buckets, wait, record, prune | several workers; a request that one bucket lets in and the other refuses; check and insert apart; devices deleted while they count | a place is taken by who was served; the wait that is told suffices; what is checked first and filled later is passed by one per worker |
| **Cadence** (`cycle`) | per-city last poll, streaks, pressure | which cities are due | ladder and cap interact | every city is polled in the end |
| **Seen slots under day keys** (`models`, `catalog`, `repo`) | `seen_slots.best_time` | stage, record, prune | an earlier time on a known day is news; the record is written long after the check | a digest names all the news of its day and nothing else; the recorded best time only falls |
| **Snapshots, overview** (`snapshots`, `api`) | last good poll per service | write, prune, read | a cycle in which some polls failed | the page shows a poll that happened, whole |
| **Parser canary** (`housekeeping`) | `zero_match_since`, `failing_since`, alerts | alarms in their hours | marks of a city nobody polls any more | an alarm is earned by every poll of its threshold |
| **Catalog and its sync** (`catalog`, `catalog_sync`) | catalog files and tables | load, merge | upstream changes under live filters | no filter loses its service |
| **Scrapers, filters** | none | parsing, a predicate on one slot | foreign formats | — |
| **Database layer** (`db`) | — | transactions, cascades | what is inside and outside a transaction | the granularity of every action below |
| **Admin, analytics; tokens, configuration, integrity, HTTP session; texts and templates; mobile client; scripts and deployment** | reporting, or none | — | — | — |

### How the components interact

- The **front doors** write subscription rows; the **cycle** reads the active ones once at
  its start (`active_subscriptions`) and lets `build_plans` derive its polls from them.
- **Digests**, **check-ins** and **confirmations** all go through `mail.send_batch`, one
  after another in the poller's main loop; web workers send single mails (`mail.send`)
  beside it, which take up the same providers' windows.
- **Push** runs in its own thread while the mail batch runs; `flush_digests` joins both
  and only then records.
- **Webhooks** and third refusals put addresses on the lists the batches read.
- **Deleting a device** cascades to its subscriptions and their `seen_slots` rows in
  whatever step the poller is; the records of its token's attempts stay.
- **Verification codes** go out from two places, the web worker that took the request and
  the poller's sweep, through batches of their own beside the flush's push batch; all of
  them judge the same rows.
- **Housekeeping** asks before a term ends, stamps the row by id after the batch, and
  prunes `seen_slots`, `sent_idempotency`, devices and addresses between two cycles; the
  **canary** reads what the cycles counted.

## 2. The plan

The order follows what a subscriber would notice first.

| # | Module(s) | State |
|---|---|---|
| 1 | `DigestDelivery`: the cycle from snapshot to record | built; safety proved, liveness checked |
| 2 | `PlanCap`: the two doors and the cap | built; every property proved |
| 3 | `SubscriptionTerm`: term, check-in, retention | built; every property proved |
| 4 | `MailPromise` (abstract) and `MailBatch` (detailed) | built; safety and refinement proved, liveness checked |
| 5 | `Confirmations`: the queue, its share of the pool, bounces and complaints in any order, re-arming by a new sign-up | built; safety proved, liveness checked |
| 6 | `DeviceVerification`: tokens, codes, credentials, with handlers and senders interleaved | built; every property proved |
| 7 | `VerifyBudget`: how often a code goes out to a token | built; every property proved |
| 8 | `PushBatch`: verdicts, evidence, retirement; implements `MailPromise` | built; every property proved |
| 9 | `PollState` and `PollCycle`: day keys, snapshots and the canary behind polls that may fail | built; every property proved |
| 10 | `RateState` and `RateLimit`: the limits the web workers share | built; every property proved |

How they compose. `MailPromise` is what a caller of a batch may rely on: `MailBatch` and
`PushBatch` are shown to implement it, and `DigestDelivery` and `Confirmations` use batches
that do just that. `DigestDelivery` and `PollCycle` are two views of one cycle, the first of
its deliveries, the second of its polls. `DeviceVerification`, `VerifyBudget`, `PushBatch`
and `RateLimit` share the device rows: who a row belongs to, how often its token is pushed
to, when it is retired, and who may ask at all; each takes the others' steps as steps of its
environment, without their guards, so that what it shows holds whatever they decide.

What is left for later, in this order: a module for the adaptive ladder and the pressure cap,
which only lengthen a city's rest; the heartbeats and the summary mail.

## 3. The models

Every module keeps the code's names where TLA+ allows. An immediate transaction is one
action; a read before it (in a handler or in the poller) is an action of its own, and
everything else may happen in between. Definitions that begin with *Mutant* state a
plausible mistake in the definition after them; nothing else uses them. The exact lines
each definition stands for are in `PROJECT.json` ("map").

### DigestDelivery

One cycle at a time, as in the poller. `pc` is `run_cycle`'s position; `snap`, `news`,
the two queues, `sent`, `delivered` and `recorded` are its locals and forgotten when it
returns, raises or dies (`Forget`, `Restart`). `seen`, `older` and `resting` are database
state: `seen_slots`, the order of `last_notified_at`, and who is inside a rate gap or at a
daily cap. Timestamps appear as the order they induce: a flush stamps everyone it records
with one time, so `Record(s)` puts `s` behind everyone not recorded in this flush.

- `StartCycle` reads `active_subscriptions`; `Stage` is the check and `send_digest` of
  everyone with news, and the opening of both batches with `_behind_the_mail_wall` and
  `_past_the_confirmation_headroom` applied to one queue.
- `MailAccept`, `MailRefuse`, `MailOutage`, `MailDone`, `MailRaises` and `PushAccept`,
  `PushSkip`, `PushDone`, `PushRaises` interleave: the batches run side by side. They do
  here what they promise (`MailBatch` models the mail batch itself).
- `JoinBatches`, `Record`, `RecordRaises`, `EndCycle`: the results, then one transaction
  per delivered digest. A subscription erased meanwhile breaks a foreign key, and the
  exception ends the flush.
- The world: slots come and go, subscribers leave and return, devices are erased,
  addresses die, other mail is sent, windows slide, records of a week ago are pruned.

`told` and `lost` are histories for the properties; the code has no counterpart.
`LossNeedsAFault` and `PassedOverWaitedLess` state what comments say and no run checks
([7](#7-where-the-code-and-its-documentation-disagree)).

### PlanCap

One city: caps of different cities do not interact. A row is `none`, `pending` (waiting
for its confirmation), `lapsed` (the same with its term over), `live` or `expired`;
`filter` is its service and set of offices. `Owner` is the device of an app row. `CapRefusesMail` and `CapRefusesApp` are
`planning.cap_refuses` for a website and an app subscription, `ShareRefusal` is
`api._share_refusal`. `ReadForConfirm` and `ReadForRenew` are the handlers up to their
transaction, `Confirm`, `RenewMail`, `RenewApp` the transactions, judged on the filter
read first, as the code does. `BuildPlans` is what the poller makes of the rows.
`stale` counts acceptances on a filter the row no longer had.

### SubscriptionTerm

Time is counted in days; the housekeeping of a day runs once, anywhere between that day's
handlers. `left` is `expires_at` minus today, `latched` is `reminder_sent_at`, `claim` the
claim of the check-in's key, which names the expiry date: an expiry that moves leaves the
old claim behind (`MoveExpiry`). `Clean` is `_purge_hard`, `_clamp_expiry` and
`_soft_delete_expired` in this order (single statements, taken to succeed); `OpenMail` ..
`CloseMail` and `OpenPush` .. `ClosePush` are the two check-in steps with their batches,
during which handlers go on; `StepRaises` and `Crash` end them early. `NextDay` may pass
without a run (`MaxFaults` bounds how often). Handlers: sign-up on both doors, `Confirm`,
`ReadForRenew`/`Renew`, `Edit`, `Unsubscribe`, loss and return of a device's proof.

### MailPromise and MailBatch

`MailPromise` is the docstring of `send_batch` made precise: an item is recorded as sent at
most once until its record is pruned; when the batch returns every item is recorded or
free to be tried again; only a batch that does not return leaves orphans.

`MailBatch` is the code: `Open` claims in one transaction what is not sent, not claimed
and not addressed to a dead address (the lists are read just before the claim, in one step
with it); `NextProvider`, `Call`, `Accept`, `Refuse`, `Answered`, `ProviderFails` and
`Leave` walk the chain chunk by chunk within each provider's window; `Strike` and `Defer`
are the two final transactions; `Dies` is a raising write or the end of the process,
anywhere. A call's items are judged one by one: the first `n` verdicts of a call are what
a provider with verdicts per message returns, and equally what bisection has found out
when the provider fails half-way, so that both are the same actions. A mail a provider
took without the answer arriving is a *doubt*. There is one batch at a time because every
caller runs in the poller's main loop; the web workers' `send` uses keys of its own and
looks at no window (`OtherMail`). One window per provider, freed nondeterministically,
stands for its hourly and daily one.

`KeepsThePromise` is the refinement: `running` is "not idle", `open` the items in flight,
`recorded` the claims with a provider's name, `orphan` the pending claims nobody works on.

### Confirmations

A row id is a sign-up; ids are given out and served in order. `Asks` is `POST /subscribe`
up to its look at the suppression list, `SignUp` its transaction, which inserts the row and
lifts a bounce (`Lifted`); anything may happen between the two. `Blocked`, `SoftBounce`,
`Delivered` and `UnsubscribedThere` are the events of `apply_events` in any order and
number, `PruneBounce` and `ComplaintLapses` the two retentions of `_prune_suppressions`.

The poller: `Pick` reads the queue without its dead addresses and cuts it to
`confirmation_room`; `Claim` is the opening of `send_batch`, which reads the dead addresses
once more; `Accept` and `Decline` are the verdicts of the batch as `MailPromise` promises
them; `Mark` is `set_confirmation_sent`, row by row; `Dies` is a death or a raising write
anywhere in between, so that a mail may be out without its record, or recorded without its
mark. `young` is the retry window of seven days, which a claim's fourteen outlive
(`PruneClaim`). The pool is the rolling day: `counted` confirmations and `beside` other
mails, which `Digest` fills up to the headroom. A pressure line is configured; without one
the queue is not cut. The hourly windows are in `MailBatch`.

`complained`, `mails`, `doubts` and `past` are histories for the properties.

### DeviceVerification

A row of `push_devices` is a record: its token, its two secrets, the stored code and whom
that code reached (`known`), the timers that matter, and the persons who subscribed on it.
`Phone` says whose phone a token reaches; `Honest` persons run the app, which names its own
phone's token, everybody else names any token they like. Secrets and codes are random, so
a secret belongs to the caller it was handed to (`Holder`) and a code to the phones it was
delivered to.

A handler is two steps, as in the code: `Call` reads the credential (`authenticated`,
`device_owner`, `any_credential`) and `Put`, `Delete`, `Verify`, `Resend`, `Subscribe` are
the transactions after it, each with the condition its statement repeats, or does not
(`Resend` and `Subscribe` go by the id). `RegisterNew` and `RegisterKnown` need no
credential. The senders, a web worker or the sweep, go `Pick`, `Claim`, `Open`, `Deliver`,
`Mark` or `Retire`, and everything may happen between two of these; `Stop` is a refusal, an
outage or a death. `CodeAges`, `Lapse`, `EndSubs` and `Prune` are time and housekeeping.
Ids are not reused: one is new again when nothing at work remembers it (`NewId`).

### VerifyBudget

One token and the row that names it; the row may be deleted and registered anew
(`DeleteAndRegister`), and the record of attempts stays. A request is the owner's or open
(`Requested`, where an open one joins an owner's that still waits). `credited` and `bare` are
the attempts of the rolling day, `recent` the minute between two of them. A sender goes
`Pick` (or `Hold`), `Claim`, `Relay`, `Record`; the outcome of its batch is a delivery, a
refusal with evidence that the platform works, one without, or nothing. `RelayRetires` is the
retirement that `PushBatch` decides. Timers of a minute end together (`MinutePasses`): each
of them only ever holds a push back, so that ending one early allows no less than the code.
`ConfigFixed` is a restart with corrected settings, which forgives the bare refusals.
`charged` and `arrived` are histories.

### PushBatch

A batch belongs to a process: the flush's thread, or a sender of verification codes. `Start`
reads the live devices and claims the items in one transaction; an item is a device and the
token it was made for, which by the time of the answer may be another phone's. `Deliver`,
`CalledDead`, `Refuse`, `Throttle` and `GiveUp` are the answers, in any order over the items;
then `Judge`, `Retire`, `Hold` and `Return` are the transactions after the loop, one by one,
with handlers and other batches between them. `dead` is `dead_since` together with whether
`sent_idempotency` shows a delivery since. `right` says whether a process was started with
the right settings; under wrong ones the relay calls every token dead, and nothing is
delivered. `alive` is the ground truth and `story` the history that `RetiredIsDead` excepts:
a living phone was called dead by a process with wrong settings, and then something was
delivered on right ones, before the phone answered again.

`KeepsThePromise` is the refinement of `MailPromise` by the flush's batch: `open` are its
claims, `orphan` the pending claims of a batch that died.

### PollCycle

One city with one watched service that several plans cover, one office and one day. `Poll`
brings all slots, or after a failure some of them; `Count` is the transaction on `city_state`,
`Shoot` the snapshot, `Stage` the candidates under the day key with the horizon applied,
`Flush` the delivery and the record, or one without the other; `Skip` is a cycle that raises
or a city that is not due, `Restart` the end of the process. `Canary` is
`_check_parser_canary` after the cycle. Ages are counted up to the threshold. The record of
a day is its best time, `Unknown` for rows from before there was one. `heard`, `good` and
`shown` are histories: what was delivered and recorded, and how long every counted cycle has
failed or found nothing. The state and the properties are in `PollState`, the actions in
`PollCycle`.

### RateLimit

An event is known by its age in ticks; `Window`, `Hour` and `Day` are the limits' lengths.
`Admit` and `Refuse` are `_token_gate` with `db_rate_hit_all`, in one transaction over the
network's bucket and its /48's; the count of unverified tokens decides only whether the push
goes out at once (`defer`). `RecordNewDevice`, `CheckIntegrity` and `FailIntegrity` are the
rest of the request, by a worker of its own; `AskEmail` and `Insert` are the sign-up on the
website. `Verify` and `Lose` are what happens to a device while it counts, `Prune` the
poller's prune with `RATE_EVENT_LIFETIMES`. `served` and `told` are histories.
The state, the counts and the properties are in `RateState`, the actions in `RateLimit`.

## 4. The runs

| Run | Shows | Instance |
|---|---|---|
| `DigestDelivery_safety` | `SeenWasTold`, `ToldOncePlusLosses`, `QuotaKept` | one mail and one app subscriber, both of whom leave, die or are erased; one slot; quota 1 in both windows; one crash or raising batch; one foreign mail |
| `DigestDelivery_told` | `HeadroomKept`, `OneQueueOneWall`, and under fairness `PersistentSlotIsTold` | two mail and one app subscriber, one slot; one mail an hour, three a day, headroom 1 |
| `PlanCap_cap` | `PolledBound`, `PlansBound`, `AppCeilings`, `ExcessOnlyByConversion`, `NoRenewalPastTheShare` | two mail rows and two app rows of one device, three services, two sets of offices, cap 1 (share 0), ceilings of 2 rows, 1 service and 1 row a city, one request in flight |
| `SubscriptionTerm_term` | `NoSilentEnd`, `AskedOnce`, `SensitiveTermKept`, `RetentionKept` | one subscription of either kind, terms of 5 and 3 days, a window of 2, two faults |
| `MailBatch_batch` | `OneMailPerKey`, `EveryProviderRefused`, `TailDeferred`, the refinement `KeepsThePromise`, and under fairness `ClaimIsSettled` | two items to one address, two providers (`MCBatchSize`, `MCQuota`), strikes and systemic guard at 2, one fault, one foreign mail |
| `Confirmations_queue` | `OneConfirmation`, `LiveIsMailable`, `FloodBound`, and under fairness `HeldGoesOut` | two sign-ups of one address, three mails a day, pressure line 1, reserve 1, headroom 2, suppression at the second soft bounce; one crash, one foreign mail |
| `DeviceVerification_rows` | `BitFollowsToken`, `SubsStayWithTheirOwner`, `AccessOutlivesStrangers` | one row; Ada, honest, whose phone changes from `t1` to `t2`, and Eve with `t3`, who knows all tokens; two secrets of Ada's and one of Eve's; two workers, two senders, two of these at work at a time |
| `VerifyBudget_token` | `BudgetsHold`, `StrangersSpendTheirOwn`, `SentCodeArrived` | a web worker and the sweep, budgets of 1, ceiling 3, one failure per request, retirement at two bare refusals |
| `PushBatch_evidence` | `RetiredIsDead`, the refinement `KeepsThePromise` | two devices, two tokens, the flush and one other sender, two items at a time |
| `PollCycle_day` | `DigestIsTheNews`, `RecordIsTheBest`, `SnapshotIsWhole`, `AlarmsAreEarned` | three times of a day, a horizon of two, a threshold of one tick |
| `RateLimit_gate` | `PlacesAreServed`, `RetryAfterSuffices`, `ImmediateBound`, `CheckedThenFilled` | two workers, two networks of one /48, token requests limited to 1, 2 and 2 in a window of two ticks, every other limit 1, three tokens |
| `Confirmations_complaint` | the disagreement of section 7 | as small as shows it |

Why the bounds are enough. The properties speak of one subscriber, of a pair of digests on
one queue, of one row's term, of one key, one token or one bucket; the instances have one or
two of each and the contention that matters: a window smaller than the queue, a cap smaller
than the services, a chain of two providers so that a refusal is handed on, a second item so
that a call can be judged in part. The two sign-ups of `Confirmations` share an address, so
that the second may follow a verdict on the first, and the pool is past its line after one
mail, so that the reserve decides about the other. The terms of `SubscriptionTerm` leave a
day before the window, two days in it, and room for the clamp between the two retentions.
`PlanCap` leaves no share to the app, so that every polled service but one is an excess; its
theorems hold for every cap. One row is enough for `DeviceVerification`, since rows meet only
in the test that a token is in use; two requests at work are one overtaking another. Two
devices in `PushBatch` let one's delivery be the other's evidence. Three times of a day in
`PollCycle` are one told, one better and one worse, and a horizon of two leaves one of them
out. In `RateLimit` one network fills up before its /48 and the other with it.

`MaxFaults`, `MaxOther`, `MaxStale`, `MaxRequests`, `MaxInFlight` and `MaxItems` bound what
the code does not bound. Where a property depends on such a number it states it as slack
(`1 + lost[s]`, `+ others`, `+ stale`, `+ Overlap`), so that raising a bound weakens nothing,
and the theorems hold for all of their values. Ids break ties between equal timestamps
(`MCId` interleaves the channels, so that a tie across them occurs). Symmetry is used in
`PlanCap`, `DeviceVerification`, `PushBatch` and `RateLimit`, on sets of interchangeable model
values and with no liveness property in the run.

`CHECK_DEADLOCK` is never switched off: in every module the clock, the windows or the
handlers can always move.

The type invariants are proved, every one but that of the abstract `MailPromise`, and are in
no run's list.

## 5. Fairness

- `DigestDelivery.FairSpec`: the poller's own steps are weakly fair, because its main loop
  never ends and every call has a timeout; `Stage` is strongly fair, because a city is due
  again and again and a site that keeps failing tells nobody (the property is about slots
  the site goes on showing); windows slide and rate gaps end with the clock. Strong
  fairness of `MailAccept(s)` and `PushAccept(s)` says that a provider or relay asked
  again and again takes a digest in the end: without it nothing could be promised, and
  the property leaves out dead addresses and those who left. No fairness is given to
  subscribers, to other mail or to restarts.
- `MailBatch.FairSpec`: a batch gets on, claims grow old, and every caller brings an
  unsent item again in a later cycle or run, which `flush_digests`, the check-in and
  the confirmation queue do as long as the item is due.
- `Confirmations.FairSpec`: the poller calls the queue in every cycle, whatever the cycle
  did; claims and mails grow old with the clock; a provider asked again and again takes a
  confirmation in the end. Digests need no fairness: they are what the queue is up against.
- The other modules state no fairness and have no liveness property. What must happen in a
  term is stated as safety: a term that is over was asked about, or has counted its excuses.
  That a code goes out in the end is not claimed: an open request
  for a token whose open budget others keep spending waits for as long as they do.

## 6. The proofs

Assumptions are the named `ASSUME`s of the component modules: sets of subscribers or keys
are finite, the two kinds of rows are disjoint, quotas and limits are naturals, a chunk
holds at least one item, `0 < Window < Short <= Term`, budgets are positive, senders are
finite, a secret and a phone have one person, and `None` is none of the values it stands
beside. TLC evaluates them in the runs.

| Module | Proved for every value of the constants | Along |
|---|---|---|
| `DigestDelivery_proofs` | `TypeOK`, `SeenWasTold`, `ToldOncePlusLosses`, `QuotaKept`, `HeadroomKept`, `OneQueueOneWall` | `Sound`: where a digest can be at each place of the cycle (`Flow`), that what waits was not told (`Fresh`), that what is recorded or under way was told (`Backed`), that the number of tellings is balanced by losses and the one that is recorded or under way (`Balance`), and that windows plus room fit the quotas (`Rooms`); `Queued`: the waiting times are a weak order (`Ordered`) in which those this flush recorded come last (`Latest`), what the mail queue may still spend leaves the headroom (`Saved`), the mails go out in turn (`InTurn`), and at the hourly wall the mails ahead of a push that was not held all fit the room, while a push that was held has the wall before it (`Walled`) |
| the same, for `PollCycle` | `TypeOK`, `RecordIsTheBest`, `DigestIsTheNews`, `SnapshotIsWhole`, `AlarmsAreEarned` | `Remembered` (nothing was told while nothing is on record, and the record is the best of what was), `Brought` (until the snapshot, what polls that all got through brought is what the site had), `Earned` (a mark is no older than what it stands for) |
| `PlanCap_proofs` | `TypeOK`, `PolledBound`, `PlansBound`, `AppCeilings`, `ExcessOnlyByConversion`, `NoRenewalPastTheShare` | the bounds are inductive with the type alone, and the action properties follow from it; the work is in the cardinalities: what one accepted row adds, that no step but an acceptance adds a polled service, and that an excess over the cap grows only when a service passes from mail to app |
| `SubscriptionTerm_proofs` | `TypeOK`, `AskedOnce`, `NoSilentEnd`, `SensitiveTermKept`, `RetentionKept` | `AskInv` (questions counted from the claim, which stays for as long as the term it asked about), `EndInv` (the unasked days of a window are days the row was spared, and each step of a run settles what it found), `SpecialInv`, `KeptInv` |
| `MailBatch_proofs` | `TypeOK`, `OneMailPerKey`, `WindowKept`, `EveryProviderRefused`, `TailDeferred`, `KeepsThePromise` | `Sound`: what is where (`Places`), every item in flight in one place and claimed (`OnePlace`), mails balanced by records and doubts (`Balance`); with it `Booked` (a window plus the room promised fits the quota) and `Asked` (every provider passed so far refused what is left, or is excused); `InLine` (what nobody turned down yet keeps its place: whatever is before it in the queue, or was taken, is before it in the list); then every step of the batch is a step of `MailPromise` or invisible to it |
| `Confirmations_proofs` | `TypeOK`, `OneConfirmation`, `LiveIsMailable`, `FloodBound` | `MailInv` (a recorded mail keeps the claim of its key for as long as the queue can offer the row again), `BlockInv` (a sign-up at a dead address has no link and none is under way); `FloodInv` (what went out past the pressure line and what the open batch may still send past it are within the reserve together), with `CountInv`, since a row that counts in the day is not mailed once more |
| `DeviceVerification_proofs` | `TypeOK`, `BitFollowsToken`, `SubsStayWithTheirOwner`, `AccessOutlivesStrangers` | `Owned`, row by row: the stored code has reached nobody but the phone of the row's token, and a sender that holds it holds that token (`CodeStays`); a row in an honest person's hands names that person's phone, and while a request with their main secret is under way nobody else takes the row (`HonestHands`); a row verified for an honest person's phone has that person's main secret, and so has a row with their subscriptions (`OwnedBy`) |
| `VerifyBudget_proofs` | `TypeOK`, `BudgetsHold`, `StrangersSpendTheirOwn`, `SentCodeArrived` | `Counts`: what is on record and the senders that may still add to it (`Busy`) stay together within each budget (`Spent`), the ceiling (`Total`), the failures of a request (`Failed`) and those of them charged to the owner (`Charged`), each with one more per further sender; `Arrivals`: a delivery not yet recorded is of the stored code only if that code has arrived |
| the same, for `RateLimit` | `TypeOK`, `PlacesAreServed`, `RetryAfterSuffices`, `ImmediateBound`, `CheckedThenFilled` | lemmas on what `Count` does when events are added, age and go; `Waited` (the requests that will still count when a refused client's wait is over leave room in each of its buckets); `Room`: a count and the workers under way to fill it stay together within the limit and one for each further worker, for sign-ups (`AskedThenFilled`), failed checks (`FailsFilled`) and pushes at once (`NowInLine`, with `NowWaits`: a token pushed at once is one that the count of the unverified sees) |
| `PushBatch_proofs` | `TypeOK`, `RetiredIsDead`, `KeepsThePromise` | `Sound`: a batch that delivered has right settings, and what a batch with right settings called dead is dead (`Truthful`); unless the story says otherwise, so is every item on a list (`Heard`), every token with a mark (`Marked`) and every retired one (`Gone`); `Booked`: what the flush's batch carries is its own, pending and on one list; then every step is one of `MailPromise` or invisible to it |

`PollCycle` and `RateLimit` have their state and what must hold of it in modules of their own,
`PollState` and `RateState`. The proofs extend those beside the component they are otherwise
about, with which they share no name, and take the actions from an `INSTANCE` (`Polls`,
`Gate`): a theorem there reads `Gate!Spec => []PlacesAreServed`.

Why a strengthening is needed: `ToldOncePlusLosses` alone does not survive `MailAccept`,
since nothing in it says that a digest still queued was not told before; `OneMailPerKey`
alone does not survive `Accept`, since nothing in it says that a queued item was not mailed
before or does not stand in two places; `NoSilentEnd` alone does not survive `NextDay`;
`LiveIsMailable` alone does not survive `Confirm`, since nothing in it says that a pending
row at a dead address was never sent its link; `BitFollowsToken` alone does not survive
`Verify`, since nothing in it says whom the stored code reached; `BudgetsHold` alone does not
survive `Record`, since nothing in it says how many senders saw the same room;
`RetiredIsDead` alone does not survive `Retire`, since nothing in it says what the verdict of
a minute ago was about; `FloodBound` alone does not survive `Accept`, since nothing in it says
how many rows a batch was given; `RetryAfterSuffices` alone does not survive `Tick`, since
nothing in it says which requests a wait outlasts; `ImmediateBound` alone does not survive
`RecordNewDevice`, since nothing in it says how many workers were let past the count.
Each strengthening was checked by TLC on the small instances before it was proved.

Model-checked only: the liveness properties `PersistentSlotIsTold`, `ClaimIsSettled` and
`HeldGoesOut` (fairness and `ENABLED` are out of the prover's reach). Every safety and action
property of every passing run is proved. `WindowKept` of `MailBatch` is proved and in no run.
No module uses a `RECURSIVE` operator, and nothing proved needs induction over data.

## 7. Where the code and its documentation disagree

One is a run whose single property states what the code's own words say, with the
counterexample TLC finds; `PROJECT.json` ("findings") quotes the lines.

- `Confirmations_complaint`: `suppress_address` keeps the first reason, so a complaint about
  an address that bounced before stays on record as a bounce. The next sign-up lifts it
  and is mailed, although `clear_delivery_block` "deliberately refuses to lift a
  complaint"; without a sign-up it is pruned with the address's last row.

Four more are narrower than the sentence they contradict, and the property that is checked
names the exception. The sentence stays in the module as a definition; the instance shows
it violated.

- `PlanCap.NeverPastCapAndShare`: a city can be polled for more than cap + cap // 2 services,
  because confirming and renewing judge a filter read before their transaction (cap 2, four
  services, two rows of each door, one stale acceptance). `PolledBound` is the bound that does
  hold: one more per such acceptance.
- `SubscriptionTerm.EveryTermAsks`: the check-in's latch is stamped by id after the batch; a
  subscriber who renews in between gets the old term's latch on the new term, which then
  ends unasked (the run's instance without faults). `NoSilentEnd` excepts exactly these rows
  (`stamped`).
- `DigestDelivery.LossNeedsAFault`: a device erased between its push and the recording makes
  the insert raise, and the rest of the flush stays unrecorded without any crash (one mail
  subscriber and one of the app, who alone may leave). The digests of that rest go out again;
  `ToldOncePlusLosses` counts them as losses.
- `DigestDelivery.PassedOverWaitedLess`: `_behind_the_mail_wall` predicts the wall from the
  room before the batch; a refused recipient leaves its room to a mail from behind the
  predicted wall, so a push subscriber who waited longer is passed over (three mail
  subscribers and one of the app, one mail an hour). `OneQueueOneWall` holds as long as nobody
  is refused.

What else the modelling showed, each within what the checked properties allow:

- `push.py` retires a device on evidence "since the device first answered dead"
  (`src/app/push.py:727`). When the settings were wrong at the first answer and right at that
  delivery, the evidence says nothing about the phone: the next wrong answer (a process not
  yet restarted, settings broken again) retires a living one. `RetiredIsDead` excepts this
  by `story = "righted"`.
- The docstring at `src/app/api.py:607` says of an unverified row that its "secret is simply
  rotated"; `register_device` makes the new secret pending on every row that exists, and
  `AccessOutlivesStrangers` depends on it (its mutant rotates).
- `create_subscription` inserts by the row's id after the credential was read; a token change
  between the two puts the subscription on a row that is no longer verified, and it waits for
  the new phone's proof. It stays with its owner (`SubsStayWithTheirOwner`).
- Two persons who cooperate can verify a row for either's phone by passing a code on. No
  property speaks about that: the bit is the phone's.
- `renew_route` (`src/app/web.py:1212`) shows its "renewed" page whether or not a row was
  updated; a row deleted since the read is not renewed, and the page says it was. Nothing in
  the state tells the two apart, so no property speaks about it.

## 8. What is not modelled

Within the modules: in `DigestDelivery` which cities are due, rate gaps and caps are a set of
resting subscribers, a slot is its key (day keys are in `PollCycle`), and every subscriber's
filter matches every slot, since the order of service does not depend on it; in `MailBatch`
the deferral wall, counters and quota alert, a provider's hourly and daily windows apart, and
single mails but as use of a window; in `PushBatch` payloads, the credential caches and the
quota of a platform, all of which are an item that waits; in `DeviceVerification` what a row
shows (`GET /device`, its language); in `Confirmations` a click that read its row before the
row was deleted (it stamps a deleted row); in `PlanCap` the ten-row total of a device over all
cities; in `PollCycle` more than one service, office or day, which share nothing but the
cycle; in `RateLimit` the limits that live in one worker's memory (`IPRateLimiter`, the
per-device limit: one process, no interleaving) and the reads of the slot overview, which use
the gate's function with one bucket.
The poller's single main loop is taken as given: two pollers on one database are not
considered.

Whole components: the adaptive ladder, the streak and the pressure cap (`cycle`), which only
lengthen the rest of a city and choose who rests; heartbeats and the summary mail, which are
sent and forgotten; the catalog and its synchronisation (one thread compares upstream files
and writes `catalog_dead_ids`, which the admin page shows and nothing else reads); scrapers
and filters (parsing of foreign formats, a pure predicate); renderers, templates and texts;
admin and analytics (reporting on rows the modelled parts write); tokens, configuration,
integrity and the HTTP session (stateless, but for `ttl_days_for`, which is in
`SubscriptionTerm`); migrations, backups and deployment; and the mobile client, which is a
caller of the API, its calls in any order the inputs of `DeviceVerification`.

## 9. Running the checks

    tlc -workers 2 -config MailBatch_batch.cfg MCMailBatch
    tlapm MailBatch_proofs.tla

The `.cfg` of a run is named after it and belongs to the `MC` module of its component. The
longest runs, `PushBatch_evidence`, `RateLimit_gate` and `Confirmations_queue`, take two and a
half to three minutes.
