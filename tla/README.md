# Callcaster: specifications

TLA+ models of callcaster's concurrent core, the TLC configurations that check
them and TLAPS proofs about them. Paths are relative to the repository (`src/`);
`PROJECT.json` maps every definition to its lines, every run to its properties
and every property to a mutation of the code that breaks it.

## The system

Callcaster is a web application (React Router on Node, Postgres through drizzle,
Twilio for telephony) for outreach campaigns: agents call contacts or the
platform texts them, and inbound calls are routed to agents. Several web
processes serve requests and Twilio's webhooks; one or more worker processes
poll a job table. Nothing is shared in memory: every coordination goes through
Postgres rows (stored procedures, guarded UPDATEs, advisory locks) and through
what Twilio does between two webhooks. That is where the hard behaviour is.

| component | state | operations | what must hold |
|---|---|---|---|
| job queue and worker (`app/lib/worker/poll-jobs.server.ts`, `worker/index.ts`) | `job` rows: status, attempt_count, claimed_until, claimed_by | claim, heartbeat, reset of stale claims, dead-lettering, complete, fail; crash and restart | one runner per row, bounded retries, nothing given up early, every row settles |
| enqueue and dedupe (`enqueue-job.server.ts`) | the same rows | insert, idempotency key with revival, live dedupe | no duplicate live rows, completed work stays completed |
| self-scheduling chains (`handlers/shared.server.ts`, `ensure-scheduled-jobs.server.ts`) | the same rows | seed at boot, reschedule around the work | the chain never ends and never forks |
| retention, dead-letter page | the same rows | prune, requeue | attempts are handed back to dead letters only |
| campaign queue (SQL functions, `queue-status.ts`, `campaign-queue-db.server.ts`) | `campaign_queue` rows: state, assignee, claimed_at, attempt_count, order | claim, release, dequeue (with household), requeue, stale reset, exhaustion, completion check | a contact is with one agent, and ends |
| predictive dialer (`auto-dial.server.ts`, `routes/api+/auto-dial/*`) | the rows above, `call` rows, conferences at Twilio | a turn per webhook, room handler, status callback | no double dial, one contact per room, a household is left in peace once reached, dialing goes on |
| queue page and STOP (`queues.action`, `inbound-sms.action`) | `contact.opt_out`, queue rows | dequeue, requeue, opt out | an opt-out is honoured |
| inbound routing (`acd-router.server.ts`, SQL functions) | `inbound_queue_entry`, `agent_status`, Twilio's queue | offer, accept, release, complete, sweep | the two tables agree, an agent returns |
| agent status (`agent-status.server.ts`) | `agent_status` | change of status, heartbeat | as above |
| manual dial (`dial.action`, `dial/$number.action`, `hangup.action`, `claim_queue_entry_for_dial`, `select_and_update_campaign_contacts`) | queue rows, `outreach_attempt`, `call` | credit check, claim for dial, call, save, hang up what could not be saved; hang up, fetch more, leave | a contact whose call is saved is not dialed again; a call that is on can be found and ended |
| campaign SMS dispatch (`campaign-sms-dispatch.server.ts`, `campaign-sms-send.server.ts`, `handlers/campaign.server.ts`, `campaign-execution.server.ts`) | queue rows, `message`, dispatch jobs, `campaign.status` | launch, pause, a batch, its retry, the successor; `/api/sms` | a contact is texted once though a batch is run again, never after STOP; the chain of jobs does not stop |
| credits ledger (`apply_ledger_entry_and_sync_credits`, `transaction-history.server.ts`, Stripe's webhook and redirect) | `transaction_history`, `workspace.credits` | insert under a key, move the balance | the balance is the sum of the entries, an event is charged once |
| call and message status (`twilio-call-status.server.ts`, `call-status.action`, `sms/status.action`, `webhook-side-effects.server.ts`, `twilio-open-sync.server.ts`, `call-status-poll.loader`) | `call`, `message`, side-effect jobs | upsert of a status, a job that bills, poll, sweep | an end stays an end; what was used is billed, once |
| number rental (`number-rental-billing.server.ts`, `number-rental-lifecycle.ts`, `platform-workspace-numbers.server.ts`, `removeWorkspacePhoneNumber`) | `workspace_number` rows, Twilio's numbers, the ledger | purchase; a daily sweep that charges each elapsed month and warns, suspends or releases; removal by a user | no month is charged twice or before it is due; who has paid has the number; only who owes three months loses it; who owes two cannot use it |
| idempotency keys, campaign schedule *not modelled* | keys; `campaign.status` | reserve, complete, replay; start and end | one execution per key; a campaign runs within its dates |
| the rest | events feed, media streams, scripts, uploads, membership, onboarding, analytics, interface | | not modelled: `PROJECT.json` gives each one's reason |

Interaction: a web request enqueues jobs; a worker's handlers run campaigns'
housekeeping and enqueue their own successors. The predictive dialer, the manual
dialer, the SMS dispatcher, STOP messages and the queue page all write
`campaign_queue`. A call or a text leaves a row, Twilio's callbacks and the two
sweeps bring the row to its end, a job or the open sync turns the end into an entry
of the ledger, and the ledger's balance is what the next call or batch is
admitted by. The rental sweep
spends from that same balance. A Twilio webhook runs the dialer's next turn in its own request.
The inbound router shares `agent_status` with the agent's own status control.

## Modules

| module | what it is |
|---|---|
| `WorkQueue` | abstract: what the job table promises to whoever enqueues |
| `JobQueue` | the job table, workers, callers, operators, retention; `RefinesWorkQueue` maps it to `WorkQueue` |
| `JobQueue_proofs` | its theorems |
| `CampaignQueue` | the rows of one campaign's queue, as functions of the table; no behaviour of its own |
| `CallList` | abstract: what predictive dialing promises to contacts and agents |
| `PredictiveDialer` | extends `CampaignQueue`: turns, calls, rooms, callbacks, people; `RefinesCallList` maps it to `CallList` |
| `PredictiveDialer_proofs` | its theorems |
| `Reception` | abstract: what inbound routing promises to agents and callers |
| `AcdRouter` | offers, agents, callers, Twilio's queue, the agent's status; `RefinesReception` maps it to `Reception` |
| `AcdRouter_proofs` | its theorems |
| `Account` | abstract: what a workspace's account promises of charges and payments |
| `Outreach` | extends `CampaignQueue`: Twilio's calls and texts, their rows, callbacks, jobs and sweeps, the ledger; `RefinesAccount` maps it to `Account` |
| `ManualDial` | extends `Outreach`: the call screens and their requests |
| `SmsDispatch` | extends `Outreach`: launch, dispatch jobs and their batches |
| `NumberRental` | extends `Outreach`: numbers rented, charged by the month, suspended, released |
| `NumberRental_proofs` | lemmas about it |
| `Outbound` | composes the three: one campaign, of either type, and rented numbers, with everything `Outreach` has |
| `Outbound_proofs` | its theorems |
| `MC...` | the symmetry sets; constants are in the `.cfg` files |

Definitions named `X_Y`, marked "(mutant)", are mutations of `X`: the bug each
property is there to catch. No action uses them.

### JobQueue

`job` is the table, `worker` a process: its program counter follows `seed` (boot
seeding), `boot`/`bootBury` (recovery before the loop), `poll`, `bury`, `claim`,
`run`, `resched` (the `finally` of `withReschedule`), `complete`, `fail`. Each
statement is an action, so two workers interleave between the stale reset, the
dead-lettering and the claim, and a crash can fall anywhere. `Claimed`,
`ResetStale`, `BuryExhausted`, `Completed` and `Failed` are the UPDATEs; note that
completion, failure and heartbeat go by id only, as in the code, so a worker
whose lease was taken away still writes the row.

A webhook that redelivers runs the two statements of `enqueueWithIdempotency` as
two actions; the operator's requeue is its SELECT and its UPDATE. Live dedupe is
one step: it holds an advisory lock. Time is what the SQL compares: a lease is
live or past, a `retry_at` due or not. Without the fault `stall` a lease expires
only when no process renews it (ten heartbeats fit in one TTL). A drain worker
never renews, so its lease may expire under it.

Faults: `redeploy` (a process is killed anywhere), `stall` (frozen for a TTL),
`dberror` (a statement raises, its effect committed or not). `Killers` are job
types whose handler may take the process down.

`WorkQueue` says the same without leases, counters and sweeps: a row is taken by a free process, at most
`MaxStarts` times before somebody offers it again, and finished, failed, lost or recovered; only a row nobody works on is taken or recovered.
The mapping reads a row's state off its status, its `hands` off the workers that execute it, its starts off the history
variable `tries`: a claim is a `Take`, a kill a `Lose`, the stale reset a `Recover` of several rows at once, dead-lettering a
`GiveUp`, the operator's requeue a `Revive`; polls, heartbeats, SELECTs and the ageing of leases are stutters.

### CampaignQueue and PredictiveDialer

A *leg* is a turn of `runAutoDialerTurn` together with the call it places. A turn's
counter names the statement that is next: `start` (the guard on the conference),
`sweep`, `claim`, `check` (opt-out), `window` (calling hours), `prep`, `dial`,
`retire` (dequeue after the call), `save` (the call row), `hangup` and `finish`
(nothing left: close the conference, complete the campaign). Statements of
different requests interleave; every stored procedure is one step, as it locks
the rows it writes. The call goes on by itself: it is answered by a person or a
machine, or not at all, and each webhook is an action (`AnsweredBy...`,
`StatusCallback`, `HandleStatus`; the last two are apart because the status is
claimed in one transaction and its effects follow).

`late` and `tried` are history variables for the properties, nothing else reads
them. Faults are listed in the module: killed requests, refused and ambiguous
calls, database errors, stalls, redelivered callbacks, calls that are over
before their request, claims that age in the middle of another turn.

A *room* is one start of the dialer, named by its agent and a uuid. Nothing keeps an agent from a second start
beside the first (another browser tab, a second click): `AgentJoins` asks only that the uuid is free, and an agent may have two rooms,
two turns and two contacts. So the unit of "one contact at a time" is the room. Who claims is the user, so rows
know the agent and not the room. `calls.create` of a turn is not wrapped in `withTwilioRetry`: an ambiguous failure places one call or none.
The agent's own leg has no `call` row; a second one that a retried `calls.create` of `startAutoDialConference` leaves behind finds nothing
to join and is hung up by the room handler, so it is not in the model.

Today's rooms are named `user~uuid`, and with these the first turn stops itself
(see below), so nothing behind it would be exercised. The
passing runs therefore use `LegacyRooms = TRUE`: rooms named `user`, which the code still
serves and for which it skips that guard. An agent's legacy rooms are one conference at Twilio (`Conference`): it is in progress
while any of them is open, and ends for all at once. `PredictiveDialer_flows` uses today's rooms, and the theorems hold for either.

`CallList` is the list a campaign's manager thinks of: a contact waits, is held by one room, has been called, or is
done; a room has one contact at a time, only a held contact is called, a held one may be put back, a called one may not.
The mapping reads a contact's stage off the leg that works on it or is on the phone with it, and off its row when there is
none: a claim is a `Take`, a placed call a `Call`, a release or the opt-out check a `Drop`; a call that ends, a STOP, a household's dequeue
and the sweep's failing of exhausted rows are a `Leave` of one or several contacts; every other step is a stutter.

### AcdRouter

`wait` is a request for a caller's hold music: `find` (active entry),
`count` (attempts), `sweep`, `claim`, `dial`, `undo`. `phone` is the call to the agent that belongs to
an entry, `caller` and `ahead` are Twilio's queue (who is waiting, who joined
first), `found` holds the routines whose SELECT is done and whose UPDATE is to come
(only with the fault `split`: `accept`, `release` and `complete` read without a lock
and write by id). `asked` is a status change that was validated and is not written
yet. `Bridge` is `<Dial><Queue>`: it joins an agent to the *head* of Twilio's queue,
whomever the agent was claimed for.

The two SELECTs are two steps: a row that turns from `timed_out` to `accepted` between them, which takes an
`accept` that overlaps a release (`split`), is seen by neither, and the caller may be offered once too often. `revived` is
history and marks such rows; `OffersBounded` does not count them, since each may cost one offer.

Abstractions: `SKIP LOCKED` finds any eligible agent; missing credentials after a
claim have the effect of `WaitKilled`; abandoning is a no-op because it asks for
rows that are `queued`, a state nothing creates; `HoldAudio` is TRUE in every run,
since without it the spoken text loops for ever and the caller is offered once only.

`Reception` is one receptionist: it rings an idle agent for a caller who has no open offer and has missed fewer than
`MaxOffers`, an offer is accepted, times out or is completed, once, and the agent is idle again at just that step. The
mapping takes the offers from `inbound_queue_entry` and the agent an offer occupies from `agent_status`:
`WaitClaim` is a `Ring`, `accept_inbound_offer` an `Accept`, `release_inbound_offer` and the sweep a `TimeOut` (of several offers), `complete` a
`Complete`. What is hard in it is `Ring`: the open offer and the count were read in two statements, two more before the claim.

### Outreach and Account

A *usage* is a call or a text Twilio was asked for. A manual call has two *legs*: the
agent's browser is rung, and when it answers the TwiML of `/api/dial/$number` dials the
contact. Each leg has a SID, a `call` row and a debit of its own; a text is one leg.
`usage[u]` is what Twilio knows: the stage of the call or text, the sides that used
something (an answered call, any accepted text) and the callbacks that are on their way, in no
order. `row` is the `call` or `message` row: open, `sent` (a text), closed (a terminal status), or
`stray`, inserted by a callback of the contact leg that came before the agent leg's row and
therefore has no workspace. `timed` is a duration above zero, which is what billing asks for.

`CallStatus` and `SmsStatus` are the webhooks: the upsert, then the side-effect
job under its idempotency key; with `kill` the request may stop between the two, and with
`replay` the callback may come again. `RunJob` is the worker's handler: it may throw or die before or after the debit and
run again, and `BuryJob` is the last attempt that breaks before it, after which the job is a dead letter and only a repeated
callback revives it (how many attempts there are is `JobQueue`'s matter). `PollCall` is the call screen's poll, `OpenSyncCall` and
`OpenSyncText` the sweep: a row, then its debit or job. `Debit` is the stored procedure, one
transaction. `ConfirmPayment` stands for Stripe's webhook, the poll and the redirect, each
of which may bring the same session any number of times.

`Account` says in a page what all of this is for: a leg is charged only after it used
something, at most once; a session is credited once; nothing else moves the balance. The refinement
maps used legs to `Due`, charges to `ledger`; a step of a callback, a row or a job that
does not debit is a stutter.

Faults: `kill` (a process stops between two statements), `replay` and `lost`
(callbacks), `dberror` (a statement fails), `reject` (Twilio refuses a call, a text or a
hang-up), `ambiguous` (Twilio accepts a call or a text and its answer is lost: `withTwilioRetry` asks again, or
the request fails), `config` (a blocked campaign: no sender, no body), `landline`, `night` (quiet hours
of a contact, the send window of a campaign).

### ManualDial

`dial[t]` is a tab's request to `/api/dial`: `claim` (after the credit gate), `create`,
`save`, `hangup`, one action each; requests of two tabs interleave, of the same agent or of two.
`ClaimForDial` is the stored procedure, with its test for an open row of either leg to the
contact (`ActiveCall`). `CreateCall` under `ambiguous` leaves a call of which nobody has the SID (`placedCallSid` is null, so `hangUpUntrackedCall`
returns at once), and either tries again or ends the request. `SaveCall` is `createOutreachAttempt` and the upsert as one: if either
fails the call is hung up (`HangUpUntracked`), whose failure is only logged. `HangUp`
ends a call that has a row and dequeues its contact. `FetchMore` and
`LeaveScreen` are what a screen does to the queue besides.

### SmsDispatch

`run[d]` is a `campaign_dispatch` job or a request to `/api/sms`: waiting, sending a batch, or ending
(the handler is back, the job is not marked completed: it still counts for the live dedupe).
`StartJob` is everything up to the batch's snapshot of the queue and of the opt-outs. From there the members
go their own way side by side, as the batch runs them concurrently: `check` (landline,
duplicate), `send` (`messages.create` beside `createOutreachAttempt`), `record` (the row
beside the dequeue); `FinishBatch` throws, enqueues a successor or completes the campaign. When a member raises (a lookup, the
duplicate check, a dequeue) `Promise.all` rejects at once: `RejectBatch` fails the job, which may be claimed again, while
the members that were under way go on, as those of a request do. A text whose answer is lost is sent again, or its member fails (`SendText`).
A job that throws or is killed is tried again up to `MaxTries`, then it is a dead letter.
The lease and the claim of a job are not modelled again: `JobQueue` has them, and `SoleRunner`
is what lets a job be one process here.

History variables, which only properties read: `gap` (uses that fell into a gap of the code, see
`NoFreeUsage`), `adrift` (the SID was lost, with an answer or with the request, or the hang-up failed), `texted` and `stopped`
(for whom a text was recorded, and who opted out, since a batch read the queue), `halted` and `missed` (why a campaign may rightly have no job).

### NumberRental and Outbound

`number[n]` is Twilio's side of a number (`held`), its row (`listed`, `suspended`, `age`: how many months
have come due since the first) and the requests about it. A purchase is three
statements: Twilio rents the number out, the row, the debit of the first month; a removal is two. A sweep
(`runNumberRentalBilling`) reads all rows, then takes the numbers one by one, in any order: `probe`
(is the month in the ledger?), `balance`, `charge`, `restore` (the statement that lifts the suspension), and, when the loop over the
months ends, `ladder`. Each is an action, so payments, calls, removals and further months come in
between. `seen` is the row as the sweep read it, changed along with the table as the code
does; `billed` is what the code subtracts from the elapsed months to find `Unpaid`.
`Suspend`, `StayOnRung` and `Release` are the ladder's rungs; a release is `ReleaseNumber` at Twilio, then
`DropNumber`, and starts only if the row is still there. An error in a charge goes on with the next month, one on a rung
with the next number, a kill leaves the rest to the next day. `amiss` is history: the numbers on
which a statement of a sweep failed or was answered and not acted on. The rental's debit goes through the same stored
procedure, under a key of number and month (`rents`); in `Account` a month is an event of its own, at its
own price.

`Outbound` is a workspace with a `live_call` or a `message` campaign or none, decided once: the two kinds
of campaign have different tables' rows and share the queue, the rows at Twilio and the ledger. Rented numbers share the
balance with either.

## Runs

| run | states | checks | shows |
|---|---|---|---|
| `JobQueue_keyed` | 393,000 | TypeOK, SoleRunner, DeadLetterEarned, CompletedIsFinal, AttemptsNeverRefunded, RefinesWorkQueue | two killable workers, a redelivering caller, two operators: one queue |
| `JobQueue_faults` | 49,000 | PoisonBounded | every fault, with a drain worker |
| `JobQueue_chain` | 70,000 | ChainAlive, NoLiveDuplicates, ChainKeepsTicking, EveryJobSettles | one worker, a chain that may always throw, a job that may always kill |
| `PredictiveDialer_contend` | 943,000 | TypeOK, NoDoubleDial, FailedWasTried, OptOutHonoured, CompletionSparesAttempts, RefinesCallList, HouseholdLeft | two agents contend for two contacts of a household, a STOP arrives: one list |
| `PredictiveDialer_faulty` | 1,429,000 | OneContactPerRoom | one agent with two rooms, every fault, an edit of the queue or a kill |
| `PredictiveDialer_flows` | violation | AgentIsServed | today's rooms, no fault: the first turn stops itself and no other comes |
| `PredictiveDialer_recovers` | 10,000 | QueueDrains, CampaignCompletes | a request killed anywhere, refused calls |
| `AcdRouter_routes` | 249,000 | TypeOK, OneOfferPerAgent, OnePhonePerCaller, RefinesReception | two callers, two agents, lost webhooks, killed requests, refused calls, a status change: one receptionist |
| `AcdRouter_faulty` | 1,249,000 | OffersBounded | one caller, every fault |
| `AcdRouter_swapped` | violation | AgentReturns | two callers strand the agent without any fault |
| `Outbound_billing` | 606,000 | TypeOK, BalanceIsLedger, NoFreeUsage, CallTracked, RefinesAccount, RestoredWhenPaid, ReleaseEarned, BehindIsSuspended | one call or text from its request to its debit, with every fault of processes, statements, callbacks, jobs and Twilio, a payment; or a number over six months, from its purchase to its release |
| `Outbound_races` | 654,000 | NotDialedAgain, RecordedOnce, StopIsHeard, DispatchAlive | two calls or texts to one contact: two screens of two agents, two jobs or requests, kills, lost answers, quiet hours, STOP, requeues |

### Bounds

Races need two of whatever contends and something to contend for: two workers or
agents or callers, two rows. `MaxAttempts` and `MaxOffers` are 2 (the code has 3 for
jobs, 5 for contacts and 5 offers), so that a retry, the last attempt and the refusal of a further one all occur.
A third leg lets a next turn run beside two calls, a third entry lets one caller use
up its offers while another is offered. Entries, `JobIds`, `Legs`, `MaxEdits`
(edits and kills) and `MaxAsks` (status changes) are the bounds; `Forget` frees a job
id or a leg of which nothing more can be heard. They limit how much happens, never
the order in which it does. Agents, callers, ids, legs and uuids are symmetric where no
liveness is checked. `Uuids` bounds the rooms an agent has at one time: two in `faulty`, where they are one legacy conference; in
`contend` each of two agents has one, and the theorems cover any number.

`CHECK_DEADLOCK FALSE` is given where the system ends: a drained campaign, callers
who have all left. The job queue never stops and is checked for deadlock, and so is `Outbound`, where an editor can
always put a contact on the queue and a screen can always be left.

`Outbound`: `Usages` bounds the calls and texts. Two are needed for a contact to be dialed or texted twice,
one for everything between a request and its debit; `FollowedCalls` and `FollowedTexts` are those whose
callbacks, jobs and sweeps happen while the run lasts. In `races` one call is followed, so that its row can be
closed under the next claim, and no text: the duplicate gate asks only whether a row is there. The constraint `JobsWait` leaves the
followed call's job in its table there, as no property of `races` reads what it writes. `billing` has one tab and one
dispatcher, for it asks about one request and what comes of it. `Dispatchers`
bounds the jobs and requests that are there at a time, two for a successor, a retry beside a
request, or two requests. `OpeningCredits` is 1 in `billing` (the gate closes, the payment opens it again).
There the action constraint `OneConcern` lets numbers be rented and swept only while there is no campaign: beside one, the two
halves multiply without meeting except in the balance, which the theorems cover with no such bound. One number, one sweep and
five months after the first reach every rung: the opening credit pays the first month, three unpaid months on the ladder release
the number, and a payment of two before that brings it back. With `Numbers` empty (`races`) nothing is rented. `MaxCatchUp` is the code's 36, which five months do not
reach; the theorems hold for any.
With one contact a batch is never shorter than the queue, so a successor comes from a member that was deferred
or failed; nor is there a member left to go on when another raises, so `RejectBatch` is not reached. Two contacts make some 58 million
states, too many to keep a run of; the theorems cover batches of every size, `RejectBatch` included.

### Fairness

`JobQueue`: weak fairness of each worker's own steps (a process runs, and the
platform restarts one that is down), of time (leases expire, retries fall due)
and of retention. Handlers are assumed to end: one that hangs keeps its lease for
ever, since the heartbeat is a timer. Nobody is obliged to enqueue.

`PredictiveDialer`: weak fairness of turns, calls and callbacks, of the agent's joining
while the campaign runs, of the second half of STOP; strong fairness of a claim's
ageing, because a clock runs on whatever else happens, while the action is disabled
during turns (a turn takes less than the ten minutes of `stale_after`). The run
`recovers` also lets agents leave. It leaves out `instant`: a phone rings
for longer than the request that placed the call. In `flows` the fairness is what makes the counterexample real: everything that can go on
does, and the agent waits for ever.

`AcdRouter`: weak fairness of requests, of ringing phones, of webhooks, of talk and of
the ageing of an offer. It makes the counterexample of `AcdRouter_swapped` a real one:
nothing is left undone, and the agent still does not come back.

`Outbound` has no fairness and no liveness property: a callback may be lost, a job
dead-lettered, and nobody is obliged to launch. What must eventually happen is stated as what may never be
missing (`NoFreeUsage`, `DispatchAlive`): a use without a debit has something that is going to
bill it, a running campaign has a job.

## Proofs

All theorems hold for every value of the constants (any number of workers, agents,
contacts, callers, rows) under the modules' `ASSUME`s.

**JobQueue.** The inductive invariant `IInv` joins type correctness (`TypeInv`), `PoisonBounded`,
`Held`, `Charged` and, without database errors, `DeadLetterEarned`. `Held` is the
strengthening for `SoleRunner`: an executing worker's row is running, live and owned by
it, so a second worker would have to own the same row; it needs that no process
stalls past its lease and none drains. `Charged` says each start is counted once, so
a row that reached `MaxAttempts` was started as often. `PoisonBounded` has a proof of
its own, as it needs neither assumption. Theorems: `TypeCorrect`, `NoTwoRunners`,
`NothingGivenUpEarly`, `CrashLoopBounded`. `NothingRunsTwice` (`CompletedIsFinal`) follows from `Held`: `completeJob` and `failJob` match
a row by its id alone, so only that an executing worker's row is running keeps them off a completed one. `NoRefund`
(`AttemptsNeverRefunded`) needs only the types, and holds under every fault: attempts are reset on
rows that are absent or finished. `DedupeHolds` (`NoLiveDuplicates`) counts rows by naming them: a live-deduped type has one live row (`Lone`),
a chain two that can be named (`Paired`), and a new row of a chain comes from a check that saw none but the coordinator's own (`Growth`).
It assumes kept leases, no lost commits and no operators: a dead letter that is put back stands beside its successor.
`ChainsLast` (`ChainAlive`) assumes one worker (`OneWorker`), as two end a chain (below); it may be frozen past its
lease, and operators may requeue beside it. Its `ChainInv`: a chain's row that waits has attempts left, so dead-lettering
never takes it; one that runs is executed; and a process about to end one has left a live successor (`HasNext`).
`ImplementsWorkQueue` maps every step to a step of `WorkQueue` or a stutter. It needs `Held` for
`Take` and `Recover` (the rows that are claimed and reset have no living process), `Charged` for the starts, and the same two assumptions as
`NoTwoRunners`.

**PredictiveDialer.** `TypeInv` carries, for every leg, which fields its counter determines
(`LegOK`), and two facts that hold under *every* fault and edit: `Engaged`, two legs that
attend to a room, or whose unanswered call is still to trigger a turn, have different rooms;
and `Remembers`, which links a leg at the opt-out check to the flag. From them:
`TypeCorrect`, `OneAtATime`, `StopIsHonoured`. `NoTwoCalls` adds `Guarded` (the row
of a contact that is being worked on or on the phone cannot be claimed) and
`Alone`; it assumes `Mild`: no killed, stalled or failing statements between
claim and dequeue and nobody requeueing by hand, each of which does lead to a second call.
`CompletesDrained` (`CompletionSparesAttempts`) rests on `YoungInv`: from a turn's sweep to its end every assigned row has a
young claim, and a young claim with attempts left keeps the campaign open. It assumes `Punctual`, as a sweep whose statement
fails, or a claim that ages within the turn, does let a campaign complete over it.
`TriedFirst` (`FailedWasTried`): an attempt is spent by the claim, not by the call, so an untried contact is bounded by the claims
that came to nothing (`Spare`): it has spent at most the attempts that kills have cost, and one more only while a turn has it
in hand under a fresh claim. Hence `Sparing`: fewer such losses than attempts, no failing or stalled statements, nobody outside
the calling hours (each skip costs an attempt, see below), and nobody putting contacts back with their attempts.
`OneOfAHousehold` (`HouseholdLeft`) is about any number of agents and rooms. Two turns may hold two housemates at once, and both may call; what
is shown is that this is the only way: once a call is up and saved its turn has taken the whole household off the queue (`Cleared`), so that a housemate
who waits then was held by another turn and came back because the call to them was refused. That a held housemate is always with a
turn (`LeftInv`), and does not fall back to the queue through a sweep, is why it assumes `Calm`: `Mild`, and nobody outside the calling hours (a
contact who is skipped is put back uncalled).
`ImplementsCallList` maps every step to a step of `CallList`, under `Mild` and with the invariant of `NoTwoCalls`: `Alone` makes a contact's
stage a matter of one leg, `Guarded` says that a call which ends leaves a finished row behind, so that its contact is done and
not waiting again, and `Engaged` that a leg which claims belongs to a room with nobody in hand.

**AcdRouter.** `TypeCorrect` holds under every fault. `TablesInStep`
(`OneOfferPerAgent`) is inductive with the types when no routine is split: each routine
writes both tables in one step, and the agent's own change of status touches
neither column the property reads. `OnePhoneRings` adds `PhonesInv`: a pending call backs an
active row that the sweep does not see (`Backed`), a request that looks for an agent
is the only thing there is for its caller (`Alone`), and a caller has one active row
(`OneActive`). It assumes `Prompt`: a failed `calls.create` placed no call, and
calls and requests take less than `stale_after`. `OffersLimited` (`OffersBounded`) holds under every fault: a request
that is past the count has room for the row it adds, since no other request adds rows for its caller, and a row it has missed in
both SELECTs is one that was `revived`. It
needs the rows to be finitely many, as it counts them. `ImplementsReception` maps the router to `Reception` when no routine is split
(under `split` a late release frees an agent who rings for another). It rests on `TablesInStep`, so that what a routine writes in both
tables is one `End`, and on `Looking`: a request that is past each of its SELECTs still has no open offer and still
has one to spare, because the sweep and the other callers' webhooks change rows of its caller only if they are open, and there is none.

**Outbound.** Every theorem holds under every fault, for any number of calls, texts, screens, jobs,
contacts, payments, numbers and months. The inductive invariant `Sound` joins the types with `GoodRuns` (a waiting job has
an attempt left), `UsesOK` (what the stage of a call or text says of its sides and callbacks), `LegsOK` (a row that is
closed and timed belongs to a leg that is over and used: what makes a debit rightful) and `AskedOK` (a
request that placed a call knows it). `ImplementsAccount` maps each step to a charge, a credit, a use or a
stutter: it is where `Sound` is needed, as a job may run at any time and bills what the row says.
`BalanceHolds` follows from the sets' cardinalities, and needs that a ledger entry moves the balance only when it is
new. `NothingFree` (`NoFreeUsage`) rests on `Billed`: the job of a last status finds a closed row to bill,
a closed row has lost its duration only into `gap`, a job that was dead-lettered before its debit has left the use there too, and a
closed row that nothing is going to bill is settled, so the gaps in the property's comment are all of them the model has. The others strengthen
their property by what the requests under way remember: `NoCallLost` by `Tracked`
(the requests in `save` and `hangup` are the calls without a row, but for those adrift), `OneCallAtATime` by `SavedOpen` (the agent leg's row of a
call that is on and saved is open, whatever was written of either leg, so that the claim sees it), `NoSecondRecord` by `NoneYet` (a member that
passed the duplicate gate, and whose contact has a recorded text, is in `texted`), `StopHeard` by `Silenced` (a member who opted out and is
still to be checked or sent to is in `stopped`), `ChainGoesOn` by `Alive` (a
contact that is queued while a batch runs is in the batch, or the batch is shorter than the queue, or it came
after the snapshot).

**Number rental.** `PaidIsRestored`, `ReleasesEarned` and `LateIsSuspended` hold under every fault for any number of numbers, months
and payments, while one sweep runs at a time (`OneSweep`, which the job's chain is there for; two that overlap do break them). `RentalSound`
has the types and how a sweep's place in its loop bounds its counter. `RentalLaw` is the strengthening, for numbers that are not `amiss`.
`PaidInOrder`: the months in the ledger are an initial segment, since the loop ends at the first month it cannot pay; so
`Counted` can hold: `billed` is the number of months before the current one that are paid, and the subtraction counts
the unpaid ones (`DueCount`, `OwedCount`). `Agrees`: the row in `seen` says of the suspension what the table says.
`Sentenced`: a sweep that is past the ladder's release owed three months when it chose it, and since nobody else pays rent, still
does. `InDebt`: a suspended number that no sweep has in hand, or that is about to be restored, owes something.

**Only model-checked:** the liveness properties `EveryJobSettles`, `ChainKeepsTicking`,
`QueueDrains` and `CampaignCompletes`: they rest on fairness, which the prover does not reach. Every invariant, action property and
refinement of the passing runs is a theorem.

## Where the code departs from its documents

With counterexamples among the runs. **Two callers strand an agent.**
`app/lib/acd/acd-router.server.ts:162-166` and
`app/routes/api+/inbound.action.server.ts:234-235` suppose that the caller an agent meets is the one
the agent was claimed for (`AcdRouter_swapped`). **Predictive dialing does not start.** The turn that the room's answer runs comes
before the conference exists and stops itself, and no other webhook runs one; `docs/user-journey-audit.md:371` has the system
"auto-assign contacts and dial" (`PredictiveDialer_flows`). With legacy rooms the first turn runs and the agent is still not always
served: a machine without a voicemail file, below.

With a counterexample that TLC finds in a minute, whose run is not kept:

- **A chain can end.** `app/lib/worker/handlers/shared.server.ts:5` guarantees the next
  occurrence. A retried coordinator and its successor, running at once, each see the other and
  neither schedules. `ChainAlive` of `JobQueue` with two `Workers`, no callers or operators, three
  `JobIds`, one chain and no fault.

Found while reading and modelling, without a run of their own:

- `auto-dial.server.ts:231-236` releases contacts outside the calling window "so a later turn can dial
  them". Each claim has raised `attempt_count` and the release does not lower it, so
  after `max_attempts` skips the sweep fails the contact undialed. `FailedWasTried` is
  checked with nobody outside the window for that reason. Nor does seeing a released row again mean that "every
  claimable contact is currently out of window": it kept its place at the head.
- `client/migrations/20260814120000_requeue_clears_assigned_user.sql:68-75` makes "re-adding a dequeued
  contact work" and resets `attempts`, but not `attempt_count`, which the sweep reads.
- `routes/api+/inbound-sms.action.server.ts:183-184`: opted-out contacts "must also leave every campaign
  queue"; a turn that holds the contact can put it back (`campaign-queue-db.server.ts:310` has no guard). The next claim
  refuses it, which is what `OptOutHonoured` states.
- `CONTEXT.md:40` says of a household "call once"; two turns, of two agents or of one agent's
  two rooms, may claim two housemates before either call takes the household off the queue. `HouseholdLeft` states what is left of the promise.
- Nothing stops a second start of the dialer by the same agent (`auto-dial-start.server.ts:43-201`): two rooms ring the agent, and each is given a
  contact.
- `client/migrations/20260803130000_claim_next_queue_contact_attempt_count.sql:62-68` wants claimed contacts to keep the campaign
  open; `drizzle/0000_baseline.sql:600` does not count one on its last attempt.
- `docs/dev-test-plan-2026-07-16.md:67` expects "no double-dial"; DELETE `/api/queues` during a call
  (`queues.action.server.ts:111`) requeues a contact who is on the phone.
- `docs/adr/0025-dual-dial-modes.md:3`: the system dials ahead. A machine without a voicemail file is hung
  up on (`auto-dial/$roomId.action.server.ts:274-279`), and its status "completed" triggers no turn
  (`auto-dial/status.action.server.ts:188`): the agent waits, also in a legacy room.
- `poll-jobs.server.ts:101-102` takes a stale claim to mean that "a worker died mid-job"; a drain worker
  (`worker/index.ts:111`) sends no heartbeat and may be alive.
- `acd-router.server.ts:162-170` repairs lost callbacks "exactly when it matters"; a caller whose own stale
  offer is still `offered` never gets as far as the sweep. The default hold text (`shared/acd-utils.ts:30`) loops
  for ever and asks for no further hold music, so the retries of `MAX_OFFER_ATTEMPTS` need `hold_audio`.
- A caller who hangs up has an entry that is `offered` or `accepted`; `abandon_inbound_queue_entry` asks for
  `queued`, so an agent who answers after the hang-up stays claimed.
- `docs/remediation/critical-review-orchestration-plan-2026-07-12.md:431` wants out-of-order callbacks to "produce one final
  state and one debit". A progress callback that comes after the final one keeps the status and takes away the
  duration (`twilio-call-status.server.ts:262`); if the job has not billed yet it never does, and its key is
  used up. The other gaps of `NoFreeUsage`: a side-effect job that throws or takes its worker down in every attempt is dead-lettered with the row closed
  (`poll-jobs.server.ts:216-243`), and the use is billed only if a later callback revives it; the screen's poll closes a row and bills nothing, so a call whose final callback
  is lost is free; the open sync does not look for texts that are `sent` (`twilio-open-sync.server.ts:19-24`); a
  sweep killed between the row and its debit finds the row closed the next time.
- A contact leg's callback that arrives before the agent leg's row inserts a row without a workspace; every later
  callback of that leg then fails on the primary key, and the leg is never billed.
- An SMS callback that arrives before the message's row is answered with an error, and its status is lost to the
  sweep.
- `docs/billing-source-of-truth.md` has one rate for a call; a manual call is two legs, and both are debited.
- `dial.action.server.ts:77-81`: overdraw is "bounded by concurrency × per-call cost". The debit of a call comes
  with its callback's job, so calls one after the other overdraw too while callbacks are late.
- `dial.action.server.ts:84-88`: the claim prevents a second dial. Two tabs, or a double click, both pass before the first
  call's row is saved; `NotDialedAgain` states what does hold. `FetchMore` also takes a queued row another agent is dialing.
- `dial.action.server.ts:150-157` hangs up a call "that could not be saved": one that Twilio placed although `calls.create` threw, or that a retry
  placed twice, has no SID to hang up. It rings, talks and ends without a row, a claim does not see it, and nobody is charged
  (`adrift` in `CallTracked`). A retried `messages.create` likewise texts a contact twice with one row.
- The agent leg's row stays open until the poll or the sweep closes it; until then the contact's next dial is refused as
  `active_call`.
- `handlers/campaign.server.ts:273-274`: "the duplicate gate keeps retries single-send". It looks for a message row: a job
  killed between the text and its row, an attempt row that fails beside an accepted text, or an ignored error of
  `persistMessageRecord` lets the retry send again (hence *recorded* in `RecordedOnce`). A job and a request to `/api/sms` both
  check before either sends. A batch that is rejected by one member's error is retried while its other members still send
  (`campaign-sms-dispatch.server.ts:171`).
- A launch is deduplicated against a dispatch job that is ending; contacts who join after the last snapshot wait for the
  next launch; a batch in which every member fails is dead-lettered; each leaves the campaign `running` with nobody at work
  (`halted`, `missed`).
- `number-rental-billing.server.ts:73` bounds the catch-up by 36 months that should never accrue. They are the *oldest* 36, the billed
  ones included, so a number is never charged after its third year, nor warned.
- `number-rental-billing.server.ts:211-214`: the warning's marker is a count so that a customer who pays and falls behind again
  is warned again. The warning comes at a count of 1 only, and nothing resets the marker: the second warning is suppressed.
- `number-rental-billing.server.ts:494-507`: paying lifts the suspension. If that statement fails, or the worker dies before it, the month
  is in the ledger and no later sweep comes back to it: the number stays suspended until another month is charged (`amiss` in `RestoredWhenPaid`).
- A charge that fails on its way in leaves a month unpaid behind later ones that are, until the next day's sweep; one whose answer is lost after the commit is counted unpaid by
  the same sweep, which may then suspend or release the number (`amiss`).
- A removal whose second statement fails leaves a row without a number at Twilio: no later removal or release succeeds, since Twilio has none,
  and the row is charged for every month. A purchase that fails after Twilio's answer leaves a number nobody is
  charged for, or a first month for free (`platform-workspace-numbers.server.ts:217-325`).
- Two sweeps that overlap (a chain's job and one an administrator starts) can release a number that the other has just charged.
- `number-rental-lifecycle.ts`: a suspended number is "suspended for outbound use"; of the ways to start an outbound call or text only the
  one that creates a campaign with its script asks `canSpendFromNumber`.
- Under `split`, a late `release` or `complete` frees an agent who has been claimed again.

Hazards of the job queue that its properties assume away: a kill during a chain's last attempt ends
the chain until the next boot (so `JobQueue_chain` has no killer among the chains); a reschedule whose
statement fails is only logged; a row that is requeued again and again stays the oldest and is claimed first.

## What is not modelled

Data that decides nothing here (names, scripts, phone numbers, texts), Twilio beyond the order of its
calls and webhooks, request signatures, and the interface. In the modelled parts: per-campaign
narrowing of live dedupe, validation of job parameters, contacts without a phone, rows with a NULL state, the
participant events of a conference other than their effect on it, `next_inbound_queue_offer` (nothing calls it),
the number webhook's other routes; for calls and texts the outreach dispositions, the outgoing webhooks, a campaign's end
date and the export job, rates other than one price, the debit of a rejected text's segments. Of number rental the reminders before a due date, the mails and the warning's marker (it decides only whether a mail is sent), the onboarding steps
of a purchase, numbers without a Twilio SID, and the reconciliation of Twilio's list with the table. Idempotency keys of the API and the campaign schedule are not modelled. The predictive and the
manual dialer are not composed: a campaign is dialed one way, and what they share is `CampaignQueue`. An agent's own leave event is modelled as leaving only: its handler
raises before it closes the conference.

## Plan

Done: the queues, the dialers, texts, rented numbers, and the account, the job table, the router and the predictive dialer with
their refinements; every safety property of the runs is proved. Next:

1. Idempotency keys: a request killed between reserving a key and completing it.
