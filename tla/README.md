# Verification of twenty-app-whatsapp

TLA+ models of the WhatsApp app for Twenty: serverless functions that share
rows, a key-value store and a job queue, hold no locks and have no
transactions, and front components that poll them.

- `*.tla` with a component's name: the models, one action per stretch of code
  between two awaits.
- `MC*.tla` and `*.cfg`: the instances TLC checks.
- `*Proofs.tla`: theorems, checked by TLAPS for every value of the constants.
- `PROJECT.json`: components, runs, mutants, the source lines of every
  definition, hazards, findings, theorems.

Run `tlc -workers 2 -config X.cfg MCY.tla` for a run and `tlapm
XProofs.tla` for a module of proofs.

## 1. Inventory

Paths are relative to `src/src/`. Everything that runs on the server is a
*logic function*: an HTTP route, a cron, or a job of the platform's queue. They
are stateless; all state is rows of the workspace store (a patch is by id
unless it carries a filter), `kv` entries (no compare-and-swap), and queued
jobs. Each `await` is a point where any other function may run, and where the
invocation may die (60 to 120 s limits). What the platform, Meta and a human do
is external and modelled from its use.

| component | state | hard part | correct when | modelled by |
|---|---|---|---|---|
| Outbound sender (`logic-functions/wa-outbound-sender.ts`, `server/outbound.ts`), stuck-message sweep (`wa-health-check.ts`) | message row, `wa:accepted:<id>` marker, `requeuedAt` | lost answers, deaths between acceptance and its record, redelivery, a sweep from a stale list | never two copies, never "failed" when taken, never stuck | OutboundSend |
| Job queue (`server/jobs.ts`, the platform) | jobs | refused, repeated, given up | (external) | in every model that queues |
| Status machine (`domain/status-machine.ts`) | - | order of receipts | monotonic | StatusMachine |
| Delivery receipts (`wa-status-processor.ts`) | status, stamps, recipient, event status | out of order, early, overlapping batches, death before the mirror | no receipt lost, status never back | DeliveryReceipts |
| Campaign runner and claims (`wa-campaign-runner.ts`) | recipient rows | overlapping ticks, death in mid-batch, stale sweeps | one message each, everyone reached | CampaignClaims |
| Campaign lifecycle (`domain/campaign/transitions.ts`, `server/campaign-state.ts`, `wa-campaign-control.ts`) | status, reason, stamps | transitions validated on copies | the row is true | CampaignLifecycle |
| Audience snapshot (`wa-campaign-snapshot.ts`) | recipient rows, page jobs | a chain of jobs, retries, a second build | READY is the whole audience, and only it | CampaignLifecycle, Audience |
| Webhook ingest and replay, inbound processor, threads (`wa-webhook-ingest.ts`, `wa-inbound-processor.ts`, `server/threads.ts`) | event log, messages, threads | deaths between row and jobs, duplicates, counters from copies | nothing dropped silently, each message once | WebhookLog |
| Pacing and tier ledger (`domain/pacing.ts`, `server/schedule.ts`, `server/tier-ledger.ts`) | lane cursors, unique users | read-modify-write without locks | rate and allowance kept | SendPacing, TierLedger |
| Stats rollup (`wa-stats-rollup.ts`, `server/campaign-deltas.ts`) | counters, a note in kv | a note lost between compare and clear; whose turn it is | the numbers end right, nobody starves | CampaignCounters, CampaignRounds |
| Policy, consent, window (`domain/policy/`, `server/consent.ts`, `wa-consent-keyword.ts`) | consent, opt-in, block | checked, then used later | nobody messaged after STOP | Consent |
| Templates (`wa-template-sync.ts`, `wa-template-event.ts`) | template rows | sync passes against events | what is published can be sent | Templates |
| Template requests of workflows and agents (`server/template-send.ts`) | rows by `clientToken` | retries beside one another | at most one message per request | TemplateRequests, OneRequest |
| Accounts (`wa-account-admin-route.ts`, install hooks) | account rows, server-wide routing claims | two workspaces, half-done steps | a webhook goes to its owner | Accounts |
| Media, retention (`wa-media-worker.ts`, `wa-retention-purge.ts`) | files, content columns, metrics marker | two jobs write the same columns | purged stays purged, no day skipped | Upkeep |
| Erasure (`server/erasure.ts`) | everything of a person | rows that keep arriving | nothing that was there stays | Erasure |
| Feed, send and thread routes, front components (`components/`) | pane, list, totals, drafts | answers of an old question, guards, retries | the screen says what is so | ConversationPane, ThreadPresses, InboxDesk, CampaignDesk |
| Settings page (`components/settings/`, the routes it calls, `server/notification-workflow.ts`, `server/variables.ts`) | drafts, ticks, a count, one busy flag | every button shares one flag, error and notice; tabs stay live; others write the same things | nothing is written that nobody typed, nothing done twice or beyond what was confirmed | SettingsDesk |
| Webhook front door and authorisation | - | - | - | not modelled (section 7) |

## 2. Plan

Done: all modules above; the invariants of the send path, receipts, claims,
lifecycle, webhook log, counters, pacing and allowance, accounts, retention and
erasure, templates, presses, the pane, the inbox, the settings page, the campaign
desk, consent and the audience proved; template requests proved to implement their abstract specification.
Left, in this order:

1. Views of the front end that are not modelled yet: the variable mapping of a
   campaign, the composer's panels.

## 3. The modules

Each model has one action per await-free stretch of its handler. A worker,
tick, actor or call is a running invocation with the step it is at and what it
copied when it read. History variables (`cause`, `slip`, `excuse`, `blame` ...)
record which fault or race a behaviour contains. A property of the form *X
unless a named cause* says that there is no other cause; what each cause is
stands in the comment at the property, and section 5 lists those that
contradict the documentation.

**OutboundSend.** The steps of `sendOutbound`: guard, marker, gate, request,
then the record of a retry, a failure, or an acceptance. Meta takes a request
or not (`took`), and the answer is a 200, an abort, a broken connection, a
throttle or a refusal, classified as in `errors.ts`. The sweep reads a page of
old QUEUED rows and writes row by row from that list. Jobs may be refused,
delivered twice, or die after any step.

**StatusMachine, DeliveryReceipts.** `advanceStatus` and its ranks; a batch is
a sequence of receipts. A job reads all rows of its batch at once, applies each
receipt from that copy, mirrors the moves onto the recipients, defers orphans
or gives them up when they are too old (`expired`), and marks the event.
The sender's two writes around acceptance interleave with it.

**CampaignClaims.** A tick goes through the awaited calls of `tickCampaign`;
`claimedAt` is null, fresh or stale. The health check's sweep and
`abandonPending` work from lists; `withRetry` repeats a create whose answer
was lost.

**CampaignLifecycle, Audience.** `transitionCampaign` checks the edge on the
copy and patches the row by id. A build retires the old rows, enqueues page
jobs that queue each other, and ends READY or FAILED. Audience has the
exclusion matrix, the rows and counts of the pages, and their retries.

**WebhookLog.** One row per change, one job per message; the job's awaits are
the duplicate check, `upsertThread`, `createMessage`, `patchThread` and the
mark, and the catch that marks FAILED and throws.

**SendPacing, TierLedger, CampaignRounds, CampaignCounters.** Slots from a
lane's cursor that was copied before; the daily counter of users, rolled by
sender or health check; the order in which runner and rollup take campaigns;
notes that ask for a recount, compared and cleared in two calls.

**Consent.** `evaluateSendPermission`, the writers of consent, blocks and links,
against sends that have already read.

**ConversationPane, ThreadPresses, InboxDesk, CampaignDesk.** `useFeed` with its
generations and in-flight guard, optimistic bubbles and retries; reactions, the
badge, Create person; filters, totals, toasts and two people's deeds; the
builder that saves step by step and the detail that gates the launch.

**Templates, TemplateRequests, OneRequest.** The row against Meta; the calls
that carry one `requestId`. `OneRequest` is the abstract promise (at most one
message; a yes is a yes to what was asked), and `RequestsAreOne ==
One!OneSpec` is the refinement.

**Accounts, Upkeep, Erasure.** Claims before records, step by step; the media
worker against the purge; rounds of listing and destroying.

**SettingsDesk.** One administrator's page. `Post` is the page's one way to
ask: it sets the flag, clears error and notice; an answer clears the flag,
whoever set it. A save is a chain of requests with the drafts of the press; the
effect on new variables (`KeptDrafts`), the reloads after a deed, the count and
the ticks of a replay are as in `SettingsView.tsx` and `VariablesPanel.tsx`. The
routes check the role first, and read, write or create in as many steps as they
await; others write variables, deliveries fail and are processed, and a role is
taken away. A request may fail before or after it was carried out.

**Host modules.** Independent small specifications share a run: MCSending
(`part`: send, pacing, rounds, tier), MCReports (`topic`: receipts, counters),
MCConduct (`subject`: campaign, contact), MCDesk (`place`: sends, feed,
presses, templates, requests, inbox), MCOffice (`place`: numbers, years,
content, days, alone, pair, wording, log, flow, cards), MCStudio (`place`: pages, one, two). A behaviour
is one of them from its first state; the variables of the others never change.
Where a specification is checked on two instances, the second is a bound
(`AccountsBound`, `ErasureBound`, `SettingsBound`, `InboxBound`, `PagesBound`, `DeskBound`) that
`place` selects. The other MC modules give one specification its small sets.

## 4. Runs

| run | module, cfg | shows |
|---|---|---|
| outbound_send | MCSending, OutboundSend | `SecondCopyHasACause`, `DeliveredFailureHasACause`, `RequeuedAtMostOnce`, `AttemptsBounded`; `AllowancesAreKept` (lane rates, daily users); liveness `NothingInLimbo` (a message leaves QUEUED) and `NobodyWaitsForEver` (every campaign has its turn, a waiting one goes on); types |
| delivery_receipts | MCReports, DeliveryReceipts | `ReceiptsAreTrue` (`ReceiptsAreKept`, `RecipientAgrees`), `ProcessedMeansHandled`, `CountersSettle`, `NothingGoesBack`; types |
| delivery_receipts_regress | MCDeliveryReceipts, DeliveryReceiptsRegress | **violation** of "strictly monotonic" |
| campaign_claims | MCCampaignClaims, CampaignClaims | `ClaimsAreExclusive`, `SecondMessageHasACause`, `OverMeansOver` (`CompletedMeansDone`, `CancelLeavesNobody`, `SkippedMeansUnsent`); types |
| campaign_lease | MCCampaignClaims, CampaignLease | liveness `EveryoneIsReached` |
| campaign_lifecycle | MCConduct, CampaignLifecycle | `AudienceIsWhole`, `RowIsTrue` (`StartedIsKept`, `ReasonFitsStatus`, `ArchivedHasStopped`), `ConsentIsHonoured`; types |
| ready_is_whole | MCCampaignLifecycle, ReadyIsWhole | **violation** of "no partial audience reports itself ready" |
| webhook_log | MCWebhookLog, WebhookLog | `NothingDroppedWithoutCause`, `ThreadIsTrue` (`ThreadIsCurrent`, `CountedOnce`); types |
| desk | MCDesk, Desk | `PaneIsHonest`, `PressesAreTrue`, `InboxIsTrue`, `TemplatesAreSafe`, the refinement `RequestsAreOne`; types |
| office | MCOffice, Office | `AccountsAreRouted`, `UpkeepIsHonest`, `ErasureIsTrue`, `SettingsAreTrue` (`NothingIsReverted`, `ReplayIsAsConfirmed`, `OneWorkflow`, `BusyIsTrue`, `ErrorOrNotice`, `EditsAreKept`, `ScreenIsCurrent`); types |
| studio | MCStudio, Studio | `AudienceIsFair`, `ScreensAreTrue`; types |
| resume_costs_nothing | MCStudio, ResumeCostsNothing | **violation** of "a resume costs nothing" |

Deadlock is not checked: every component is idle once its work is done and its
bounded inputs are used up.

**Bounds.**

- outbound_send: 1 message, 2 workers, 1 retry, 1 redelivery, 1 sweep that dies;
  2 pacers of batches up to 2; 3 campaigns of which 2 are served a tick; 2
  users, an allowance of 1, 2 days. No property relates two messages but
  through the page of the sweep; two workers make every overlap. The third
  campaign is the one left out of a page, and the second day the roll-over.
- delivery_receipts: 1 message, 2 events, 2 workers, 1 deferral, 1 aborted run;
  1 contact, 2 movers, 2 recounts, 2 notes, 1 slip. Two events of one message
  make the overlap, a batch with a repetition the stale copy.
- campaign_claims: 2 recipients, 2 ticks, batches and pages of 1 (so neither
  covers everything), 2 passes, 1 fault, so that "a single failure" is
  tested as such; campaign_lease: 1 recipient.
- campaign_lifecycle: 2 invocations at a time, 2 pages (a first and a last), 2
  builds, 1 retry; 2 people, 2 words, 1 mishap. `FewCauses` cuts behaviours in
  which more has gone wrong than the properties excuse at once.
- webhook_log: 1 change of 2 messages (siblings), 2 workers, 1 retry, 1 replay,
  1 read, 2 faults (a job that fails for good, and one more).
- desk: 2 conversations, 2 sends, 1 arrival, 2 upsets; 3 presses, 2
  disturbances; 3 calls of 2 kinds; 3 threads of which a page has room for 2, 3
  filters, 2 deeds, 3 hitches (1 at the screen).
- office: 2 workspaces, 2 numbers, 2 business accounts; 3 acts, 2 of them at a
  time, or 4 in a row on a number that may be connected already; 3 stored
  messages in batches of 1; nine days in runs of 2; 2 erasers, 2 rounds. The
  settings page: 4 presses (5 where the workflow is made twice: press, leave,
  come back, press), 2 requests at a time, 2 variables, 3 deliveries of which 2
  are replayed at once, 1 change by others, 1 fault.
- studio: 3 people in pages of 2, 2 builds, 1 throw, 1 edit.

Symmetry is used over interchangeable workers, events, ticks, recipients and
invocations, and never in a run with a liveness property.

**Fairness.** Only crons and jobs that run are assumed. NothingInLimbo: time
passes (`Age`), the hourly health check runs and finishes its sweep but for
`MaxSweepAborts` times; nothing is assumed of the queue, which can lose an
enqueue without anyone noticing. TurnsComeRound: the runner and the rollup
start and work through their lists. WaitingEnds: the runner, the health check
and the jobs under way run. EveryoneIsReached: ticks start every minute and run
but for `MaxFaults` deaths, and time passes; nothing of the health check or the
admin.

## 5. What the runs found

`PROJECT.json` quotes, for each finding, the line of the documentation or
comment and the line of the code. Three are runs of their own: a batch can move
a status back, a second build lets the first chain report half an audience
READY, a page job that is retried excludes its own people. The others are
causes a passing property has to except, among them: a broken connection is
always retried; one lost answer, or one death between message and link, is
enough to message a recipient twice; a stale copy can overwrite CANCELLED; a
sibling's job writes PROCESSED over the FAILED of a message that was never
stored; a note written between compare and clear is gone; START lifts a block a
rep has set; a sync leaves a reshaped template published; an account whose
first probe failed is CONNECTED later without a claim, and so is one that a
reinstallation passed over because it was not CONNECTED then; the pane merges the
answer of another conversation; a draft nobody touched writes another
administrator's change back, and two requests under one busy flag make the
notification workflow twice. Seen while modelling, and no property's business:
the notices "saved" and "tested" are cleared by the reload that follows them,
and the two buttons of the variables' bar are not gated on the role, as the
comment on `AdminAction` says every button is (the route refuses them).

## 6. Proofs

The theorems hold for any sets and any limits that satisfy the one named
ASSUME of the module they are about (`OutboundSendAssumption`,
`TierLedgerAssumption` ...); TLC evaluates those assumptions in the runs. Each
safety theorem is one inductive invariant, stated at the head of its module and
checked by TLC before it was proved: the initial states have it, every action
keeps it (one lemma or step per action), it implies the property.

**SendingProofs.** The send path: `TypeCorrect`; `RequeueCorrect`: the property is not
inductive, since a sender writes back its old copy of `requeuedAt`;
`RequeueInv` adds that whoever clears the mark also takes the row out of QUEUED
for good. `CopyCorrect`: `CopyInv` says of a message without a cause that the
copy Meta took is recorded, or held by the one worker about to record it, and
that no other worker is past its marker read. `FailureCorrect` from the same
invariant. `AttemptCorrect`: the attempts made and the claims on further ones
never exceed the row's counter plus what sweep and redelivery added.

The allowances: `AllowancesCorrect`, for any number of callers, any rate,
batch, number of users and days. `PacingInv`: on a lane whose cursor no two
callers shared, the times of the batches that were paced are disjoint, end
before the cursor, and contain no slot given already (`Reserved`, `Disjoint`,
`Placed`, `Apart`); `RatesFit` is the arithmetic of `laneRate` for every ceiling
and share. `TierInv`: users pass into the sets of kv only through their own
sender (`NotedOnly`), so the branch "counted before" is never taken in a
campaign; while nothing is blamed, who was reached is counted or has a sender
on the way that adds one to a copy which is still the counter, and who is queued
fits into what is left (`Accounted`). `SendingIsBoth`: a behaviour of MCSending
is one of each specification.
`SendingIsTyped`: every campaign keeps exactly one place in the
order by `lastRunTickAt`, which is all that keeps a campaign in the lists
(`ServedTurns`: whoever is served is taken out of its place and put last;
`EveryoneHasATurn`: as many places as campaigns, so none is without one), and a
page holds campaigns only (`PlacesCount`: of k listed places there is a k-th).

**CampaignClaimsProofs.** `TypeCorrect`, `ClaimsCorrect` (what a tick holds is a
fresh claim, unless a cancel took it and noted so), `MessagesCorrect` (a row no
fault touched has no message, or one and is past its claim or at a tick's
hands), `EndsCorrect` (between the two counts and the write nobody comes back
unnoted).

**CampaignLifecycleProofs.** `TypeCorrect`. `RowCorrect`: what a copy still says
of the row it was read from (`CopiesHold`). `AudienceCorrect`: without a named
cause the build is at one place, an invocation or a queued page, and the pages
written are exactly those before it (`OneBuild`, `BuildHolds`). `ConsentIsTyped`,
`ConsentCorrect` (`ConsentInv`: a job under way is for the person the conversation
is linked to; a STOP that was said last is in a job's hands or obeyed; the open
gate has read rows that are still so, but for a block that was lifted; a person's
events and the edits still to be back-filled are as many as the decisions and the
events whose decision is still to come; the last event is the status, unless an
edit waits or a writer has still to do what its event says; every answer, also
one still to come, has a decision of its own). The proof changed the model twice.
Two STOPs weigh the same status, one writes, a rep sets it back, the other
writes: the status is again the one that was weighed, so comparing the two did
not note the cause `overlap`, which now covers a second event logged. And
`StopIsObeyed` does not need that cause, so it no longer excepts it.
`ConductIsTyped`: every behaviour of MCConduct is one of the lifecycle and one of
consent (`ConductImplements`).

**WebhookLogProofs.** `TypeCorrect`, `NothingIsDropped` (a job past its create
has stored its message, and works on a recorded event), `ThreadCorrect` (each
message is entitled to one count; while nothing slipped, copies of the counter
are the counter and what is stored is on the thread or about to be).

**ReportsProofs.** The receipts, the counters, and MCReports as a whole.
`AdvanceOnlyAdvances` is the algebra of `advanceStatus`. `TypeCorrect`;
`ReceiptsCorrect` (`ReceiptsInv`: without a stale cause the copy a run has still
to apply from is the row, and the recipient shows the status or a run is about
to write it); `StatusCorrect`, an action property; `HandledCorrect`
(`HandledInv`: the tracked job of an event is at one place, and each receipt of
a batch is applied, listed in a run, handed on, or given up).
`ReportsTypeCorrect` needs that no count of `queuedCount`, old or new, exceeds
what the rows say. `CountersCorrect` (`SettleInv`): a total that is behind has a
note, or somebody about to write one, also since the recount under way started;
the tick knows the difference of queuedCount. `ProgressCorrect` (`FunnelInv`):
totals and counts under way lag behind the rows in the order they were taken.

**OfficeProofs.** `UpkeepIsTyped`, `UpkeepTold` (`UpkeepInv`: a page that is not
full was all that was left of what was due, so what lies outside the batch under
way is emptied; the marker stays a retention behind today). `ErasureIsTyped`,
`ErasureTold` (`ErasureInv`: of what a request began with, whatever is still
there is in its list or of a kind it has still to list, and a message's
conversation is there as long as it is; an event that is not in the list of a
request came after it). `ErasureAssumption` says that the kinds of rows do not
share ids. `AccountsIsTyped`, `AccountsTold` (`AccountsInv`: unless requests of a
workspace overlapped, it has one request that writes claims, which is on
course: its record still has the WABA it claims, a count of other accounts is
still right or excused; every live record holds its claims, is excused or is at
that request's hands; every claim is needed by a record, left behind by a named
cause, or about to be given back. A step of another workspace is `Gentle`: it
takes a claim only with a race noted, so one lemma, `Composed`, does the others
for every action). `OfficeIsTyped`: every behaviour of MCOffice is one of each of
its components (`OfficeImplements`), so the type invariants of the four hold of the
office. `SettingsAreTyped`, `SettingsCorrect` (`SettingsInv`: unless two
requests were under way, there is one call and the flag is up with it; a draft
nobody typed is the stored variable, and so is what a save still carries of it;
who is about to make the workflow has found none; the ids and the count of a bulk
replay together are within what was confirmed; what the page shows is so, or the
call under way is about to read it again).

**StudioProofs.** `CampaignDeskIsTyped`, `ScreensHold` (`DeskInv`: there is
one call, of the screen that is open, and at its step unless the slips say
otherwise; what is behind the step of a clean screen is in the record; a sample
not marked old was asked for since Review was entered; the rows of a build agree
with the record, since nothing can be patched while it is READY or SNAPSHOTTING;
a whole pre-flight of the present round has the record's count, and so have the
modal and the launch made from it). It holds for any number of pages, and past
the launch, where the run stops. `AudienceIsTyped`, `AudienceCorrect`
(`AudienceInv`: an accepted row follows the rules, whoever holds it; unless
builds overlapped or a page ran again, a build is at one place, an invocation or
a queued page; every person up to that page has the row the first matching rule
gives beside those who were in before it on its page and, of the earlier pages,
those with a number that is primary on its page (`Decided`, `SeenBy`), the rows
after it are undone, and a job carries the counts of the rows before its page).
That a page's verdicts exist (`VerdictsFollow`, of a recursive function in scan
order) and that the audience is the reference (`ReadyIsTheReference`) are
inductions, made by a least counterexample. `StudioIsTyped` follows, as
every behaviour of MCStudio is one of each (`StudioImplements`).

**DeskProofs.** `RequestsCorrect`: every initial state and step of
TemplateRequests is one of OneRequest, or a stutter, under the refinement
mapping; what a call learned from its lookup is still true or is answered as if
it were. `TemplatesAreTyped`, `OfferedTemplatesAreSafe` (`TemplatesInv`: before
the submission nobody knows of the template; what a walk past the template's
page has not seen, or a pass is about to disable, is not listed or was
submitted during it; a pass that nothing disturbed holds Meta's record and the
row as they are). `PressesAreTyped`, `PressesCorrect` (`PressInv`: the guard is
up only while the pane shows a count and somebody zeroes it; the member has one
call, which has the chip until it is written; a person is created under the
guard, by one call). `PaneIsTyped`, `PaneCorrect` (`PaneInv`: what an answer on
its way passes over is in it as stored, or the pane had it before the call was
made; a call that counts is for the conversation shown and from its cursor; a
bubble without a row is on its way, or neither of its requests can store it any
more, or it is doubtful. That a delta page passes over nothing but what it has
rests on `LatestIsOne`, the maximum of a set of times). `InboxIsTyped`,
`InboxCorrect` (`InboxInv`: a void call has emptied the list, and an empty list
waits, complains or was read; whoever has yet to read will see a deed that was
answered, and who has read it has it; the toaster has seen no more than there is
and announced no more than it has seen, and every old message was in its first
page; an assignment under way still has the owner the timeline names, or its own
is in the row and not yet in the timeline). The proof needed one cause more than
the runs had shown: a conversation the page had no room for is news of old when
it moves up (`crowded`), and the toaster now has such a conversation in the run.
`DeskIsTyped`: every behaviour of MCDesk is one of each of its components
(`DeskImplements`).

Only model-checked: liveness and anything with ENABLED (`NothingInLimbo`,
`NobodyWaitsForEver`, `EveryoneIsReached`), which are out of the prover's reach.
Every invariant and action property of a passing run is proved.

## 7. Not modelled

- Webhook front door and authorisation: signature check and roles keep no
  state; the resolver is one look-up, `RoutedTo` in Accounts.
- Declarations (objects, fields, layouts, roles), copy, layout and the forms
  over the routes: no state the properties are about.
- Of the modelled parts, what `PROJECT.json` says at each component: mainly
  error codes and cost, identity matching, reactions on the server, the
  timeline, rendering and validation of message kinds, hourly caps, the
  translation of view filters, the window sweeper (which only clears flags the
  policy does not read).
