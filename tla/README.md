# Specifications of the newsletter agent

TLA+ models of a program whose mistakes end up in somebody's mailbox: which
campaign may be sent, by whom, when, how often, to whom, with what in it, and
what is remembered of it; and of what those answers rest on: how a newsletter is
drafted, who is signed in, and what the settings are. The program is a Streamlit
dashboard (people write, review and send newsletters), an agent worker (a daemon
that finds new blog posts, drafts newsletters, submits them for approval and
dispatches the approved ones) and one SQLite file that both write. Nothing else
coordinates them: there is no queue, and no lock beyond the database's own and
the circuit breaker's.

All paths below are relative to `src/` unless they name a `.tla` or `.cfg` file.

## 1. The system

### Processes and what they share

* **Dashboard script runs.** Streamlit runs a page's script from the top at
  every interaction. Runs of different browsers are concurrent, and a new
  interaction interrupts a script that is still running, a send included. A
  page acts on what it read when it was last drawn.
* **Worker passes.** `agent_worker.py` schedules discovery and dispatch passes
  (`max_instances=1` per job, lines 102–125); `--once` runs the same passes from
  a second process (line 95), and nothing prevents two daemons.
* **Recipients.** They click signed links, which open the dashboard's public
  engagement page: one more kind of script run.
* **The database.** `unit_of_work` (modules/repository/database.py) commits one
  transaction per `with` block. The driver opens a SQLite transaction only at
  the first write (lines 122–142), so a read before it holds no lock and another
  commit may fall between a read and the write it justifies. What is safe is
  safe by a conditional `UPDATE`, a unique key, or a foreign key.

Hence the granularity of every module: **a step is one committed transaction,
or one external call (LLM, e-mail provider) between two of them.** Whatever a
process read earlier sits in its own variables, and is acted on later.

### Components

| component | state | operations | what makes it correct |
|---|---|---|---|
| campaign state machine (core/enums.py, campaign_repo.py) | `campaigns.status` and its stamps | `transition_status`, `transition_or_raise`, `begin_send` | a campaign is claimed for sending once; what was submitted waits for its approval |
| campaign management (campaign_service.py) | `campaigns` | create, duplicate, mark ready, edit, archive, delete | nothing is taken away from under a run |
| approval (approval_service.py) | `campaigns.approved_*`, `approval_tokens` | submit, issue and check a link, decide, expire | one decision, stamped once; what was approved is what goes out |
| dispatch (dispatch_service.py) | none of its own | a pass over a snapshot of approved campaigns | nothing before its window; everything approved after it |
| delivery (delivery_service.py, modules/email) | `recipients`, `send_records`, the counts of `campaigns` | attach, send, retry | nobody mailed twice; records say what happened |
| audience (subscriber_service.py, recipient_source.py, engagement_service.py) | `subscribers`, `suppressions`, `email_events` | import, add, remove, restore, load, click | an opt-out holds |
| agent pipeline (agent_service.py, discovered_repo.py) | `discovered_posts` | discover, extract, generate, link, attach, submit, notify | each post is put before a reviewer once; a bounded queue and bounded cost |
| send window (config/settings.py) | none | `next_send_after` | strictly later, in every month, skipping none |
| discovery (modules/discovery) | none | list the newest posts | posts keep one identity |
| ingestion (ingestion_service.py, scraper, ui/pages/generate.py) | `articles`, the selection in a session | read a batch, paste a text, select, draft | the order pasted; one newsletter per article |
| text cleaner (modules/cleaner) | none | clean, truncate | the budget is kept, nothing twice |
| generation, LLM providers (generation_service.py, modules/ai) | the breaker's fields, jobs of a pool | summarise, compose, repair, rewrite | bounded attempts; an outage is cheap; the breaker opens for a reason |
| templates and brand (modules/template) | brand settings | render, personalise | a way out of the list in every mail, one's own |
| authentication and sessions (auth_service.py, ui/session.py) | `users`, failure counts, cookies, sessions | log in, lock, restore, log out, turn off | a lockout stops guessing; who is off stays out |
| settings (config/, settings_service.py) | the live object, override rows | set, reset, apply at start | both layers agree; only valid values |
| agent status (agent_status.py) | heartbeat rows | record, display | no false alarm, no missing one |
| health, analytics, logs, prompts, public address | log rows | display, look up | display only |

`PROJECT.json` gives each component's status; section 7 gives the reasons.

### What interacts through what

```
 discovery ──> discovered_posts ──> agent pipeline ──> campaigns (DRAFT, AWAITING_APPROVAL)
                                            │                │
 people ──> subscribers ──> load ───────────┴─> recipients   │  reviewers decide
     ▲             ▲                                 │       ▼
 clicks ──> email_events ──> suppressions ──> (at load)   dispatch, or a page's Send
                                                     │       │
                                                     └──> delivery ──> send_records, counts
```

### Where it is hard

The full list, each at its line with the properties that watch it, is under
`hazards` in `PROJECT.json`. In short:

* two claimants of one campaign; a snapshot older than what it is used for;
* a rewrite, a delete or a list replacement that checked the status before a
  claim or a decision and writes after it;
* a run that is killed, interrupted or raises after its claim, after its mail,
  or after its records;
* a batch that aborts after successes and failures in some order;
* a recipient list read while its people unsubscribe, are imported, restored
  or removed;
* an unsubscribe made of three transactions, any two of which may be parted;
* a post's stages, each a transaction, under kills, retries and a budget;
* a limit (posts in flight) counted once and used minutes later;
* one breaker shared by calls that began at different times;
* pages that arrive in any order, and a page's run that breaks off between what
  it committed and what it remembers;
* guesses in several tabs at one failure count; accounts turned off under
  sessions and cookies that outlive them; links issued after a decision;
* a setting changed in memory first and in the table next, by two tabs;
* a heartbeat judged by another process, with other settings;
* tokens replaced in two passes, for nobody and then for each recipient;
* months that have no fifth weekday, and an approval on the send day itself.

## 2. Modules

| module | stands for | components |
|---|---|---|
| `CampaignStates` | core/enums.py: the transition table, the named sets, `can_transition`; the status `_settle` computes | state machine |
| `CampaignLifecycle` | campaign rows between sessions and worker passes | state machine, management, decisions, dispatch |
| `Delivery` | one campaign's delivery, recipient by recipient | delivery, the batch sender |
| `SendOnce` | what a send promises, abstractly; `Delivery` implements it | – |
| `AgentPipeline` | the agent's passes | agent pipeline, the part of discovery that names posts |
| `Audience` | master list, do-not-send list, clicks, loads | audience |
| `SendWindow` | `next_send_after` and the calendar under it; operators only | send window |
| `CircuitBreaker` | the breaker's methods, as operators on its fields | LLM providers |
| `Generation` | one operation of the AI service: the pool, its calls, the main thread | generation, LLM providers |
| `Truncation` | fitting an article to the token budget; operators only | text cleaner |
| `Ingestion` | the Generate page up to the draft; extends `Truncation` | ingestion |
| `Accounts` | tabs, accounts, cookies, failure counts | authentication and sessions |
| `ReviewDesk` | review links and decisions; extends `Accounts` and `CampaignStates` | approval |
| `Settings` | the live object, the table, edits | settings |
| `AgentStatus` | the worker's heartbeat and the dashboard's verdict; extends `Settings` | agent status |
| `Mailing` | from one newsletter to one message per recipient | templates and brand, building of messages |
| `MC…` | model values and small sets for TLC | – |
| `…Proofs` | theorems and their proofs (section 6) | – |

`CampaignLifecycle` and `Delivery` look at the same send from two distances.
The first has many campaigns and a run of three states (claiming, claimed, and
mailed once the first message is out). The second has one campaign and all the
steps in between. `Delivery`'s states of a run from `claimed` to `recorded`
correspond to `claimed` and `mailed`, according to whether anything has been
acknowledged; the campaign's status moves at the same two places (`Claim`,
`Settle`). `AgentPipeline` and `Audience` share with `Delivery` the recipient
list that a load attaches, and with `CampaignLifecycle` the campaign a pass
submits. They are checked apart: each puts the others' relevant moves among its
own actions (in `AgentPipeline` `Review` and `Dispatch`, in `Delivery` `Suppress`
and `Attach`). Three pairs are composed: `ReviewDesk` decides with the sessions
of `Accounts`, `AgentStatus` runs a worker beside the edits of `Settings`, and
the lifecycle's instance takes its windows from `SendWindow`.

Definitions preceded by a comment *Seeded fault* are not part of any
specification: they are wrong variants of the definition they stand next to
(a dropped guard, a missed reset), used to make sure that each property is
violated when the code behind it is wrong.

### CampaignStates

`Transitions` is `_TRANSITIONS`. `SourcesOf(to)` is the set of sources
`transition_status` puts in the `WHERE` clause of its `UPDATE`;
`TransitionOrRaise` in `CampaignLifecycle` is the caller that raises on a row
count of zero, `Transitioned` the caller that ignores it (`_settle`). A row
that does not exist has a status outside `CampaignStatus`, so no conditional
`UPDATE` matches it. `Outcome` is the three-way choice in `_settle`.

### CampaignLifecycle

State: per campaign its `status`, a version of its editable `content`,
`approvedAt` and `approvedBy`; a clock; per process a program counter, the
campaign it works on and the content it read; per worker the `DueCampaign`
snapshot of its pass. History variables: how often a campaign was claimed,
what mail the provider took (by whom, when, with which content), the content
the reviewer had before them, and which campaigns the agent has submitted.

| action | code |
|---|---|
| `Create`, `Duplicate`, `MarkReady`, `Archive` | `GenerationService._persist`, `CampaignService` |
| `Submit`, `Decide` | `AgentService._submit_for_approval`, `ApprovalService._decide` (status, stamp and decision in one transaction) |
| `Open` | ui/pages/dashboard.py:96–124 and the other pages that set the draft of the session |
| `Close`, `StartRun` | ui/pages/preview.py: the page, and the first read of a rerun |
| `WriteContent`, `AbandonWrite`, `DeleteRow` | `update_content`, `regenerate_field`, `CampaignService.delete`: writes keyed by id alone |
| `Snapshot`, `LeaveWaiting`, `TakeDue`, `EndPass` | `approved_campaigns`, `dispatch_due` and `_send_one` of `DispatchService`, oldest approval first |
| `Claim`, `ClaimRefused` | `begin_send` |
| `MailOut`, `Settle`, `AbortRun` | `_dispatch`, `_settle`, an exception out of `send_campaign` |
| `Crash` | a kill, or Streamlit interrupting a script |

Any campaign may be opened at any time, the agent's drafts included: the
dashboard lists the recent ones with a button that puts them on the Preview page,
and neither asks who wrote them or what their status is. Sending from there asks
only `begin_send`, for which a `DRAFT` is good enough. Pages stay open, which is
where stale ones come from.

### Delivery

State: the campaign's status and counts, the recipient rows (`list`, with ids
from `base`), `send_records`, the do-not-send list, and per sender what it read,
what it has finished with and how often it tried. `base` exists because SQLite
without `AUTOINCREMENT` numbers a new row from the largest id in use: a list
that replaces the newest one takes over its ids, and a sender that still holds
the old list writes records under ids that now belong to somebody else, or to
nobody (`PersistFails`, the foreign key). Whether another campaign's rows were
added in between is the choice of `after` in `Attach`.

| action | code |
|---|---|
| `Attach` | `validate_recipients`, `save_recipients` with the cascade to `send_records` |
| `Suppress` | an opt-out, from anywhere |
| `ReadList`, `ReadUndelivered`, `Claim`, `Refuse` | `send_campaign`, `retry_failed`: the read, then `begin_send` |
| `Begin`, `RaiseBeforeMail` | rendering, creating the provider, building messages |
| `Accept`, `Reject`, `Busy`, `AccountFails` | `BatchSender._send_one` by outcome: accepted, refused (or unreachable), busy, authentication or quota |
| `Persist`, `PersistFails`, `Settle` | `_persist`, `_settle` |

`ReadUndelivered` may happen in any status: the retry button acts on the
campaign the page is on, while the last report in the session
(ui/pages/preview.py:322–324) is not tied to a campaign.

### AgentPipeline

State: what is on the site; per row of `discovered_posts` (named by its dedupe
key: the post and the source it was seen through) its state, attempts and
campaign; the agent's campaigns; per pass its place, the headroom it counted,
the posts it took, the one it is on and the draft it made of it.

| action | code |
|---|---|
| `Discover`, `SkipPass`, `CountInFlight`, `Select` | `AgentService.run_once`, `_discover` with `record_new`, `_process_pending` with `_in_flight` and `pending` |
| `Take`, `Extract`, `Generate`, `MarkGenerated`, `AttachRecipients`, `Submit`, `Notify` | the loop of `_process_pending`, `_draft_one` and its stages, each its own transaction, `_request_approval` |
| `RecordFailure`, `LoseFailure` | the handler in `_process_pending` with `_record_failure`, and that failing |
| `Crash` | a kill |
| `Publish`, `Review`, `Dispatch` | the world: the site, the reviewers, the dispatcher |

### Audience

State: the master list (absent, active, inactive), the do-not-send list, the
events; per visitor what their tab shows of which link; per staff session an
import or addition under way; per load its place and the addresses it holds.
History: how many clicks on a link were answered as the first, who was told that
they are unsubscribed, who was removed and not put back by name, and what had
been told when a load began.

| action | code |
|---|---|
| `StartImport`, `StartAdd`, `WriteRows`, `GiveUp`, `Remove`, `Restore` | `SubscriberService` (a check in one transaction, the write in the next or after an unlocked read) |
| `OpenLink`, `Record`, `StopSending`, `Deactivate`, `Thank`, `CloseTab` | ui/pages/engage.py, `EngagementService.inspect` and `apply`, `_stop_sending` |
| `Interrupt` | an exception or an interrupted script between two of them |
| `BeginLoad`, `Bootstrap`, `NoFile`, `Seed`, `ReadAgain`, `Validate`, `Upload`, `AttachList` | `RecipientSource.load`, `validate_recipients`, the upload on Preview |

### SendWindow

An instant is a minute on the wall clock of the configured zone. That is what
the code compares: both datetimes carry the same `ZoneInfo`, and Python then
compares their wall-clock fields and ignores their offsets, so that a change of
the clocks in between moves nothing. Month numbers (`YearOf`, `MonthOf`) are
`_add_months`; `NextSendAfter` is `next_send_after`, its month passed in because
the code takes it from the instant.

### CircuitBreaker and Generation

State: the stage of the operation, its articles' jobs, attempts and repairs, the
breaker, whether the page's run was interrupted, and which summary each article's
row ended up with. Job 0 is the main thread's call. History: the failures paid
for in the present outage.

| action | code |
|---|---|
| `StartDraft`, `StartRewrite` | `GenerationService.generate`, `regenerate_field` and the subject variants; each builds its provider anew |
| `Take`, `Ask` | the pool of `MAX_PARALLEL_SUMMARIES`; `allows_request` |
| `Retry`, `Unreachable`, `RateLimited`, `CutShort`, `Answered`, `AskRepair` | `_post` and `generate` of the provider by outcome, `_repair` of the engine |
| `Tick` | time passing for the breaker while calls wait |
| `Interrupt`, `CollectFails`, `Compose`, `Persist`, `ComposeFails`, `RewriteEnds` | the main thread |

### Truncation and Ingestion

A text is the sequence of its paragraphs, each with a length; what is kept of it
is a number of paragraphs from either end. State of `Ingestion`: the batch being
read, what came of each address and in which order, the articles table, the ids
selected in the session, the drafts.

| action | code |
|---|---|
| `Paste`, `FetchOk`, `FetchFails`, `Save` | `IngestionService.ingest_urls`: `_deduplicate`, the pool, one transaction |
| `AddManual`, `Select`, `RemoveArticle`, `Logout` | ui/pages/generate.py, ui/state.py |
| `ClickGenerate`, `DraftFails`, `DraftPersisted`, `ShowDraft` | the Generate button around `GenerationService.generate` |
| `Interrupt` | a rerun or an exception anywhere in it |

### Accounts and ReviewDesk

State of `Accounts`: the accounts table, and per tab who it is signed in as, the
cookie its browser keeps, the cookie its page load came with, and the login or
restoring under way; the failure counts of the one `AuthService` the tabs share.
A login is four steps, between which the other tabs and the administrator get in:
it asks for the lock (`asked`), reads the row of an active account (`found`, or
`unknown`), and verifies the password, which signs in or is `counted` and then
perhaps locks. The row is read once: bcrypt takes its time after that, and nothing
asks again whether the account is active. A cookie's row is read (`restoring`)
and used likewise. History: wrong passwords verified during a lockout, and tabs
that *held* an account when it was turned off, being signed in as it or past the
read of its row.

| action | code |
|---|---|
| `BeginLogin`, `Look`, `SignIn`, `WrongPassword`, `FinishFailure` | `authenticate` in the steps other threads can fall between: the lock check, the row, the verification and the count, the lock |
| `ReadCookie`, `Restore`, `RestoreRefused`, `Reload`, `SignOut` | ui/session.py, app.py |
| `CreateUser`, `Toggle` | the Users tab |
| `Submit`, `Issue` | the agent: two transactions |
| `OpenLink`, `Decide` | ui/pages/approvals.py, `ApprovalService.check`, `_decide` |

### Settings and AgentStatus

State of `Settings`: the release, the settings table, the live object, and per
script run the edit it is in the middle of. `apart` remembers for which settings
overlapping edits, or a start that could not read the table, have parted the two
layers. `Assigned` is an assignment to the live object: every one goes through the
validators, that of a start, a revert and a rollback as much as that of an edit,
and what they refuse changes nothing. They are not idempotent: of a URL that ends
in `/v1/v1` an edit takes one `/v1` and the next start the other
(`_normalise_base_url`, config/settings.py:187–203). `Plain` says of a key that
validating what it has been given, its row or its baseline, makes no more of it.
`AgentStatus` adds the worker: the interval it was started with, the
hours to its scheduler's next slot, and the age of its last heartbeat.

| action | code |
|---|---|
| `SetLive`, `Persist`, `PersistFails` | `SettingsService.set`: assign, then write, or put back |
| `ResetRow`, `ResetLive` | `reset`: delete, then restore |
| `RestartApp`, `StartWorker` | `bootstrap`, `main`: `apply_saved`, perhaps of a later release whose validators accept less |
| `EndPass`, `StopWorker`, `Tick` | the worker's jobs and its scheduler |

`Headline` is what the dashboard says.

### Mailing

State: the brand settings, which tokens the newsletter's fields and the template
hold, the rendered e-mail, the messages built and mailed. A part of a message is
a function from the places in it to what stands there: a token, a neutral
placeholder, a recipient's value, a signed link, the plain page. `Merged` is
`apply_merge_tokens`.

| action | code |
|---|---|
| `Render`, `RenderRaises` | `TemplateRenderer.render` with the recipient at `None`, `resolve_brand`, `_assert_compliant` |
| `Build`, `BuildRaises`, `BeginBatch`, `Mail` | `_dispatch` with `_build_message`, `_recipient_links`, `_assert_no_unresolved_links`; `send_many` |
| `EditBrand` | a setting saved between the two |

It is the inside of `Delivery`'s `Begin` and `RaiseBeforeMail`.

## 3. Runs

`tlc -config <cfg> <module>`; each finishes within three minutes on two workers.
Each answers one question.

| run | question | instance | distinct states |
|---|---|---|---|
| `lifecycle` | Do claims, approvals and windows hold when a page, opened on any campaign at any time, and a worker's passes race, edit, delete and crash, and does an approved campaign go out? | an agent's and a user's campaign, 1 session, 1 worker, 1 approver, 3 instants around a February without a fifth Friday, 1 edit, 1 crash | 991 000 |
| `delivery` | Is nobody mailed twice, and are counts and records right, under replaced lists, aborts, retries and opt-outs? | 3 addresses, 2 files, 2 senders, 1 retry, 2 uploads, 1 crash | 82 000 |
| `agent` | Is every post drafted, submitted once, within limits, under failures and a kill? | 2 posts, the newest one listed, 1 source, 1 runner, 2 attempts, 1 in flight, 1 loss | 18 000 |
| `audience` | Do opt-outs and removals hold under concurrent clicks, imports, restores and loads? | 2 addresses, 2 links, 2 tabs, 1 staff, 1 load, 1 interruption | 611 000 |
| `generation` | What does an outage cost, when does the breaker open, and does every operation end? | 4 articles, 2 workers, threshold 2, window 2, 1 retry, 1 repair | 208 000 |
| `ingestion` | Do texts fit, do stories keep their order, and is an article drafted once? | 3 addresses, batches of 2, 3 articles, 2 drafts, 6 paragraphs | 109 000 |
| `desk` | Do lockouts, deactivations and review links hold in two tabs? | 2 users, 2 tabs, 2 attempts, lockout 1, links of 1, 1 campaign, clock to 1, cookies of the user who is not an administrator | 1 590 000 |
| `settings` | Do the two layers agree, and is the worker's state reported rightly? | 3 settings, one of them a URL, 2 threads, 3 edits, 2 releases, passes to 2 hours | 149 000 |
| `v_ApprovalFixesContent`, `v_AbortRecordsMail`, `v_NoMailAfterOptOut`, `v_OwnValues` | Promises the sources make that the code does not keep (section 5) | as above, smaller; 2 recipients, 2 pages | – |

### Properties

*Lifecycle.* `SendBegunOnce`: no campaign is claimed twice and no two runs hold
one. `SubmittedMailNeedsApproval`: once the agent has submitted a campaign it is
mailed only after an approval, and never when rejected, whoever had it open as a
draft. `DispatchWaitsForWindow`: what a pass mails was due by the
stamp the row carries, although it decided from a snapshot. `RunHoldsCampaign`:
while a run lasts its campaign is `SENDING` (or deleted by a delete that had
checked before). `ApprovalStampedOnce`: the stamp never moves. `ApprovedGoesOut`:
a pass that comes at its window or however late after it takes an approved
campaign, unless somebody sent or archived it first.

*Delivery.* `SendsOnce`: the refinement of `SendOnce`. `SettledCountsMail`: the
counts and the status of a settled campaign agree with what the provider took,
also after an abort or a replaced list. `RecordsMatchMail`: the records a run
writes say `SENT` of exactly the rows whose mail was taken. `RunEnds`: every run
ends.

*Agent.* `InFlightBounded`, `SubmittedOncePerRow`, `GenerationsBounded`,
`GeneratedIsSubmitted`, and `PostReachesReviewer`: every discovered post reaches
a reviewer or uses up its attempts; only a kill after `GENERATED` may strand it.

*Audience.* `OptOutHolds`: whoever was told they are unsubscribed is, for good,
on the do-not-send list. `OptOutReachesLists`: no list about to be attached has
somebody on it who was told so before its load began. `FirstTimeOnce`: one click
per link counts as the first. `RemovedStaysRemoved`: no import or bootstrap
brings back whoever was removed.

*Generation.* `OutageCostBounded`: in one outage at most the threshold, and the
calls under way when it is reached, wait for a timeout. `OneProbe`: half-open lets
one call through (nothing in the breaker says so; the pool's draining does).
`OpenedByFaults`: only faults of the endpoint open it. `GenerationEnds`.

*Ingestion.* `TextFits`: what the model reads of an article keeps the budget and
holds no paragraph twice. `StoryOrder`: a batch stands in the order pasted, and
the ids read back by position are the batch's. `DraftedOnce`: one newsletter per
article, but for runs that broke off before the page was told.

*Desk.* `LockoutHolds`: with *n* tabs at most *n* − 1 wrong passwords are verified
in a lockout. `OffAccountsStayOut`: a tab has a session of an account that is off
only if it was signed in as it, or had read its row as active, when it was turned
off, and has not failed, signed out or been reloaded since. `PendingKeepsItsLink`: no order of issuing, opening and
deciding takes a pending campaign's link away, or calls it used.

*Settings.* `LayersAgree`: where nobody is editing, and validating the value again
would leave it as it is, a restart would change nothing. `NoFalseAlarm`, `DeadWorkerReported`: the dashboard's "stalled" is
neither early nor missing.

*Mailing.* `OwnWayOut`, a theorem (section 6): whoever is mailed has a way out of
the list in each part, and it is their own.

`SettledCountsMail` and `RecordsMatchMail` count *acknowledged* mail. A message
the provider delivered and did not acknowledge is a failed one to the code, and
to the model.

### Bounds, and why they are enough

* Three instants (a minute before a window, the window, the next window) leave an
  approval before and at a window, and a pass that waits, misses one and finds
  the next. They are a real February's and March's: `WindowsAreComputed` checks
  that `next_send_after` leads from each to the next. The proofs take any strictly
  later function, and `StrictlyAfter` shows that `next_send_after` is one.
* Two claimants suffice for a race on a claim, which one conditional `UPDATE`
  decides. The instance has a page against a pass; the proofs, on which the
  lifecycle's safety rests, have any number of pages and passes.
* `MaxEdits = 1`: one rewrite tells approved content from other content.
* Three targets are the fewest for an abort after a failure followed by a
  success; one retry has both branches of `Busy`; two lists are the fewest for
  a replacement.
* `MaxCrashes`, `MaxLosses = 1`: one process is lost at any point and
  the others, and its own successor, meet what it left. The safety properties of
  `CampaignLifecycle`, `Audience`, `Delivery` and `AgentPipeline` are proved for
  any number of losses.
* Two posts and one place in flight make one wait for the other. Two attempts
  have the first failure and the last.
* Four articles on a pool of two: the breaker can open with articles waiting, and
  with one call under way. A threshold of two tells the count from the opening.
* The texts of `MCIngestion` have a first paragraph longer than the lead, ends that
  fit to the character, and equal headings at both ends.
* Two tabs and two attempts have a guess verified while another tab's locks the
  account. Two users: one who turns off, one who is turned off. A clock of two
  instants has every lockout, token and link alive and over.
* Three edits overlap and then repair; the second release accepts less, so that a
  saved row can become invalid. The URLs include one that loses a `/v1` at each of
  two assignments, one whose second loss leaves no URL, and plain ones.
* Two tabs race on one link; a second address is there to be imported, removed
  and restored beside the one that opts out.

Symmetry is used in `desk` only, of the two tabs; it checks no liveness.

`desk`, `ingestion` and `v_OwnValues` disable the deadlock check, because their
instances end: the clock, the articles and drafts are bounded, and a campaign
that was mailed, or raised, is over. No other run does: in those models the
system never stops where it should not.

## 4. Fairness

Fairness is assumed only of what runs by itself.

* **Lifecycle** (`Fairness`): a worker's scheduler keeps starting passes and a pass
  runs to its end, its sends included, so `PassStep \/ RunStep` of each worker is
  weakly fair. Nothing is assumed of people, their pages and sends, or of the
  clock: `ApprovedGoesOut` speaks of windows that have opened.
* **Delivery**: `RunStep` of each sender. Starting a run is not fair.
* **Agent**: passes are weakly fair. `CountInFlight` is strongly fair: without
  it every pass might find no usable recipient list, which is a state of the
  installation and not of the agent. The reviewers decide in the end, and the
  dispatcher takes what they approve (what `ApprovedGoesOut` shows of it).
* **Generation**: `GenerationStep`. Every request has a timeout, so a thread with a
  call to make or an answer to use gets on. Starting an operation, interrupting
  one and the clock of the breaker are not fair.
* **AgentStatus**: `Tick`. Hours pass whatever the processes do. Neither the
  worker nor the people at the settings need do anything.
* **Ingestion, Accounts, ReviewDesk, Mailing** have no liveness property: each
  waits for people, and what matters is what never happens.
* **Audience** has none either: its hazards are about what holds at
  every moment. The one thing that would need to happen eventually, the repair
  of an interrupted unsubscribe, does not (section 5).

## 5. Where the code and its own words part

Four have a run whose counterexample shows it.

1. `ApprovalFixesContent` – core/enums.py:98 says edits happen while a campaign
   is pending, as otherwise an approval guarantees nothing. `regenerate_field`
   writes whatever the status; a rewrite begun before the approval, or from a
   page left open, changes what was approved.
2. `AbortRecordsMail` – services/delivery_service.py:337 says that what already
   went out must still be recorded. An aborted batch records the first *n*
   targets, *n* being the number of successes; a failure before a success moves
   a record from who got the mail to who did not. The count is right
   (`SettledCountsMail`), the names are not.
3. `NoMailAfterOptOut` – recipient_repo.py:56 says the do-not-send list is
   checked before every send. It is checked when a list is attached.
4. `OwnValues` – docs/01_PRD.md:187 promises personalization tokens, and
   delivery_service.py:360 says the template is "rendered once for the whole
   campaign and personalised per recipient". The first pass is for nobody and
   replaces `{{name}}`, `{{company}}` and `{{email}}` by placeholders; it leaves
   only the link tokens for the second (renderer.py:363–371). Every recipient
   reads "there". tests/integration/test_delivery_service.py:252 finds the names
   it looks for in the To header.

The modules state eight more, which no run checks; TLC finds each violated when it
is put into a configuration of its module.

* `AgentMailNeedsApproval` (`CampaignLifecycle`) – agent_service.py:12: the agent's
  campaign "becomes eligible for delivery only after a human approves it". It is a
  `DRAFT`, which is sendable, between `_persist` and `_submit_for_approval`, and
  stays one for good when the pass is killed or attaching the list fails; the
  dashboard opens it on Preview like any other, and whoever presses Send there
  mails it with no approval. `SubmittedMailNeedsApproval` is what holds.
* `SavedIsLive` (`Settings`) – settings_service.py:509: what is persisted is the
  normalised value, as "the database must agree with the running process about
  what is configured". A start assigns it through the validator again:
  `https://h/v1/v1` is saved and live as `https://h/v1`, and after a restart live
  as `https://h`. `LayersAgree` is what holds.
* `SendingSettles` (`CampaignLifecycle`) – core/enums.py:102: a campaign that is
  mid-send must reach a settled state. An exception or a kill after `begin_send`
  has committed leaves it `SENDING`, out of which no operation leads.
* `RetryReenters` (`Delivery`) – core/enums.py:107: a retry re-enters `SENDING`
  from a settled state. `retry_failed` claims with `begin_send`, which does not
  take settled states. The same refusal is why `SendsOnce` holds.
* `OneNewsletterPerPost` (`AgentPipeline`, with two sources) –
  discovered_repo.py:107: a post is known under either identity form. Each look-up
  tries one, so a post first listed by the API and then by the fallback feed is
  drafted and submitted twice.
* `ToldMeansStopped` (`Audience`) – ui/pages/engage.py:70 tells a repeated visitor
  that no further newsletters will be sent. The page looks at the event, which
  precedes the suppression: after an interruption between the two it says so to
  somebody who still is on the list, and offers nothing that would repair it.
* `SummariesFollowArticles` (`Generation`) – campaign_repo.py:84: articles are
  linked "with their stage-1 summaries". They are paired by position with a list
  that skips the articles that failed. Nothing reads the column back.
* `DeciderIsActive` (`ReviewDesk`) – user_repo.py:49: "Deactivation must take
  effect immediately". A signed-in tab is never asked again (app.py:240–246), so
  an account that is off can still decide until its tab is reloaded.

Smaller things met on the way, in no module's properties:

* The subject is merged without links (delivery_service.py:375): a link token
  typed into it goes out as it stands. `_assert_no_unresolved_links` looks at the
  other two parts.
* A postal address that autoescaping changes ("Smith & Co") is not found in the
  HTML by `_assert_compliant`, which refuses every rendering.
* A first paragraph longer than 65 % of the budget is dropped whole, though
  tokenizer.py:67 keeps the lead for what it says; if the last one is too long as
  well, nothing is left.
* Turning the automation off does not stop a running worker: it reads the switch
  once (agent_worker.py:147–151), while agent_status.py:109 calls the agent off
  and the Settings page says that no restart is needed. The same holds for a
  shortened interval, which can make a healthy worker look stalled.
* A worker that never finished its first pass is shown as running for ever, and
  `LAST_ERROR` is cleared only by a discovery that succeeds.
* A saved row the current release rejects is skipped at start, stays, and is not
  offered for reverting; `reset_all` has no caller.
* A decision taken before the agent has issued its link leaves a link that says
  "expired" in the end, with "the campaign was not sent"
  (approval_service.py:155), whatever was decided.
* A post that leaves the newest listed ones between two discoveries is never
  recorded (agent_service.py:157).
* The account tab makes an `AuthService` for each attempt
  (settings_page.py:299), whose failure count never reaches the lockout its
  comment mentions. The Users tab's button turns over what its rerun reads
  (line 352), not what its label said.
* A tab whose page load came with the cookie is signed in again by the rerun that
  follows its own signing out: the cookies a run reads are those of its page load
  (session.py:103), whatever `forget` has done to the browser's.
* A network fault comes back from the provider as a failed result
  (brevo_provider.py:104), which the batcher does not retry, although the comment
  expects it to.
* The failure count of a login ends with a lockout or a success, not with time
  (auth_service.py:117): failures weeks apart add up.
* One failed write turns logging to the database off for the life of the process
  (log_handler.py:76).

## 6. Proofs

`tlapm <module>Proofs.tla`; those about `SendWindow` are in
`CampaignLifecycleProofs`, those about `AgentStatus` and `Mailing` in
`SettingsProofs`, about `Accounts` in `DeskProofs` and about `Truncation` in
`IngestionProofs`. The theorems hold for every value of the constants:
any number of campaigns, sessions, workers, addresses, articles, tabs, settings
and recipients, every schedule and every bound. TLC's instances are single points
of that. No theorem rests on anything but the assumptions named in the modules,
which TLC evaluates, and, where a theorem names it, on there being one runner.

**CampaignLifecycle.** From `LifecycleAssumption` (sessions and workers are
different processes, `None` is not a value of anything, bounds are naturals) and
`ScheduleAssumption` (`next_send_after` is later than its argument). No property
is inductive alone: what goes out depends on what a process read long ago. The
inductive invariant has three layers, each proved from those below it:

* *Typed*: `TypeOK`, that sessions and workers stay at their own program
  counters, that a busy process has a campaign, and that an approved campaign
  carries its stamp. The last is needed for the type of the snapshot.
* *Claimed*: a campaign in a status from before a send has not been claimed and
  no run holds it; a run's campaign has been claimed exactly once; runs of one
  campaign are one run. This gives `SendBegunOnce` and `RunHoldsCampaign`. The
  induction works because no transition leads back to a sendable status, which
  the lemma `Sources` reads off the table.
* *Approved*: stamps are not later than now; a campaign the agent has submitted
  is never a draft again, so that nobody claims it undecided, on whatever page it
  stood open; a submitted campaign that was claimed has its stamp; the entries of
  a snapshot carry the stamp the row still has, and a worker's job was due by it;
  mail comes of a claim and is dated after the stamp, if there is one. Nothing in
  it depends on who opened what. It gives `SubmittedMailNeedsApproval` and
  `DispatchWaitsForWindow`, and `ApprovalStampedOnce` follows since a decision needs `AWAITING_APPROVAL`, to
  which nothing returns.

`Invariance` states the three together; `TypeCorrect`, `DoubleSendImpossible`,
`RunKeepsCampaign`, `NoMailUnapproved`, `NoDispatchBeforeWindow` and
`StampsAreFinal` are what follows.

**SendWindow.** `SlotInMonth`: every month of every year has its day, on the
weekday asked for. `StrictlyAfter`: the window opens after the approval, which is
`ScheduleAssumption` for the function the code uses. `NoSlotSkipped`: no slot of
the month before, the same or the next lies in between. They rest on the
arithmetic of the calendar (`MonthFollows`: a month's first day comes the length
of the month before after that month's first day) and on `UnclampedBound`.

**Delivery.** From `DeliveryAssumption` (files are sequences of addresses, bounds
are naturals). The argument is that a campaign has one run, ever: the claim
leaves the sendable states and nothing returns to them, so what that run has done
is all that has happened. The inductive invariant `IInv` is, in layers:

* *TypeOK* and *Lists*: neither an id nor an address stands twice in what a run
  has read. This is what the two filters of the list return: `ValidKeepsEachOnce`
  for `validate_recipients`, `UndeliveredDiffer` for the retry's selection.
* *Sole*: before the claim nothing has been mailed or recorded; after it, at most
  one sender is in a run.
* *Progress*: until it records, the run has exactly mailed the addresses, and
  holds the ids, of the targets it has an outcome `SENT` for, and there are no
  records.
* *Once*, *Counted*: no address has two mails, and as many have one as the run has
  outcomes `SENT`. The target whose turn it is stands in the plan once and so has
  not been mailed (`CurrentIsNew`).

`SettledCampaignsCount` is the last layer, read off when the run settles.
`RecordsAreTrue` follows from *Progress* since there were no records before.
`DeliveryImplementsSendOnce` maps each step of a run to a step of `SendOnce` or to
a stutter: a claim begins, an accepted mail is a mail to somebody who had none,
settling closes, and nothing else touches the phase or the mails. That a run
which dies is never resumed is part of it: its campaign stays `SENDING`.

The filters are recursive functions, so their lemmas are by induction. The
library's induction theorems take an operator and are of no use here, but its
`WFMin`, that a non-empty subset of a well-founded set has a minimal element,
takes sets: `Least` and `UpTo` get induction from it in the form "a set that
contains 0 and with k - 1 also k", and `RecursiveFunctionExists` that the
functions are defined at all.

**AgentPipeline.** From `AgentAssumption` (limits are naturals, posts and sources
are finite sets). `TypeCorrect` is for any number of runners: it needs that a
runner holds a row and a draft exactly at the stages that work on them. The rest
assumes `OneRunner`, which the worker arranges with `max_instances=1`; with two
the properties are false, which is the hazard of a one-off run beside the daemon.

* `RowSubmittedOnce` needs *Queued*: what a pass has selected is still pending and
  is not the row it is on (`WorkIsPending`); the draft it works on is its own and
  not submitted (`DraftIsMine`); a row that is before the reviewers is
  `GENERATED`, so `pending` does not select it again (`SubmittedHasLeft`).
* `PostCostsItsBudget` needs *Budget*: each generation of a row is paid for, by a
  recorded failure, by a loss, or by the one draft it has under way or submitted.
* `GeneratedReachedReviewer` needs `NotifiedIsLinked`.
* `QueueKeepsToLimit` needs *Headroom*: the campaigns in flight, the room the pass
  still has, the work it took and the draft under way add up to no more than
  `max_in_flight`, so that reviews and dispatches in between only make room.

**Audience.** From `AudienceAssumption` (links and files are about known
addresses). `TypeCorrect` first. `OptOutIsFinal` needs
that a tab which has passed `StopSending` belongs to a suppressed address
(`StoppedIsSuppressed`); `ListsRespectOptOuts` needs that what a load knew is
part of what has been told (`KnewIsLeft`), so that the bulk check in `Validate`
comes after it. `OneFirstClick` and `RemovalsHold` are inductive with the types.

**Generation.** From `BreakerAssumption` and `GenerationAssumption`. `TypeCorrect`
bounds attempts and repairs. `OutageCost` and `OnlyFaultsOpen` need the accounting
`GInv`: the pool's calls are no more than its workers, and the main thread's comes
only after them (`PoolBounded`); a closed breaker's count is what the outage has
cost, below the threshold (`Accounted`); and the count never runs ahead of the
calls that ended unreachable (`CountedFaults`). `HalfOpenProbesOnce` needs
`Drained`: the failure that opens the breaker frees its worker, so that fewer
calls than workers are posted; time passes for the breaker only when the pool is
full of posted calls or its queue is empty, hence only when the queue is empty;
and so nobody in the pool asks once the window has elapsed. Only the composing
call does, and it is alone.

**Settings and AgentStatus.** From `SettingsAssumption` (what a release lets pass
its page can be given, and every release accepts its `.env`; nothing is assumed of
what validators make of a value) and `StatusAssumption` (a pass takes at most the
interval and an hour). `LayersCorrect` needs `Ongoing`: what an edit that is alone
on its setting will write, or put back, is what the other layer has, for the values
that are `Plain`. `NoAlarmWithoutCause` needs `Beats`: while the passes record
themselves, the heartbeat's age and the hours to the next slot add up to the
interval, and to the pass itself once it has begun.

**Accounts and ReviewDesk.** From `AccountsAssumption` and `DeskAssumption`.
`LinksWork` needs `LinksFollow` (a link's campaign has left its draft, and a spent
link's campaign is decided; from a decision nothing returns). `LockoutWorks` needs
`Guesses`: in a lockout, what has been verified and what may still be is at most
the number of tabs less one, for the tab whose failure set the lock is not
guessing. `OffStaysOut` needs that whoever has read a row as active which is off by
now was counted when it was turned off (`HeldEarly`), since the step that begins
the session looks at nothing any more, and that a tab which signs in or restores
is in no session yet (`OneAtATime`).

**Mailing.** No assumptions. `EveryMailHasWayOut` needs that a rendering which
passed the compliance check still has its link tokens (`Personable`), for the
pass per recipient puts that recipient's own links there, also when the brand was
edited meanwhile, when its page is found again or the building raises.

Its proof stands in `SettingsProofs`, as an instance of `Mailing`: the brand is
settings.

**Truncation and Ingestion.** From `TruncationAssumption` (lengths are numbers and
the budget is positive: config/settings.py:249 asks for at least 500 tokens) and
`IngestionAssumption` (texts are sequences of paragraphs, the bounds are numbers).
`ArticlesFitTheirBudget` rests on `KeptFits`, which is about every text: costs add
up and grow (`CostAdds`, `CostGrows`), the last paragraphs cost what the others
leave of the whole (`CostOfTail`), and there is always a place where a budget is
spent (`FittingFits`). So two ends that are each within their share of a budget
that the whole text exceeds cannot meet, in a cleaned text, whose paragraphs are
two line breaks apart (text_cleaner.py:85). The guard against an overlap only ever
takes away a paragraph whose *text* is in both ends; the other half of its test
(`len(head) + len(tail) >= len(paragraphs)`) is never true.
The invariant of the page: a batch is numbered past every id there was
(`Table`), ids stand in the session in rising order (`Session`), the rows just
saved are the last ones, in no draft and not selected (`Saved`), and what is
selected has been made a newsletter at most as often as a run broke off
(`Counted`). `StoryOrder` and `DraftedOnce` follow from these. The places a
selection keeps are put in order by `InOrder`; that the order exists, for every
finite set of numbers, is `InOrderRanks`, by the minimal counterexample.

**Only model-checked.** Liveness (`ApprovedGoesOut`, `RunEnds`,
`PostReachesReviewer`, `GenerationEnds`, `DeadWorkerReported`), which the prover
does not reach.

## 7. What is left out, and why

*Inside the modelled components.* Changes of the schedule during a campaign's
wait. Pacing and batching of messages; the stop request, which nothing calls;
`send_test`, which changes no state; `MAX_RECIPIENTS` and CSV parsing (a file is
its parsed addresses). Fetch limits, redirects, robots and the extractor cascade
(a page is read or is not). Waits between attempts and the choice of an LLM
provider. Token signing (a token is one that verifies) and password hashing;
`change_password`. The brand's website, name, colour and logo.
`SuppressionRepository.remove`, `SubscriberRepository.delete`, `reset_all` and
the breaker's `reset`, which have no callers. People who edit, send, archive or
delete an agent's draft while its pass is still on it are in `CampaignLifecycle`;
`AgentPipeline` has only what the pass sees of them, a stage that fails.

*Narrowed on purpose.* `InFlightBounded` and `SubmittedOncePerRow` hold for one
runner, which `max_instances=1` gives the daemon; a `--once` run beside it may
count the same headroom. In `Audience` campaigns are not deleted. A master list
may have an active row of a suppressed address (`Restore` and `WriteRows` do
not look, or looked before): loads filter it, which is what is proved.
`SubmittedMailNeedsApproval` begins with the submission, since before it the
program does not keep the promise (section 5), and `LayersAgree` is about values
that validation leaves alone, for the same reason. `OffAccountsStayOut` lets in
who had read the account's row before it was turned off. `StoryOrder` is about
the order in the session: the model may later put the stories in order of
relevance (engine.py:117–122), which no module has.
`NoFalseAlarm` is about intervals that were not shortened under the worker, and
passes that take at most an hour more than the interval. In `Generation` a step
of the pool takes no time next to the breaker's window. A user's password is
either got wrong in a model or not (`Guessed`), and a browser keeps a user's
cookie or does not (`Remembered`).

*Other components.* Prompt files, the cleaning rules and the public address keep
no state and are about characters. Health, analytics and logs display what others
wrote. Of the scripts only the creation of the first account matters here.
Providers' wire protocols are external; the models have their outcomes.

## 8. Plan

Done: the lifecycle with the send window, delivery with `SendOnce`, the agent's
pipeline, the audience, generation with the breaker, ingestion with truncation,
accounts with the review desk, settings with the agent's status, and mailing;
proofs of every safety property that a run checks, and of the refinement. Next,
a composition of `AgentPipeline`'s submission with `CampaignLifecycle`'s decision
would carry `InFlightBounded` over to the real life of a campaign.
