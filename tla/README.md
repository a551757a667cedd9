# A verification project for the Nidria backend

Nidria is a case-management backend for relocation agencies (FastAPI, SQLAlchemy,
PostgreSQL). An agency opens a *case* for a client, gives it a *journey* of steps,
asks each person of the case for fields, documents and signatures, and follows up
with reminders. This directory holds TLA+ modules that model the parts of it where
concurrency, external services and long sequences of gestures meet, the TLC
configurations that check them, and proofs that TLAPS checks for every value of the
constants. `PROJECT.json` lists runs, mutants, findings, hazards and theorems, and
gives the lines each definition models.

Contents: [inventory](#inventory) · [what is hard](#what-is-hard) ·
[modules](#modules) · [runs](#runs-and-bounds) · [fairness](#fairness) ·
[disagreements](#where-the-code-does-not-do-what-it-says) · [proofs](#proofs) ·
[limits](#what-is-not-modelled) · [plan](#plan)

## Inventory

Paths are under `src/src/`. Every request of the API has a database session of its
own, and `core/database.py` rolls back what was not committed. PostgreSQL runs at
READ COMMITTED: a request is a sequence of statements, others interleave between
them, and only explicit `FOR UPDATE`, unique indexes and CHECKs protect it. Jobs run
in the same process, on threads, with synchronous sessions (`core/scheduler.py`).

| Component | State | Operations | Hard behaviour | What makes it correct |
|---|---|---|---|---|
| Credit ledger `signatures/ledger.py` | one balance row per agency; append-only entries | purchase, grant, reserve, consume, release | concurrent sessions; check, lock, write; replayed Paddle events | the balance is the sum of the entries, never negative; each pack credited once; each reservation settled once |
| Signature requests `signatures/` | requests, signer seats, submissions at DocuSeal | send, resend, late person, cancel, webhooks | webhooks late, repeated, reordered, concurrent; provider called before COMMIT | a completed request is signed by all its seats; credits follow requests; nobody is asked to sign twice |
| Journey progress `progress/` | steps of the case, rows of what is asked of whom, status of the case | start, close, reopen, validate, materialise, auto-close | edits of the template on live cases, arrivals, cascades inside one request | locks hold; nothing is forgotten or asked twice; auto-close only when complete; the case follows its steps |
| Reminders `reminders/` | reminder rows, activity | create, approve, edit, cancel, mark sent, dispatch, auto-create | a job that mails from memory while agents write; crash between mail and record; overlapping runs | nothing unapproved leaves; one mail per approval; no dead queue |
| Job runner `core/job_wrapper.py`, `jobs/` | `job_run`, `job_config` | scheduled tick, manual trigger, reconcile | each logged line commits; overlaps; crashes | a run records what it did |
| Journey templates `journeys/` | steps, requirements, prerequisites | edit, translate, import | edits are propagated to live cases | prerequisites have no cycle |
| Cases `cases/` | cases, persons, status, invitations | create, invite, update, purge | invitations and mails after COMMIT | status and journey agree |
| Billing `billing/` | subscription, status and anchor of the agency, stored Paddle events | webhooks, checkout, conversion by hand, seat sync | events out of order, repeated, concurrent, for another subscription; a unique violation with two causes | an event takes effect once; the newest event gives the status; the grace period starts at the first past due |
| Email campaigns, sequence `email_campaigns/email_sync.py`, `email_manager.py` | campaign, steps and their ids at Lemlist, renders, memberships | sync, launch, create and delete steps, pause, resume | one transaction around many calls that may fail or lose their answer; Lemlist sends all along | nobody is sent a placeholder or the email of a deleted step |
| Email campaigns, events `email_sync.py`, `suppression.py`, `readiness.py` | memberships, stored activities, checkpoints, opposition list | webhook, job, add, launch, pause, resume, remove, move | activities lost, late, twice, reordered, against a job and gestures without locks | the gravest activity gives the status; an opposition is never lifted and always arrives |
| Authentication `auth/` | refresh tokens, MFA challenges, activation and reset tokens | login, refresh, logout, activate, reset | concurrent refreshes, lost answers | a refresh token is used once |
| Agencies and seats `agencies/`, `core/seats.py` | members, invitations, pool of reader seats | invite, accept, cancel, expire | expiry job against acceptance; seats pushed to Paddle | seats paid are seats committed |
| Demo sandbox `demo_sandbox/` | demo agencies, imports, visits | create, import, expire, purge | advisory locks, workers | a live demo is never purged |
| Document templates `document_templates/` | drafts, provider templates, PDFs | build, replace, sweep | three stores with one transaction | nothing referenced is swept |
| Everything else | profiles, custom fields, documents, consents, roles, views, exports, dashboards, digests, usage, costs, comments, imports, signup, referral, translation, administration | forms and read models | one transaction each | – |

How they meet. A start of a step in *journey progress* materialises rows and calls
*signature requests*, which reserves in the *ledger* and creates a submission at
DocuSeal, all in one transaction. A webhook of DocuSeal signs a seat, may complete
the request (ledger, file, mails) and recomputes the active steps, which may close a
step and move the status of the *case*. A pack bought at Paddle comes through the
*billing* webhook into the ledger. Closing a step turns away its *reminders*, at the
next tick of the dispatcher. Editing a *template* rewrites live cases. An *email
campaign* is pushed to Lemlist by a sync, which holds the campaign row while it calls;
Lemlist sends on its own, and tells by webhook and to the job what the recipients did.

## What is hard

The 40 hazards of `PROJECT.json` are the list the properties were written from. The
recurring shapes are: a decision taken on a row read without a lock (ledger,
webhooks, reminders, billing, gestures on recipients, refresh tokens); an external
call before or after the COMMIT that records it (DocuSeal, mail, Paddle, Lemlist); a
webhook lost, late, twice, or out of order; rows that freeze what the template said at
some moment (requirements); and a job whose log lines commit, which releases its locks.

## Modules

### SignatureLedger (`signatures/ledger.py`, `shared/models/signature_credit.py`)

One agency, several sessions. A session is a record `txn[t]` with the operation it runs and
where it stands: the reads before the lock are one step (`PurchaseCredits`, `GrantCredits`,
`ReserveCredit`, `ConsumeCredit`, `ReleaseCredit`), the locking SELECT of the balance row
another (`LockBalance`, or `MissBalance` when there is no row), then `InsertBalance` or its
unique violation `InsertConflict`, and `Commit` or `Rollback`. As the ORM does, `LockBalance`
reads the columns into the session and `Commit` writes the absolute values computed from them,
of the columns that change (`Written`): without the lock an update would be lost. The sums of
the entries of each kind are kept, not the entries, except per request. CHECK and UNIQUE
constraints are tests at COMMIT (`ChecksHold`, `UniqueHolds`). One operation per transaction: a
caller that reserves for several documents in one transaction holds the same lock for all of
them.

### SignatureCredit (abstract), SignatureRequests

`SignatureCredit` is the promise in four actions: each request reserves one credit,
and that ends once, as a consumption or as a refund. `SignatureRequests` is the life of
the requests of one signable document: the step, the persons and their rows, the
requests with their seats, the credits, and DocuSeal as an external that remembers
who signed or declined. A webhook may be delivered whenever the submission has
caused it, so late, repeated and reordered deliveries are all behaviours. Handlers
are atomic here, except the resend, where the code reads who is seated, calls DocuSeal
and inserts with no lock: `ResendRequests` reads, `SendAgain` sends to whom it read and
commits, whatever others committed meanwhile, `GiveUp` is a refusal. `known` remembers which
requests were on file when the sender of each one read the seats. A start does not overlap
another one, since the rows it materialises are unique, and nobody sees a person that
`add_person` has not committed. `ContractSpec`, that is `SignatureCredit!Spec` over `available` and
`credit`, is checked as a property: the detailed module implements the abstract one.

### SignatureWebhooks

The same handlers for one request, statement by statement, as concurrent sessions
run them: what the ORM session has read, what it will write, the row locks it takes
when it flushes (signer, balance, request, in that order), the commit, which writes only
the columns the session changed. A seat is pending, signed or declined, and `StillPending`
counts the pending ones, as the code does. `Files` stands for the download and the filing
of the document, refused while DocuSeal has no signed document; `LiveReserve`, `CheckReserve`,
`LockBalance` and `Settle` are the settlement by the ledger. After a refusal to sign, the last
`form.completed` fails at the download, and DocuSeal repeats it until the submission expires.

### StepProgress (`progress/progress_manager.py`, `requirements_eval.py` and its callers)

One case, one request at a time. State: the template as the case sees it (definitions,
prerequisites), the persons and their values, the requirement row of each definition and
person, the request of each signable definition, the steps, the validator of each step and the
status of the case. Each endpoint is one action with everything it calls: `RecomputeActive` is
the loop that closes steps in cascade, `SyncMissing` the re-synchronisation of rows,
`SyncCaseStatus` the automaton of the status. `Edit` marks the gestures that undo or correct
something and bounds their number.

### Reminders (`reminders/reminders_jobs.py`, `reminders_manager.py`, `core/job_wrapper.py`)

One live case. A gesture of the agency is a `Read` and a `Write` without a lock, with the
`was_approved` it saw, or an `Abandon`. A run of the dispatcher is the record `tick[t]`: what
it has to cancel, to look at, to send and to record, the bodies in its memory, the rows it
still locks. `Select` takes the due rows FOR UPDATE SKIP LOCKED; `CancelDone`, then `Address`
or, when neither the recipient nor the owner of the case has an address, `LeaveApproved`, then
`Mail` and `Record` follow the order of the job; `Log`, which each line implies, commits and
gives the locks back, so that a second run may take the rows the first has in memory; `Crash`
loses the memory and the uncommitted writes. `MoveAddress` removes or fills in addresses and
owners, `MoveStep` closes or reopens steps. `mails`, `mailed`, `approved`, `approvals`,
`slipped` (the texts edits wrote over an approval given since they read the row) and `shares`
(the runs that took a row another one had) are history variables.

### BillingWebhooks (`billing/billing_manager.py`)

One agency, several subscriptions at Paddle, the events they cause in the order of
`occurred_at`, and sessions that handle them in the steps of `handle_webhook`: `Receive`
(the SELECTs), `Decide` (the INSERT of the event is flushed and waits behind another one
of the same event, then `Outcomes` gives what the handler will write), `Commit` (the ORM
writes the columns it changed), or `Rollback` at the unique customer, `Reinsert` and
`Duplicate`. `StatusOf`, `Stale`, `ApplyStatus`, `Guarded`, `Adopt` and `Convert` are the
helpers of `_dispatch`. `times`, `ignored`, `applied` and `overlap` are history variables.

### CampaignSequence (`email_campaigns/email_sync.py`, `email_manager.py`)

One campaign and its sequence at Lemlist. A sync or a launch is the record `sync`: its
phase, what its session has read and written, the leads left in the phase. The phases are
those of `_sync`: `BeginSync` (or `PushFails`), `HoldCompleted` and `AppendNothing`, then
`PlaceStep` and `RenderNewStep` for each new step, `RefreshLead`, `PushMember`, `Finish`.
Every call is answered, fails, or takes effect and loses its answer (`Call`); `Crash` rolls
the database back and nothing at Lemlist. `own` is what Lemlist would send: the step each
personalization was written for. The campaign and its steps change only outside a sync,
which holds their row.

A pause or a resumption by an agent does not take that row. `BeginPause` or `BeginResume`
reads the recipient (and, for a resumption, asks whether it has its emails), `CallLemlist` asks
Lemlist, `WriteStatus` commits over what the row has become; `request[q]` is what stands in
between. A batch is one request per recipient that begins with the batch, since the code reads
the rows and the steps of the campaign once (`steps_of`), and it overlaps whatever happens
before its commit. `Webhook` and `MirrorPause` do not take the row of the campaign either;
what `MirrorPause` was told may not be so any more when it is written. The history variable
`unseen` tells of three races that the code does not prevent (`Race`): a resumption that
overlaps a sync, a pause written for a lead that runs again, a lead resumed at Lemlist.

### CampaignEvents (`email_campaigns/email_sync.py`, `email_manager.py`, `readiness.py`)

One client, its membership in each campaign, the address on the opposition list, and the
activities Lemlist logs. `Webhook` may deliver any activity at any time, again, or never.
The job reads a campaign (`ReadLeads`) and then, in one locked transaction, mirrors the
listing (`Heard`), ingests what follows the checkpoint (`IngestSince`) and moves the
checkpoint (`Reconcile`), or fails (`FailJob`). `Ingest` applies an activity when it stores
it; `Told` is its effect on a status, `Suppressed` on the list. A gesture is `Begin`, which
reads without a lock and asks the rules (`Allowed`), then its call and write in one step, or
`Abandon`. `overlap` records that a gesture wrote over what it had not read.

## Runs and bounds

| Run | Distinct states | What it shows |
|---|---|---|
| `ledger` | 25,495 | Two sessions, two requests, two packs, one grant, each session writing back what it computed from the row it read: the balance is the sum of the entries, a pack is credited once, completed signatures never exceed the credits, crossings of the low threshold are announced, every operation ends |
| `requests` | 524,706 | A principal and a late person, one or two roles, countersigned or not, two requests, two resends that may overlap, two credits: ledger, requests and files agree, only resends that overlap seat a person twice, the contract is refined, no credit is stuck |
| `webhooks` | 38,569 | Two signers who sign or refuse, two sessions, cancellations, deliveries repeated until two filings: a request that is over keeps no credit, completion needs all signatures and the document, no lock cycle |
| `progress` | 103,076 | Two steps and one that joins later, two persons, a document, a field and a countersigned signature, three corrections: see the table of proofs; a journey can always be finished |
| `reminders` | 241,128 | Two automatic reminders that share a mail, a letter the agency writes, an in-app and a WhatsApp one, two requests of the agency, two runs that overlap, one edit, two mishaps (runs that die or share a row), recipients without an address: what leaves was approved or slipped in by an edit that overlapped the approval; no mail is repeated but by a mishap; SENT is true; who can be reached is written to |
| `billing` | 929,167 | Two subscriptions, two sessions, five events (four once deliveries have overlapped), an unpriced or a taken customer: effects happen once; delivered one at a time, the grace period is anchored at the first past due applied and, when none was put aside, the newest event gives the status |
| `campaign` | 3,104,431 | Two recipients, one pause or resumption under way, one of them paused at a time, up to two steps and three ever created, every call answered: until one of the three races, nobody is sent a placeholder or the email of a deleted step |
| `campaign_faults` | 3,715,827 | One recipient, the same sequence, two calls that fail or lose their answer or syncs that die: a render counted as pushed is at Lemlist; until one of the three races, no lead that a sync let run gets a placeholder |
| `campaign_events` | 2,308,458 | A client in two campaigns, three activities: the gravest activity gives the status, the opposition list never says less than the memberships and the activities |
| `campaign_unsubscribe` | 43,426 | A client in one campaign, two activities, no webhook obliged to arrive, reads that fail: an unsubscribe reaches the list and ends the membership |
| `ledger_settle`, `webhooks_ends` | – | One statement of the source each, refuted: see below |

Why these bounds are enough for what they claim. Races in the ledger and the webhooks are
between two sessions over one row; a third waits like the second. A settlement that is paid out
of another request's reservation needs two requests. A late request, a resend after a
cancellation, and a webhook of one request after the other was sent need two requests; a person
seated twice needs one late person, or two resends. While a resend is under way at most one
seat has answered (`MaxCrowded`): what two resends do to each other does not depend on the
answers. `Templates` are those of one and two roles, countersigned or not, on a step that
closes itself, and one on a step that an agent closes. A cascade of auto-close needs two steps
with a prerequisite, and a template edit on a live case needs a step or a definition that is
not there at the start. Three corrections allow "reopen, change, reopen". Two reminders in a
group show what a partly recorded mail does. Of the reminders, two requests of the agency meet
on the letter, which is the one edited (`Contended`, `Editable`), and at most two exist at once
(`Together`): one may be mailed while another is cancelled, or two share a mail; a third run
would find what the second finds. A second checkout and events of a former subscription need
two subscriptions; an activation, a failed payment, its echo and a cancellation are the five
events. A follow-up that is deleted and replaced in its shell needs three steps ever created
and two at once; a recipient added while another is under way needs two. The run `campaign`
stops following a behaviour once one of the three races happened, since its property says
nothing from there, and while two recipients are paused by hand or asked about at once
(`Seen`): no call fails in this run, so what a sync does to one of them does not depend on the
pause of the other. `campaign_faults` follows it on, while a step can still be created and a
call still fail (`Followed`), for what is pushed. An email, a bounce or a reply and an
unsubscribe are three activities; a move needs two campaigns. In the liveness run one campaign
and two activities keep the graph small enough for strong fairness, and still hold a lead that
unsubscribes before, during and after a read of the job. Symmetry is used for recipients and
campaigns, in runs without liveness. The invariants that are proved do not depend on any bound.

`CHECK_DEADLOCK FALSE` is set for the two ledger runs, where sessions may have
nothing left to do once requests, packs and grants are used up, for `billing`, where
every event may have been handled, and for the two runs of `CampaignSequence`, where
the sequence may be empty with no step left to create. The other runs check deadlock.

Each property of a passing run has a mutant in `PROJECT.json`: a plausible bug in a
mapped definition (a dropped constraint, a forgotten release, a swapped order) under
which TLC finds the property violated in the run's own configuration.

## Fairness

- *Ledger*: PostgreSQL serves the sessions that wait for a row (strong fairness of
  taking the lock), and a session that holds it commits or rolls back.
- *Requests*: every submission is created with an expiry date, and DocuSeal repeats
  a webhook until it is answered. Nobody is obliged to sign, decline or cancel.
- *Webhooks*: the same, per statement, and an error does not repeat for ever.
- *Progress*: only the agency closing the steps it may close. Nobody is obliged to
  provide, sign or correct anything.
- *Reminders*: the scheduler starts ticks and a tick goes on; no fairness of agents or of
  who fills in an address, and a bounded number of crashes.
- *Campaign events*: the job comes back to every campaign (strong fairness, since gestures
  that lock the campaign may be in its way), its read of a campaign does not fail for
  ever, and a gesture ends. No webhook is obliged to arrive, no agent to do anything.
- *Billing* and *CampaignSequence* state no fairness: their properties are about safety.

## Where the code does not do what it says

Met while modelling; each is a run that TLC refutes.

1. `ledger_settle` – `release_credit` and `consume_credit` look for a live reservation
   before they lock the balance (ledger.py:229, 244) and not again under the lock.
   Two settlements of one request both pass, the second out of another's credit.
   The docstring promises a single release. What still holds is proved: the balance
   is the sum of the entries, and never negative.
2. `webhooks_ends` – the last two signatures handled at once each see the other as
   pending (signatures_manager.py:498). Both are acknowledged, the request stays
   PARTIALLY_SIGNED, its credit reserved, although "une demande en vol converge
   toujours" (flags.py:11).

Seen and not turned into a run (the models have these behaviours unless said otherwise).

- *Ledger*: the loser of the race to create the balance row fails in `flush` instead of
  rereading the winner's row (ledger.py:66-68, `InsertConflict`).
- *Requests*: two resends that overlap both read a person as unseated
  (signatures_manager.py:141-144) and both seat her, although `send_for_progress` is said never
  to seat again whoever is on a live request (signatures_manager.py:103-106):
  `OnlyOverlapsReseat` says it takes that. A last signature that arrives after the cancellation
  completes the cancelled request, its credit already refunded (signatures_manager.py:516),
  although a request that is over "ne bouge plus". A resend groups every unseated person into
  one request and is refused when the roles do not match, after persons first signed on
  separate requests (signatures_manager.py:260, against signatures_router.py:353). A handler
  that read the request as SENT writes PARTIALLY_SIGNED over a cancellation committed meanwhile
  (signatures_manager.py:513): the credit is refunded (`OverIsSettled` is about the requests whose
  status says they are over), the request looks open.
- *Progress*: a person who joined while a step was done never gets her rows, reopening
  included: a definition that has one row is frozen (progress_manager.py:1487), although
  done steps "rattrapent au reopen". The agency's own signature completes a step it
  validates and no ready-to-validate mail leaves (progress_manager.py:1700), although the comment
  ties that mail to it (1663-1664); mails are not in `StepProgress`. Two requests that close the
  last two steps at once each read the other as open, and the case is not VALIDATED
  (progress_manager.py:1357); `StepProgress` runs requests one at a time.
- *Reminders*: a run started by hand during another takes rows that one has not recorded, since
  the first log line released the locks (job_wrapper.py:84), and mails them again, although
  `dispatch_due_reminders` counts on them (reminders_jobs.py:238-239): `MailedOncePerApproval`
  allows one repetition for each such run. An edit that read the reminder before its approval
  keeps the approval for the new text (reminders_manager.py:867), which is mailed although
  nobody approved it: `OnlySlippedTextsLeave` says that no other text is. A cancellation
  committed while a run holds the row in memory is overwritten by SENT (reminders_jobs.py:427). A
  reminder whose recipient has no address, on a case without an owner, stays approved for as long
  as that lasts (reminders_jobs.py:346-351): `ApprovedIsHandled` is about the others.
- *Billing*: when an `updated` that echoes past_due is delivered before the past_due it echoes,
  that one is stale for ever and the grace period starts at the later instant, although
  `past_due_since` is said to be the instant of the first past_due (billing_manager.py:5-6,
  657-660): `FirstAppliedAnchors` is about the first one applied. A status event that was
  ignored still hides an older one (billing_manager.py:592), and the agency may then never take
  the status Paddle tells: `Converges` excludes events put aside. Two status webhooks at once
  may leave the older status (billing_manager.py:647). Two checkouts opened before the first
  payment give two live subscriptions, and a late `activated` of a former one is adopted
  (billing_manager.py:681); an `activated` whose prices are unknown leaves the agency linked
  and not converted.
- *Campaigns*: a resumption checks that the recipient has its emails (email_manager.py:2465), asks
  Lemlist (2476) and commits after its whole batch (2490), with the steps of the campaign read
  once for the batch (2420-2424) and no lock of the campaign. A sync that overlaps it and places a
  step skips the lead, which the database still says paused (email_sync.py:2031), and Lemlist
  sends it the placeholder, although the docstring says the resumption is refused then
  (email_manager.py:2439-2441). A pause committed after somebody resumed the lead at Lemlist, or
  after a launch, and a resumption in Lemlist's own interface mirrored here, have the same effect.
  `unseen` marks these three races, and the properties of `CampaignSequence` hold until then.
- *Campaigns, alone*: a recipient paused by a sync after a launch that was refused is
  QUEUED once resumed, and never launched. `_hold` may write its own pause over one an agent
  commits meanwhile, and a manual pause of a recipient already paused by a sync does not name
  the agent (email_manager.py:2384), so that the next sync resumes it. A launch that dies
  after it added a lead leaves one the database does not know until the next launch. A lead
  that completed the sequence and could not be paused is sent the placeholder of the next
  step once another sync starts the campaign.
- *Events*: a removal, a pause or a resumption that read the membership before an unsubscribe
  writes over it (email_manager.py:2516); the opposition list still blocks the person. An
  unsubscribe of the whole contact whose webhook is lost is not recovered for memberships
  that are over. A membership paused while its last email leaves is never COMPLETED.

## Proofs

Eight modules hold 34 theorems: every invariant and every action property of the passing runs
is a theorem for every value of the constants. They
assume only the ASSUMEs of the modules: bounds are naturals, markers such as `NoTxn` are not
sessions, the composition of a case is well formed, the countersigner is not a person of the
case, a webhook about the whole contact (`"contact"`) is not a membership, a campaign has
finitely many recipients (`LeadsAssumption`: the failed pauses of a sync are counted).

| Module | Theorems | Along which argument |
|---|---|---|
| SignatureLedgerProofs | `TypeCorrect`, `BalanceCorrect`, `NeverNegative`, `CreditedOnce`, `NoOverspending`, `CrossingsAnnounced` | The inductive invariant adds to the books that a session that will write holds the lock and that the columns it has read are then the committed ones (`LockInv`), and that its alert compared the balance it will replace (`AlertInv`). So the absolute values it writes are the committed ones moved by its delta (`WrittenIsFresh`), and each kind of entry moves the columns as it moves the sums (`Deltas`, `CommitBooks`). `NeverOverspent` follows from the books alone |
| SignatureRequestsProofs | `TypesHold`, `LedgerAgrees`, `OverlapsAlone`, `ImplementsContract` | `Effects` reduces a step to what it does to the requests: nothing, one sent to people without a seat, credits bought, or an action of one request. `Paid` ties status, credit and file of a request, `Signed` says the provider only knows signatures of seats that exist (so a late webhook seats nobody), `Seating` that seats belong to persons of the case (so a late person is seated nowhere). Whom a sender read as unseated holds a seat of an open request since then only on a request it did not know (`Unseated`, `Held`), for sends at once and for resends under way alike: two open seats of one person are on requests that overlapped. The refinement of `SignatureCredit` then maps each step: sending reserves, completing consumes or, after a refund, stutters, ending releases |
| SignatureWebhooksProofs | `TypesHold`, `CreditIsSettled`, `CompletionIsEarned` | A handler decides from rows it read while others commit. `Remembers` says what its record is worth at any time: no seat goes back to pending, so the signatures it listed still stand, and if it will write COMPLETED it was told so of the last seat (`Told`), listed nobody else as pending (`Listed`) or found the request completed. Whoever ends the request settles its credit in the same commit, or found it settled under the lock of the balance (`Settling`, `Ended`) |
| StepProgressProofs | `TypeCorrect`, `NothingForgotten`, `StartsUnlocked`, `StatusFollows`, `AnswersStay`, `EveryoneAskedStays` | `DefinitionsAreAsked` is not inductive: reopening freezes any definition that has one row. The strengthening is that a definition with a row has the principal's (`PrincipalFirst`), and that only definitions of the template have rows (`RowsOfTemplate`). The action properties go through lemmas on what each action may do to steps, rows and pieces (`StepEvents`, `RowEvents`, `PieceEvents`) |
| RemindersProofs | `TypeCorrect`, `SentIsTrue`, `MailsApproved`, `MailedOnce` | For any number of requests of the agency and of runs, overlapping or not. A run records only what it mailed (`RecordedWasMailed`) and only WhatsApp rows are marked by hand (`MarksWhatsApp`). A text that is approved, in the database or in the memory of a run, was approved or slipped in by an edit that overlapped the approval (`TextInv`, with `Vouched` of the texts, `Apart` of the edits, `CarriesVouched` of the runs). A mail still to come is owed to an approval or to a mishap (`OneOwed`): the row awaits (`Awaits`) or runs have it in memory (`ToMail`), and `Owed` adds them to the mails that left |
| BillingWebhooksProofs | `EffectsAreOnce`, `StatusConverges`, `TypesHold`, `AnchorHolds` | `Once`: what a session has decided is not on file, and no two sessions decided the same event, so the COMMIT that brings the effects is the one that files the event. `Alone`: while deliveries do not overlap, the agency a session read is the row it writes to, no event is stored between its search for newer ones and its COMMIT, and, as long as no event was ignored, the row tells the newest on file. `Spells`: the anchor is that of a past due that was applied, and after each earlier applied past due another applied event, before the anchor, says something else |
| CampaignEventsProofs | `TypesHold`, `StatusFollows`, `OppositionKept` | The list says at least what rows and activities on file say (`Complete`); the rows do too until a gesture wrote over what it had not read (`Follows`). What a gesture has read still tells whether the row exists, was removed, and was blocked then (`AgentReads`); the job moves no checkpoint past the log it read (`JobReads`). One activity keeps all that (`IngestLeads`), hence any number of them in one run of the job (`IngestSinceLeads`) |
| CampaignSequenceProofs | `TypesHold`, `PushedIsThere`, `SafeSending`, `CleanSending` | `RenderedIsPersonalized` is not inductive: a step is deleted, and one created in its shell where a sync that died left an email. `Pushed` says that an email counted as pushed for a position is that of the step that stands there, among the steps placed, or of a step deleted since, whose id never comes back (`StepsOK`). The same holds of what the session of a sync has written and not committed (`SyncRows`), whatever its phase (`SyncPhase`); `InUse` then forbids to insert before the last step or delete any other. `SafeInv` says what a sync that let the campaign run stands for: a launched lead that the database, or the sync under way, has running and that Lemlist would send to has its own email for every step placed still to come (`SafeRows`, `SafeSession`). Until a race (`unseen`), what an agent's request is about to let run has its emails and no sync has begun since it asked (`PendingInv`). `SafeInv` needs that no row is ahead of Lemlist (`RowsOK`), that steps are only placed while the campaign is paused or an agent's (`Placing`), and that nobody sets running a row the sync read otherwise (`Loaded`). `CleanInv` is about the leads Lemlist would send to while every call is answered (`Clean`): they have their own emails up to the steps placed, save those whose email for the step just placed is still to be written (`Exempt`), and meanwhile the campaign is paused. It needs that none of them is paused in the rows, unless a resumption is about to write it (`Awaited`), or a sync would skip the pause at Lemlist; that none is completed with a step to come while steps are placed (`ToHold` paused them); that all are known to the database, so that the sequence is in use and keeps its places; and that no shell beyond the steps placed sends (`ShellsClean`) |

No theorem has a hypothesis beyond these assumptions. Where the code lets a race break what it
promises, the model has the race, a history variable records it, and the property says exactly
what is left: `slipped` and `shares` in `Reminders`, `known` in `SignatureRequests`, `unseen` in
`CampaignSequence`, `ignored` in `BillingWebhooks`.

`IngestSince` folds over a log of any length, and the library's induction theorems take an
operator as a parameter, which the provers here cannot instantiate. Two arguments by least
element stand in for induction: the set of the positions where the claim fails has none
(`SetInduction`, from the well-foundedness of `<`), and a bounded set of numbers has the
greatest element that `Max` chooses (`MaxOf`).

What the proofs found about the models. The guards of a `CASE` overlapped in `Resume` of
`CampaignEvents` and in `Advance` of `CampaignSequence`, where TLC takes the first and TLA+
leaves the choice open; they are exclusive now. `IngestSince` was a RECURSIVE operator and is
a recursive function.

Only model-checked: liveness (`EveryOperationEnds`, `CreditsSettle`, `HandlersEnd`,
`JourneyEnds`, `ApprovedIsHandled`, `OppositionArrives`), since fairness and ENABLED are out
of the prover's reach.

## What is not modelled

- *In the modelled parts.* Texts, languages and recipients of mails; preferences that silence
  an owner (they are on); the choice of the countersigner; the level and the contents of
  documents. In `StepProgress`, requirements of a case that carry no person are asked of the
  principal, a signable requirement has one seat (several seats are `SignatureRequests`), the
  ready-to-validate mails and who closed a step are left out, so is the edit of one requirement
  that can be spread to live cases and widen whom it asks (`update_requirement`,
  journeys_manager.py:1267-1361), and concurrent requests on one case are not interleaved. In
  `Reminders`, every approved reminder is due; change of channel and the delivery webhook are
  left out, and of the address a mail goes to only whether there is one. The platform switch of
  signatures is on. In `BillingWebhooks`, packs of credits (they are in `SignatureLedger`),
  quantities beyond "they echo ours or not", the access lock derived from status and anchor,
  the portal. In `CampaignSequence`, texts and their versions, schedules and daily limits,
  imported and archived campaigns, the dry run, the reordering of steps by hand, gestures in
  Lemlist's own interface (what the job is told of them is `MirrorPause`), the creation of the
  campaign itself, lost answers of the calls that write contents (a lost one is written again),
  and gestures on a recipient whose row the sync has written wait for its commit. In
  `CampaignEvents`, the window of an hour or a day by which the job overlaps its checkpoint
  (events are stored once, so it changes nothing but what is read again), pause and resume
  events read again, leads missing from a listing, imported history, a client added twice to
  one campaign, campaigns that do not run, opens, clicks and messages; the locked transaction
  of the job is one step.
- *Components.* `PROJECT.json` lists each one with its reason: planned, or a form over
  one transaction, a read model, a rendering, a seed, an adapter without state. Access
  control is outside this project.

## Plan

Done: the ledger, the requests with their abstract contract, the webhooks, the progress
of a case, the reminders, billing, the sequence and the events of email campaigns, and the
proofs above, in the order in which a mistake would cost most: credits that are paid
for, signatures, journeys, mails, subscriptions, campaigns.

Next, in this order:

1. `RefreshTokens` (rotation, logout, reset) and `Seats` (invite, accept, cancel, expire,
   pool of reader seats), with theorems on reuse and on paid seats.
2. Concurrent requests on one case (two closings of the last two steps), then the demo
   sandbox and the sweep of document templates.

Each new module comes with a passing run; a run that refutes a statement gives its place
when a deeper question needs it.
