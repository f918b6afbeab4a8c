# QuillCV in TLA+

QuillCV (`src/app`) writes a CV for a job description with a language model. A
user signs up, fills a vault of personal data, buys credits, walks through a
wizard, has a CV generated for one credit, reviews it, edits it and downloads
it. It is a FastAPI program served by several gunicorn workers
(`2 * cpus + 1`, `gunicorn.conf.py`), with PostgreSQL for accounts, money, jobs
and CVs, SQLite for browser sessions, encrypted JSON files for attempts, and
Stripe, a model provider, an object store and an SMTP server outside.

Nothing in it holds a lock across an `await`: what keeps it correct is the
order of commits, the `WHERE` clauses of a few updates, and what a handler does
with a value it read before it waited. That is what these modules are about.

| module | what it is | run | proofs |
|---|---|---|---|
| `CreditLedger` | a row of the credits table and the functions that change it | (in Billing, Generation, Codes) | (in theirs) |
| `Billing`, `PurchasePromise` | checkout, webhook, refunds, sweep; what a purchase promises | `billing`, `billing_settles` | `BillingProofs` |
| `Generation`, `GenerationPromise` | one attempt: gate, pipeline, regenerate, edits, review, downloads; what a charge promises | `generation`, `generation_settles` | `GenerationProofs` |
| `Accounts` | accounts, browser sessions and the vault | `accounts` | `AccountsProofs` |
| `Codes` | invitations and password reset tokens | `codes` | `CodesAndCallsProofs` |
| `Wizard` | the six steps, over one session with several tabs | `wizard` | `WizardProofs` |
| `AttemptStore`, `AttemptPromise` | the attempt's file and documents, several workers; the record it stands for | `attempts` | `AttemptStoreProofs` |
| `LlmCalls` | whose call it was, what is kept of it, feature flags | `calls` | `CodesAndCallsProofs` |
| `Redaction` | personal data on its way through the system and back | `redaction` | `RedactionProofs` |
| `Builder` | the manual CV builder and the saved CVs | `builder`, `builder_backfill` | `BuilderProofs` |
| `People` | the accounts that `Codes` and `LlmCalls` speak of | (in theirs) | |

`MC...` modules are the instances for TLC. Run a configuration with
`tlc -config generation.cfg MCGeneration.tla` and check proofs with
`tlapm GenerationProofs.tla`. `PROJECT.json` holds, for every definition, the
lines of source it stands for.

## Inventory

For each part: its state, its operations, what it talks to, what is hard about
it, and what makes it correct. **M** is modelled, **P** modelled in part,
**-** not modelled (the reason is under *Not modelled*).

### Money

**Billing (M)** - `app/billing`, `web/routes/payments.py`, the sweep of
`main.py`. State: rows of `payments` (pending, completed, refunded, expired,
failed), `credits` (balance, purchased, used, granted), `users.tier`.
Operations: open a checkout (alpha pack, top-up), the webhook's branches, the
success page, reversal, deduction, administrator adjustment, the start-up sweep.
Stripe repeats and reorders events; two workers may run the same grant; every
handler makes several commits and may die between them. Correct if credits are
granted at most once and only for money, if the totals can be audited, if what
is paid gets credited and what is abandoned gets closed.

**Invitations (M)** - `web/routes/invitations.py`, and the sign-up and login
routes of `auth.py`. A code is redeemed by three routes, each reading
`redeemed_by`, later committing it, then adding credits. Correct if one code
gives its credits once, to whom it was for.

### Generation

**CV generation (M)** - `cv_generation/use_cases/generate_cv.py`,
`web/routes/cv.py`. State: the attempt file (inputs, cached keywords, CV, side
results, regeneration count, review flag), a Job and a SavedCV row per run, the
credit taken. Operations: `/ws/analyze`, `/analyze`, apply-fixes, add-skills,
final review, confirm, downloads. Hard: minutes pass between the first read and
the last write, caches are read once at the start, the socket can close, every
step can fail, the refund is another commit. Correct if each credit is
accounted for, nothing saved is given back, a regenerate reuses nothing, the
cap holds, and nothing is downloaded unreviewed.

**Attempt store (M)** - `persistence/attempt_store.py`. One encrypted JSON
file per attempt and its documents; an update reads, changes and rewrites the
file in place. Workers share the directory and lock nothing. Correct if it can
be taken for a record with atomic updates for as long as nobody overlaps.

**Wizard (M)** - `web/routes/wizard.py`. Six steps over the attempt the session
names. Correct if personal details are kept only after the consents the region
asks for, and if what the user chose is what the CV is made with.

**Redaction (M)** - `app/pii/use_cases` and everything that calls it. Replaces
personal data by placeholders and back. Correct if nothing leaves and
everything returns.

**Model client and call log (M)** - `infrastructure/llm`, `features.py`. Each
call is logged by a task nobody waits for, which looks the consent up when it
runs. Correct if a row names the run that asked and a prompt is kept only with
consent.

**Adapters of the generation (P)** - prompts, parsers, region detection, job
scraper. What they redact, send and restore is in `Redaction`, how they name
their calls in `LlmCalls`. **Scoring (-)** - `app/scoring`.

### People

**Identity (P)** - `app/identity`, `web/routes/auth.py`: sign-up, password
login, Google and GitHub, logout, reset. **Session middleware (P)** -
`infrastructure/middleware/session.py`: one JSON blob per cookie, loaded whole
when a request starts, written whole when it ends if it looks changed. **PII
vault and onboarding (M)** - `pii/adapters/vault.py`, `onboarding.py`,
`profile.py`: one encrypted row per account, under a key derived from the
password or under the server's key. **Account (P)** - `account.py`: change of
password, career profile, deletion, consent to prompt logging. They share the
session blob, which also caches the open vault and the password that opens it.
Hard: requests of one browser overlap, several accounts use one browser, the
password changes, a pipeline writes back minutes later; and the session goes on
naming the attempt and the builder's draft of the account before (`attempt_id`,
`builder_id`), since logout takes out `auth_token` and `pii` only
(`auth.py:468-472`) and no login takes out anything. Correct if data stays with
its owner, or goes to another account only by what that account did with the
attempt it was left, and if its owner can open it.

### The workshop

**CV builder (M)** - `builder.py`, `cv_builder`: a form over an attempt named by
the session, shared by all tabs. **Saved CVs, jobs, My CVs (P)** - rows of
`saved_cvs` and `jobs`: saving, restoring and showing in `Redaction`, insert and
update in `Builder`, Job rows in `Generation`. Correct if a save goes to the CV
the page shows, keeps what the page shows, and can be given its values back.

### Around it

**Administration and flags (P)** - the credit adjustment (`Billing`), flags and
prompt eligibility (`LlmCalls`), new invitations (`Codes`). **Schema and
start-up (P)** - the sweep, the loading of flags. **Front end (P)** - the
builder's scripts. **Export, photos, email, public pages, logging, deployment
(-)**.

## How the models are cut

A handler is cut where another process can run: at each commit, each `await` of
the database, the form or the model, each message, and, in `AttemptStore`, at
each file operation. Everything between two cuts is one action, whatever
functions it calls. A handler in progress is a record (`task`) or a program
counter (`pc`, `stage`) with the values it holds over its waits. Failures are
actions of their own: a handler dies, a database call raises, the model answers
nothing, a socket closes.

Texts, prices and keys are names. A CV is named after the request that made it
(`Generation`), is a list of roles and three fields (`Builder`) or a structure
of words (`Redaction`), as far as the properties tell it apart. A key is the
password it derives from, or `Server`. `history` variables record what was done
so that properties can speak of it; no action reads them.

Logging, wording, HTML, instrumentation events and the content of texts are left
out. Requests the code refuses at once (bad form, no login, unknown id) change
nothing and have no action. `CHECK_DEADLOCK FALSE` stands in the runs whose
bounds, or whose model, let everything come to rest.

The modules meet in what they share. `CreditLedger` is the one ledger of
`Billing`, `Generation` and `Codes`. `AttemptPromise` is what `Generation`,
`Wizard` and `Builder` take the attempt store for: an update is one step in
them, since within one worker no call of the store waits, and `AttemptStore`
shows when that is so for several. The vault that `Accounts` protects is the
one `Redaction` restores from and `Builder` and `Wizard` write to.

## Billing

| state | code |
|---|---|
| `status`, `intent` | `payments.status`, `payments.stripe_payment_intent_id` |
| `credit`, `tier` | `credits` row, `users.tier` |
| `task` | where a handler is between its commits; `via` is the event it will answer |
| `stripe`, `events`, `acked`, `url`, `refunded` | Stripe's side (external): session, events emitted and answered, page shown, charge refunded |
| `running`, `adjusted`, `crashes`, `aged` | charges in progress and the bounds |
| `applied`, `clawed`, `revoked`, `swept` | history |

`OpenCheckout`/`RecordPending` are the two checkout routes (Stripe's session
first, the row after it). `DeliverCompleted`, `DeliverRefunded`,
`DeliverClosed` and `DeliverIgnored` are the branches of `stripe_webhook`;
`VisitSuccess` is the success page. `Claim` is the `UPDATE ... WHERE status =
'pending' RETURNING` of `grant_purchase_credits`, followed by `AddPurchased` and
`UpgradeTier`, each its own commit. `Clawback` follows the same pattern for
refunds. `Sweep` is `_cleanup_stale_payments`. `Spend`, `ReturnCredit` and
`AdminAdjust` are the other users of the ledger.

`PurchasePromise` is three actions long: money, then credits once, then taken
back at most once. `Promise == INSTANCE ... WITH` maps Stripe's paid sessions and
the two histories to it.

Left out: partial refunds are handled as whole ones by the code and so here;
`add_credits`' branch for a missing row is unreachable, since `create_user` makes
the row in the same commit as the account; the tiers that would hide a pack are
not used by any pack. `Expire` assumes that a session does not reach its age of
24 hours while the request that opened it is still between two statements.

* **billing**. One buyer with a founders' pack and a top-up paid by a delayed
  method, two handlers, one crash per session, one administrator adjustment, one
  generation, one row that grows old. Two handlers are what a race needs, two
  sessions are what a mix-up needs, and each bound lets its case happen once at
  any point of the run. 0.8 million states.
* **billing_settles** (with fairness). A prompt payment is credited though nobody
  returns to the success page, unless a start-up sweep closed its row first; an
  abandoned session's row is closed. One row grows a day old, so the sweep does
  meet rows that were paid while the service was down: the lifespan sweeps
  (`main.py:127`) before the repeated event is served, which then finds no
  pending row and is answered. No faults: a crash may lose a grant, which
  `OnlyACrashLosesAGrant` says of the other run. 28 thousand states.

Fairness: `WF` of a started handler's next commit (a coroutine that has its
answer is resumed), and `SF` of the delivery of an unanswered event: Stripe
repeats for days, and each repeat may meet a busy server. The buyer, the sweep
and the administrator are under none.

## Generation

| state | code |
|---|---|
| `attempt` | the attempt file: `input` stands for job description, region and template; `keywords`, `cv` and `side` for the cached outputs, each named after what it was made from or who made it |
| `pc`, `snap`, `count`, `base`, `todo` | a request: next step, the attempt it read at the start, the count it read at its gate, the CV it works on, the steps of its parallel block |
| `credit`, `charge` | the account's row, and what became of each request's credit |
| `job`, `saved` | Job and SavedCV rows |
| `viewed`, `confirmed`, `downloaded` | the review page, history |
| `ran`, `overlapped` | history: regenerates that ran; those that were at the gate beside another |

`OpenSocket` and `ReadCount`/`PayRegenerate` are the gates of `/ws/analyze` and
`/analyze`; `Clear` is the latter's reset. `Start` to `SaveCv` are the steps of
`run_generation_pipeline`; `SideDone` is one result of its `asyncio.gather`.
`Refuse` is a regenerate that finds no credit when it pays. `Reject` (no text in
the CV file, or a `ValueError` on the way, for which `/analyze` keeps the
credit), `GenerateFails` (no answer of the model, or a template that raises),
`LogFails` (the generation log or an update of the attempt raises), `Disconnect`
and `Fail` lead to the `except` clauses, `Refund` is theirs. `ReadCv` with `ApplyFixes`, `AddSkills` or `FixFails` are
the two edits, `ChangeInputs` is the wizard, `ViewFinalReview`, `ConfirmReview`
and the three downloads (CV, letter, both) the endpoints of the review.

`GenerationPromise` has no pipeline: a credit is taken, then kept, given back,
rejected or lost, once.

* **generation**. A first run over the socket, a regenerate, and a regenerate by
  a guest, one credit, a cap of one, one fault. The guest is there because the
  gate lets him through without a credit, so that two regenerates really overlap
  although the account could pay for only one run at a time. The cap
  (`cv.py:33-36`) bounds the regenerates that ran with nobody else at the gate:
  `RegenerationsWithinCap`. It cannot bound all of them, see *What the models
  show*. 0.93 million states.
* **generation_settles** (with fairness). A run, apply-fixes and add-skills with
  all three side steps and a change of inputs: every credit is settled, no Job
  stays a draft. No faults, since a worker that dies does leave both.

Fairness: `WF` of a pipeline that has started and of a refund. A model call ends
because the CLI is killed after 600 s and the SDKs have time-outs; both ends are
steps. Nobody has to start, close a socket, fail or download.

## Attempt store

| state | code |
|---|---|
| `file` | `attempt.json`: absent, torn (empty or half-written, which reads as no attempt) or its content: some fields and `documents` |
| `disk` | the files of `docs/`, by `safe_name` |
| `task` | a worker in a call: the content it is about to write, the upload it is in, whether the file it opened is still linked |
| `aged` | the directory's mtime is older than the TTL |
| `prior`, `disturbed` | history: the last content that could be read; two workers overlapped or one died inside a call |

`Create`, `Update` and `Upload` begin `create_attempt`, `update_attempt` and
`save_document`; the latter goes on with `StoreBytes`, `ListDocuments` and
`RecordDocuments`, and all end with `Open` (truncate) and `Write` of `_save`.
`Write` after somebody else's leaves the new text or a torn file, `Crash` ends a
call anywhere, `Cleanup` is `cleanup_old_attempts` at any moment.

`AttemptPromise` is the record the other modules use: created, changed in one
field or document, expired, each in one step; once disturbed, anything that was
ever a value may be seen. That is also how much the code promises: it takes no
lock, so two workers on one attempt may lose an update (`Recover`).

* **attempts**. Two workers, two fields of two values, two document keys, three
  documents with two suffixes (two documents of one key may share a file name),
  three calls, one crash. Three calls make a lost update of a third worker's
  content and an upload over an upload possible. 0.16 million states.

## Wizard

| state | code |
|---|---|
| `session`, `vault`, `consents`, `rows` | `attempt_id` and login; what the vault has; `consent_records`; saved CVs |
| `attempts` | the store: region, whether details were accepted and for which region, voice, document |
| `page`, `task` | what each tab shows; the step-2 request it has in flight |

`Open` is every GET of a step, `New` is `wizard_new` with `_seed_from_saved_cv`,
`SaveStep1` to `SaveStep5` the saves. Step 2 is `SaveStep2`, `RecordConsents`,
`StoreDetails` and `StoreVault`: it checks what the attempt's region requires
against the boxes of the page it rendered, maybe for another region, and then
writes three times. `Generate` is the button of step 6, offered when the name and
contact, and the date of birth where the region has one, are in the attempt or
the vault (`_check_pii_completeness`). The voice is a function of the `Fields` of
step 3 (self-description, values, offer appeal): each is seeded, shown and saved
by itself, and those in `Shared` also go to the vault and fall back on it.
`seed` is history: what of each field is still as the saved CV had it.

Left out: which step the shell opens, the country step 1 proposes, and the CV of
the session's previous attempt that a guest may start from; a document is one
bit, and texts other than the voice are not kept apart.

* **wizard**. Two tabs, two attempts and rows, a region that asks for two
  consents and one that asks for none, a shared field and one of the attempt
  only, two texts for each, two submits, one crash, and vaults that hold a name
  only or all details with any text in the shared field. A race needs two tabs
  and two regions; the two submits are step 1 and step 2 for the consents, and
  step 3 for the voice of a CV that is tailored from a saved one; the pages
  themselves may be opened at any time.

## Redaction

A text is a sequence of words, a word a pair of a kind (`"email"`) and the
person it belongs to, or a token (`"EMAIL"`) with its number. The regular
expressions recognise a word by its kind, a literal replacement by the word
itself. A name has one spelling in which it comes back, `"name"`, and others
that are recognised and come back as that one: `"variant"` (first name, last
name, reversed; for a reference another capitalisation, since step 7 ignores
case), and in addresses on the web `"slug"` and `"handle"`. A `"range"` is two
years around a dash that JSON escapes. What remains is the algorithm: the order
of the replacements, who numbers what, from which source a redactor takes its
values, which restores run over which text.

| state | code |
|---|---|
| `attempt` | has it a name, its references, and what goes to the model as typed: `told` (job description, self-description, values, offer appeal), `rights` (visa status, generator only), `featured` (featured achievement, letter only) |
| `vault`, `upload` | `session["pii"]`; the text of the uploaded CV |
| `sent`, `noted` | history: every word sent to the model; every word of the user's notes on flagged items |
| `cv`, `row`, `letter` | `cv_data`; the row of `saved_cvs` (its JSON and its column of references); the cover letter |
| `shown`, `file` | the last page and the last download |

`RedactWord`, `RedactText`, `RedactJson` and `RedactDict` are `redact`,
`_redact_cv_data` (with its fallback to the CV as it is, `Breaks`) and
`redact_cv_dict`; `RestoreWord` is `_build_replacement_map` with `restore`;
`CheckPlaceholders` the checker. `Generate` is the redaction of the pipeline, the
personal context with the references as tokens and the rest as typed, the
references' own redactor in `generate_tailored_cv`, an answer that echoes tokens,
leaves them out or writes bracket text, both restores and the prefill. `Finish`
is the cover letter, `Refine` apply-fixes (and the review's prompt) with a note
that no redactor sees (`refiner.py:128-131`), `Save` is `save_cv`, `ChangeVault`
an edit of the profile, `Show` the preview of My CVs or the builder, the
downloads are those of My CVs.

`PromptIsAnonymous` promises nothing for words that were typed into a field that
goes to the model as it is, because the code does not; it does promise that
nothing else carries them there: not the CV, its references, the flagged items or
the letter. Left out: the answer does not repeat what `attempt` tells; the
rendered document and the Markdown of the row; the banner of My CVs
(`my_cvs.py:72-216`), whose conditions are those of each region's form; and the
tripwire of the client, which by default only logs (`client.py:56-67`).

* **redaction**. Every text of one word, or of two different ones that a redactor
  changes, out of eleven, of the candidate, a reference and strangers; three that
  mention everything, three from a file that still holds placeholders, and five
  with a name in another spelling or a range of years. Vaults that are empty, hold
  a name and a city, are complete (with the references the wizard may name, or
  none), or are another person's; no reference, one with and one without an
  address; an attempt that tells nothing and one that tells an address, the
  candidate's own name and a number; a note with a profile. Two words are enough
  for every pair of replacements to meet, and what longer texts do is proved.
  0.67 million states.

## Builder

| state | code |
|---|---|
| `session` | `builder_id`, login, `session["pii"]` (its phone) |
| `vault` | the phone in the vault of each account |
| `attempts` | the builder's attempts: `builder_data` and `editing_cv_id`; `of`, `opener` are history |
| `rows` | `saved_cvs`: CV, owner, voice; `by`, who saved it last, is history |
| `page`, `task` | the form of each tab by index, and the request in flight |
| `cleared`, `spoiled` | history: who emptied the phone in the profile; whose vault a save took the number from |

`OpenNew` is `builder_page` (uses the attempt again and forgets the CV it was
editing), `OpenEdit` is `builder_edit` (an account opens its own rows, a session
without login any). `StartPreview`/`Preview` and
`StartSave`/`SaveForm`/`SaveRow` are cut at the await of the form and at the
database. `Parse` is `parse_form_experience` with its limit and its stop at the
first unused index. `SaveForm` ends with the backfill of the vault, which takes a
token for a value and writes the whole of the session's copy. `Generate`,
`LogIn`, `LogOut`, `Expire` (a token of 72 hours in a session of 30 days) and
`EditProfile` are what happens elsewhere. Two accounts use the browser;
`builder_id` stays in the session when one leaves and the other comes, so the
draft does too.

What is typed into a page, or saved from a draft the session was left with, counts as
the account's own. `NothingIsOverwritten` says that a save changes only the CV
its attempt was opened for, one of the account that opened it, and, if the
session still names the page's attempt and no request carried a CV into it, the
one the page shows. `TokensResolve` wants a number, not a token, in the vault; it
promises nothing to an account that emptied it (`cleared`), or whose vault a save
filled with a token or an older copy (`spoiled`). The latter is a defect and has
its own run.

* **builder**. Two tabs, two accounts, a parser limit of one index beyond the
  first, a CV with one role more than that, two rows, attempts, openings,
  requests and log-ins, one edit. Two openings are a page for a new CV and one
  for a saved one, in one tab or two; two requests overlap; two log-ins are what
  it takes to change the account.
* **builder_backfill** (violated). The same with one tab and one account, one
  request after the other: `BackfillOnlyFillsIn` is what the comment of
  `builder.py:333-334` says of the backfill. The profile and the backfill itself
  edit the session's copy of the vault in place (`profile.py:117-141`,
  `builder.py:341-342`), the middleware compares with a shallow copy
  (`session.py:180-181`) and does not save it, so the next request has the copy
  of before and writes that over the vault: the number just entered is gone.

## Calls

| state | code |
|---|---|
| `run`, `ctx` | each run's phase and worker; the context variables of each of its asyncio tasks |
| `call` | the calls of a run: open, ended, then where their log task is; `saw` is history |
| `eligible`, `granted`, `asking` | `users.prompt_logging_eligible`, the latest consent record, the consent request in flight |
| `stored`, `cache`, `setting` | a flag's row, each worker's copy, toggles between commit and cache |

`Begin` sets the context (`set_llm_context`), `Gather` copies it into the tasks of
`asyncio.gather`, `Call`/`Refuse`/`Answer` are `generate` with its tripwire and
time-out, `WriteRow`, `ReadEligible`, `ReadConsent`, `WritePrompt` the four waits
of `_log_to_db`. `ToggleEligible`, `AskConsent`/`RecordConsent` and
`SetFlag`/`CacheFlag` are the routes that race with them; `Restart` replaces a
worker. `_recommend_templates` (`wizard.py:922`) has no caller and is left out. Providers answer or fail; retries within an SDK are theirs.

* **calls**. A pipeline of a user with two parallel parts and fixes by a guest, two
  workers, two calls, two events. Two calls are what it takes to mix two
  contexts, two events to give and withdraw, or to toggle and restart.

## Codes

`invitation` is unsent, open or the account that redeemed it (`redeemed_by`),
`token` a reset token's state and account, `password` the token that set it last.
`Redeem` stands for `invite_redeem` and `login_submit`, `SignUp` to `Recheck` for
`signup_submit`; all go on with `MarkRedeemed` and `AddCredits`, two commits, the
second on the ledger of `CreditLedger`. `Forgot`, `Expire`, `SubmitReset` and
`Reset` are the reset routes. `spoiled` is history: codes that two requests used
at once, or that a crash cut short. The code does not prevent either, so the
properties say that nothing else goes wrong: not a late resubmission, not a
resend, not another account.

* **codes**. Two accounts, an open and a personal invitation, two tokens, two
  requests, one crash.

## Accounts

| state | code |
|---|---|
| `exists`, `hash` | `users` row and its `password_hash` |
| `vault` | `pii_vault` row: the key that opens it and what it holds |
| `row` | the session row of a browser: `auth_token`, `pii`, `_pii_password`, `attempt_id` |
| `holds` | whose data each attempt has |
| `task` | a request: the session it loaded (`blob`) and what it is about to do |
| `provider`, `changed`, `used` | history: accounts that came through a provider; whose password was changed; who saved from, or generated from, each attempt |

`Start` is the middleware's load, `Respond` its write-back of the whole blob. A
handler that ends with `Finish` leaves the row alone, either because it changed
nothing or because it changed the session's map in place: the middleware compares
with a shallow copy, which shares that map. `Unlock`/`SeedVault` are the second
halves of the three logins, `Save` is the write of onboarding, profile, career
form and wizard (steps 2 and 3, which merge what their attempt has), `NewAttempt`
makes the attempt the session names, `Backfill` is the pipeline's, `Recover` is
`_ensure_session_pii`. `SetPassword` serves change and reset. `Abort` is any
request that raises or is killed.

Of personal data the model keeps whose they are: `pii` and an attempt are sets of
accounts. `LogOut` takes `auth_token` and `pii` out of the session and leaves the
attempt, and no login removes it, so the next account in the browser finds the
former one's. `DataStaysWithItsOwner` is what is left of the promise: data of
another account are in a session or a vault only if they are in an attempt that
this account saved from or generated from, and a session that is logged out has
none. What is typed into a page counts as the account's own.

The expiry of sessions, rate limits, CSRF and the expression-of-interest form are
left out, and so are attempts seeded from a saved CV. A token that has expired (72 hours, in a session of 30 days) leaves `pii` in
the session row: such a request is a guest's, but what it saves in the wizard
still has the former user's data, and that is in `BeginSave` and `Merge`.
`Delete` has only the outcome PostgreSQL gives it.

* **accounts**. Two accounts, one shared browser with one attempt, two requests in
  flight, six in all, two passwords. Two requests suffice for every stale
  write-back, one browser is the worst case for mixing accounts, and six let one
  account register and fill an attempt, and another register, save from it and
  generate. 0.8 million states.

There is no liveness here: nothing has to happen, and aborted requests are legal.

## What is proved

Every safety property a passing run checks is also a theorem: TLC shows it on the
instance of the run, the proof for any number of sessions, handlers, requests,
accounts, tabs and workers, for texts and lists of any length and for all bounds.
The theorems rest on the named assumptions of the modules only (constants have
the types the comments say, `None` and `Server` are nobody's name, sets of
requests are finite where something is counted), and a run of each module makes
TLC evaluate its assumption. `InvariantHolds` is a module's inductive invariant;
where the parts of one are used apart they are proved one on top of the other.

* `BillingProofs`: `TypeCorrect`, `GrantedAtMostOnce`, `GrantsArePaidFor`,
  `PaidRowsStayClaimable`, `RowsNeverGoBack` (`StatusOnlyAdvances`),
  `LossNeedsACrash` (`OnlyACrashLosesAGrant`), `BooksAlwaysBalance`,
  `SpendingNeverOverdraws` (`OverdraftOnlyByReversal`) and `PromiseIsKept`, the
  refinement of `PurchasePromise`. `AtMostOnce` is not inductive: one must know
  that a pending `AddPurchased` is alone on its row and that the row has left
  `pending` for good (`GrantInv`), the same for reversals (`ReversalInv`), that a
  handler about to insert a row holds a session nobody can pay yet (`RecordInv`),
  and that Stripe's outcomes exclude each other, so a handler about to close a row
  read something that stays true (`OutcomeInv`). `OwedInv` adds that what a
  completed or refunded row still lacks is owed by a handler that is at it,
  unless one died there. `LedgerInv` adds the books: an account's row is the sum,
  over the sessions applied and clawed back, of their packs. Sessions may be
  infinitely many, so the two sets of sessions are shown finite at any moment; a
  sum over one is the size of a set with one element per credit, and a session
  more adds its pack (`CoinsOfOneMore`) without an induction over sets.
* `GenerationProofs`: `TypeCorrect`, `NothingSavedRefunded`, `AccountsBalance`,
  `RunsStayWithinCap` (`RegenerationsWithinCap`), `DownloadAfterReview`,
  `RegenerateStartsAfresh`, and `PromiseIsKept`, the refinement of
  `GenerationPromise`. The invariant ties a request's program counter to its
  credit (`ChargeFits`), its rows (`FiledFits`), the count it carries over its
  waits (`CountFits`) and what it read (`HasData`, `IsFresh`). The cap needs a
  statement about sets: those that ran alone are no more than the recorded count,
  nor than the count a regenerate at its gate has read (`AloneInv`, `GateFits`).
  `AccountsBalance` is by cardinalities: each step moves at most one request from
  one outcome to another.
* `AccountsProofs`: `TypeCorrect`, `OwnDataOnly`, `VaultBeforeSession`,
  `ServerKeyNeedsProvider`, `PasswordOpensVault`. The invariant asks the same of
  every copy of a session, in a row or in a request: it holds its own account's
  data and what it has from an attempt it used (`Known`), its account has a
  vault, and the key it would write with is one the account may use (`Loyal`).
  Copies that are not touched keep it, since accounts, histories, vaults and what
  attempts hold only grow; each action accounts for what it replaces.
* `AttemptStoreProofs`: `TypeCorrect`, `TornOnlyInBetween`
  (`TornIsBeingWritten`), `RecordedOnDisk` (`RecordedIsStored`) and
  `StoreKeepsPromise`, the refinement of `AttemptPromise`. As long as nobody was
  disturbed, at most one worker is at work (`Alone`), and what it is about to
  write is one change of what is stored (`Orderly`, whose `Made` is exactly the
  step the promise takes at `Write`); at rest every recorded document is on disk
  (`Rest`). Opening the file is a stutter, since the refinement keeps the value
  that was there.
* `WizardProofs`: `TypeCorrect`, `ConsentComesFirst` (`DetailsFollowConsent`) and
  `SeedReachesTheCv` (`VoiceIsKept`). A step-2 request that is past a write has
  the consents of its region on record (`Holds`), and a page of step 3 that still
  shows a seeded field names the attempt it came from (`Shows`, `SeedIsVoice`).
* `CodesAndCallsProofs`, for `Codes`: `CodesTypeCorrect`, `RedeemedOnce`
  (`CreditsFollowRedemption`), `ResetOnce` (`TokensResetOnce`). Every request
  holds an account the code was for (`Holds`, `ForWhom`); a code that is not
  spoiled has one request past its check, and it has given what its record says
  (`OneRedemption`, `OneReset`). For `LlmCalls`: `TypeCorrect`,
  `EveryRowHasItsRun` (`RowsTellWhoAsked`), `ConsentBeforePrompt`
  (`PromptsNeedConsent`), `LastToggleWins` (`FlagIsCurrent`). Each task's context
  is the one its run bound (`Started`), each call has the context of its part
  (`Asked`), what a log task has read it has seen true (`Saw`), and a current
  worker's copy is the stored flag or is about to be set to it (`Follows`).
* `BuilderProofs`: `TypeCorrect`, `RolesAreAlwaysKept` (`RolesAreKept`),
  `TokensAlwaysResolve` (`TokensResolve`) and `NoOtherCvIsOverwritten`
  (`NothingIsOverwritten`). That a page keeps its roles is a lemma about the parser
  (`ParseKeepsRoles`): its stop is the least unused index, which exists for every
  limit. `PhoneInv` follows a number from the session to the request and the row:
  the vault knows one (`Told`) as soon as any of them relies on it, unless the
  user emptied it or a save took it. `NothingIsOverwritten` needs what no line of
  the code says. An attempt, and every request that holds it, edits the CV it was
  opened for or none (`OpenedFor`), and it is *clean* if neither it nor any request
  that will write to it names one. A step never dirties an attempt
  (`AttemptsContinue`, `StaysClean`), a page for a new CV that crossed no request
  finds its attempt clean, and so does its request until it has read the attempt
  for the last time (`FormsFit`).
* `RedactionProofs`: `TypeCorrect`, `PromptsAreAnonymous`, `RowsAreAnonymous`,
  `RoundTripsAreLossless`, `GeneratedCvsAreComplete` and
  `SavedCvsAreShownAsSaved`, for every set of uploads, vaults and references the
  module's types allow. `BaseInv` is the types and what a stage leaves untouched.
  Prompts hold only words the redactor of that prompt lets through, or that were
  typed where there is none (`SentInv`, `Harmless`); a row is the redaction of the CV beside it (`RowInv`), and every
  word of a redaction comes from one word of the CV. A complete CV stays complete
  through the refiner and the letter (`CompleteInv`), and what a page shows is
  resolved from the row and the vault (`PageInv`), so for `ShownAsSaved` it is
  enough that restoring a redaction gives the CV back, though the tokens are
  numbered anew. A name comes back in its canonical spelling (`Respelled`), so the
  round trip gives the CV with its names respelled, and leaves it alone the second
  time. Texts are flattened and addresses listed by recursive functions;
  their equations and the position of an address are derived from the set of
  positions an induction over the naturals would go through, so no theorem with
  an operator parameter is needed.

The proofs changed the models where an attempt failed for a good reason.

* `RedactWord`, `ScanWord` and `FillWord` were `CASE`s whose guards overlapped,
  which leaves the choice of the arm open; they name the order of the code now.
* TLC gave a counterexample for each weaker hypothesis tried. `RowIsAnonymous`
  fails for a name that is not the CV's own or one of its references', and for a
  CV whose redacted text is no JSON; `GeneratedCvIsComplete` for an upload that
  holds placeholders, or a name in another spelling if the same spelling is asked
  for; `ShownAsSaved` when the vault differs from the CV in a name, an address or
  a number: `cv_repo.py` redacts with one and restores with the other.
* `Builder` tested a row against a "deleted" mark that nothing kept apart from
  rows; the assumption says so now, and the parser is a function of its limit, so
  that what holds for one limit is proved for all.

Only model-checked: the four liveness properties of `billing_settles` and
`generation_settles`, since fairness needs ENABLED, which the prover does not
treat. `BackfillOnlyFillsIn` is false, as its run shows.

## Mutants

Each property of a passing run comes with a plausible slip of the code that
breaks it, as an operator next to the original: a guard widened (`HasCredits`
at zero, `Claimable` unless completed, `WithinCap` at the cap), a step left out
(`SeedSessionOnly`, `LogOutKeepsPii`, `ListOnlyThis`, `UseUnchecked`,
`NoBackfill`, `OpenNewKeeping`), a step too many (`RefundAgain`, `ResetAgain`), a
step too early (`StoreWithoutWaiting`), an index off by one (`ListedOffByOne`,
`ParseBeyond`), a source taken for another (`PersonalContextRaw`,
`Step3VoiceOfVault`, `InheritService`), a reset that forgets a field
(`ClearedKeepsReview`, `ToggleKeepingConsent`).

## What the models show beside the properties

Behaviour that follows from the code and that a property would have to exclude.
Where a document says otherwise it is quoted.

* Billing: the claim is committed before the credits, so a handler that dies in
  between leaves a completed payment without them, and a repeat finds no pending
  row (`grant_purchase_credits.py:86`); the tier is a third commit. A
  `charge.refunded` handled before its grant is a no-op never repeated. The
  webhook never credits a payment announced by `async_payment_succeeded`. The
  founders' cap is stale by the time a purchase completes. The sweep closes rows
  whose payment is about to settle, and after an outage of a day rows that are
  paid: the event that follows is then answered as a no-op (`main.py:127`).
* Accounts: `session.py:143` says of `destroy_session` "Call this from logout or
  account-delete handlers"; nothing calls it, and logout leaves `attempt_id`,
  `builder_id` and `_pii_password` in the row, so the next account in the browser
  is shown the former one's attempt and draft, and saving them writes their data
  to its vault (`auth.py:468-472`, `wizard.py:166-183`). A career save can put back an older identity (`session.py:181`); a
  changed or reset password leaves the vault under the old key and the next
  login replaces it by a seed (`docs/ai/security.md:71-72`); deleting an account
  that has a vault or consents is rejected by a foreign key (`account.py:242`).
* Generation: `cv.py:281-283` says that "concurrent duplicate requests are
  serialised by the atomic credit deduction"; with two credits, or a guest, they
  are not: both read one count, both run, the later write loses a count, and the
  cap of `cv.py:33-36` is exceeded. The review flag outlives the CV it was given for; a cached CV for
  old inputs is charged for again; two edits of one CV lose the earlier one; a
  socket that closes after the CV was written gets its credit back; apply-fixes
  charges nothing and does not read the cap it is documented to share, and takes
  indices of flags that the page numbered after filtering (`cv.py:462-470`).
* Attempt store: two workers on one attempt lose updates or leave a torn file;
  `cleanup_old_attempts` is never called, although its module says attempts are
  cleaned up automatically.
* Redaction: the self-description, values, offer appeal, featured achievement,
  visa status, job description and the user's notes go to the model as typed, and
  the tripwire only logs unless it is set to "raise". When the redacted JSON does
  not parse, the row stores the CV as it is, under the log line "storing original
  (without sensitive data)" (`cv_repo.py:100-105`); a range of years with an en
  dash is enough, since `2019\u20132021` holds eight digits that read as a telephone
  number. With references in the
  wizard, `generate_tailored_cv` restores first, by a redactor with an empty name
  whose map always has the token of the name (`anthropic_generator.py:410`): the
  name in the text of the CV becomes nothing; and as soon as one reference has an
  address, every address is called the reference's (`redact_pii.py:203`) and may
  come back as it. `redact_pii.py:5` says the placeholders are swapped back,
  `anthropic_generator.py:406-408` that only references' tokens are touched there.
  First names, reversed names and slugs come back as the full name and its one
  slug. A second address or number of a saved CV stays a token; a full date
  becomes the token of the birthday while that is unknown, and comes back as the
  vault's; the checker does not know the token of the location; a letter keeps
  the name it was written with while the CV beside it follows the vault.
* Builder: the parser reads 21 entries where `build_cv.py:92-93` speaks of "a
  safety limit of 20 entries"; removing a role in the middle loses the later
  ones on save; cleared references come back; an edit drops projects, grouped
  skills and the CV's own voice; the save of a tab whose session moved to another
  attempt goes over the other tab's CV; the draft of one account is the next
  one's; a session without login may open any row; an anonymous visitor's number
  is stored as a token, and shown to an account without a number it is saved into
  the vault as one (`builder.py:333-337`, `build_cv.py:274-275`).
* Wizard: no order of steps is enforced; a change of region in another tab after
  step 2 skips the new region's consents. A field that is empty in a saved CV is
  filled from the vault in step 3, and saving the form untouched keeps the mix,
  though `wizard.py:267-269` and `wizard.py:664-665` speak of preserving the voice
  of that CV.
* Calls: a CLI client that cannot start, or a cancelled call, is logged as
  "success" (`client.py:508`); a consent request in flight can be recorded after
  the administrator took the eligibility away; overlapping toggles of one worker
  can leave its copy different from the row, and other workers' copies are old
  until they restart.
* Codes: two requests can redeem one invitation twice; a sign-up can make an
  account without credits if the code is redeemed meanwhile; older reset tokens
  stay valid after a newer one was used; `invitations.py:79-80` calls the credits
  a gift, sign-up and login book a purchase.

## Not modelled

* **Scoring**, region detection, the parsers of model answers, labels: pure
  functions of texts over fixed vocabularies. A model of them would be their
  regular expressions once more.
* **Export** (templates, PDF, DOCX), **public pages**, **email**, **logging**:
  layout and output, without state that a later step reads.
* **Photo storage**: thin calls of an object store.
* **Migrations and the start-up lock**: what a half-migrated schema does to a
  request is the database's behaviour; in `database.py` a worker that loses the
  lock goes on at once although the docstring says it waits.
* **Identity**: expressions of interest (a row per address, read by the
  administrator only); the WebAuthn table has no route that writes it;
  **middleware**: session
  expiry, CSRF, tenant and rate limits, which refuse requests and keep no state
  the models have; **account**: the data export and the history of consents;
  **administration**: lists, and the purge of sessions.
* **Deployment**: read for the number of workers and the time-outs.

## Plan

1. Expressions of interest beside `Codes`; session expiry in `Accounts`.
2. In `Redaction`, the references' own redactor in `generate_tailored_cv` loses
   values, and a theorem could say which ones it keeps; the conditions of the
   banner of My CVs.
3. The refinements end at the three promises; a promise for the builder ("one
   draft per page") would hold only while the session stays with the attempt.
