# A TLA+ model of the Story Weave backend

The repository is a NestJS backend for illustrated stories: PostgreSQL through
TypeORM, Redis for counters, codes and caches, BullMQ for the illustration
queue, Cloudflare for images and Cloudinary for storing them. This directory
holds TLA+ modules translated from its source, TLC configurations that check
them on small instances, and proofs checked by TLAPS. Paths below are relative
to `src/src/` of the repository.

## 1. Inventory

| Component | State | Operations | Shares with |
|---|---|---|---|
| Illustration requests (`illustration/illustration.service.ts`) | the story's `illustrationGenerationAttemptId`, `illustrationStatus`, `coverImage*`, `illustrationGenerationNotifiedAt`; page `imageStatus`, `imageUrl` | generate all, generate remaining, queue appended pages, regenerate page, regenerate cover | worker (rows, queue), counters |
| Illustration worker (`illustration/illustration.processor.ts`) | the same rows; the job in hand | page job, cover job, retries | requests, budget, notifications |
| Status rules (`illustration-status.service.ts`, `story-illustration-eligibility.service.ts`) | none | computeStatus, selections | both of the above |
| Progress and notifications (`notifications/`) | notification rows, `illustrationGenerationNotifiedAt` | terminal, page, started, limit notifications; socket rooms | worker, requests, sharing |
| Neuron budget (`ai/ai-usage.service.ts`) | one Redis counter per UTC day | check-and-add, read, reset | worker, requests, admin |
| Daily image allowance (`illustration.service.ts:998-1043`) | one Redis counter per owner and day | check-and-add | requests |
| Auth sessions (`auth/auth.service.ts`, `common/strategies/jwt.strategy.ts`) | `refresh_tokens`, users' password and tokenVersion, Redis `active_token` | register, login, refresh, logout, revoke, reset and change password, validate | one-time codes, admin |
| One-time codes (`common/services/otp.service.ts`) | code, attempts, cooldown and resend keys in Redis | generate, verify, resend | auth |
| Story pages (`modules/story/story.service.ts`) | stories, story_pages | create, append, update, delete, reorder, update metadata, remove | worker (same rows) |
| Segmentation (`modules/story/services/story-parser.service.ts`) | none | splitIntoSections | story pages |
| Access, sharing, favorites (`story-access.service.ts`, `story-favorite.service.ts`, sharing in `story.service.ts`) | visibility, story_shares, story_favorites | share, unshare, access check, add and remove a favorite, the lists | gateway, library |
| Progress gateway (`notifications/story-progress.gateway.ts`) | socket rooms | connect, join, leave | access, notifications |
| Story context (`story-context.service.ts`, `civilizations.constants.ts`) | the story's era, year, location, civilization, theme and option columns | normalize, patch of an update, overrides of a request | story pages, prompts |
| Prompts (`scene-prompt.service.ts`, `story-context-prompt.service.ts`) | none | build, compact and cut a prompt | worker, context |
| Story options (`modules/story-options/`) | three catalog tables | create, update, deactivate, list | prompts |
| Public cache (`common/services/public-cache.service.ts`) | Redis version and versioned answers | get, set, bust | library, users, stories, worker |
| Rate limits (`common/guards/rate-limit.guard.ts`) | one Redis counter per handler and address | hit | all controllers |
| Admin (`admin/services/`) | none of its own | delete story, retry, revoke sessions, roles | auth, illustration |
| Translation, prompts, images, storage, e-mail | content-addressed cache | calls to outside services | requests, worker |

What is hard here: everything runs between awaits. Entities are loaded, kept
over calls to Redis, Cloudflare or the queue, changed and saved; `save` writes
every column in which the copy differs from the row, and a story loaded with
its pages writes the page rows too. Requests run beside each other and beside
several workers; jobs are retried after errors and redelivered after crashes;
the two daily counters are shared by all of them; one failed step in a
sequence of saves, queue calls and notifications leaves what the catch block
makes of it. `PROJECT.json` lists each such hazard at its line, with the
properties that watch it or the reason why none does.

What makes each component correct, in a sentence each:

* requests: no page is worked on by two jobs of different runs; no job of an
  allowance-gated path without a reservation; what fails can be tried again;
* worker: every delivery pays before it calls the image model, the safety limit
  holds, every attempt ends with the page settled or waiting for a retry, a
  run's end is announced once;
* rows: COMPLETED means that there is an image, and the story's status agrees
  with its pages once nothing runs;
* auth: a revoked session is never accepted again; a refresh token is used
  once, and no session survives a password change, unless a refresh that
  overlaps was already past its lookup (3.6);
* one-time codes: a code is accepted once, within its attempts and its time;
* story pages: numbered 1..n without gaps, text and pages agree - until one of
  two edits that overlap is lost, which the code does not prevent (3.6) -, and
  an image never stays with another text;
* segmentation: every word kept, in order, within the page size;
* access: the lists written in SQL agree with the rule written in TypeScript,
  and nobody keeps or follows a story that was neither readable to him nor
  shared with him after it had been SHARED;
* context and prompts: the rules between two fields survive updates of whole
  pairs that do not overlap, a save touches nothing that is neither named nor
  changed meanwhile, a prompt does not contradict itself, and what is essential
  in it survives compaction;
* options: names distinct up to case, and an option switched off stays off;
* public cache: no part of an answer is older than an entry may live and a fill
  may take, and a bust outdates all but the fills in flight.

## 2. Modules

```
IllustrationStatus          pure rules: computeStatus, page selections
  IllustrationStore         rows, counters, queue, memories of the actors
    IllustrationService     requests: one action per step between awaits
    IllustrationWorker      jobs: handler, failure path, announcement, BullMQ
      Illustration          composition, specification, properties
        PrepaidCalls        what the budget promises, instantiated by Illustration
        MCIllustration      instances for TLC
        IllustrationBudgetProofs   TypeCorrect, BudgetKept, CallsPrepaid
          IllustrationRowProofs    CompletedKeepsImage, EndsAreSettled, JobsAreReserved, AnnouncedOncePerFlag

AuthStore                   one account: user row, refresh tokens, Redis keys
  AuthSessions              sign-in, refresh, sign-out, revocation, guards, passwords
  AuthCodes                 one-time codes: every Redis command a step
    Auth, MCAuth            composition and properties, instance
      AuthSessionProofs     RevokedIsRefused, SessionsEnd, RefreshTokensAreUsedOnce, PasswordChangeEndsSessions
        AuthCodeProofs      CodesStandFewGuesses, CooldownBoundsMails, CodesAreUsedOnce, AuthTypes

Totals                      sums of lengths, for the next and for ScenePrompt
StorySections               splitIntoSections, as a function over words
  StorySectionsProofs       SectionsSized, SectionsKeepWords, SectionsBreakAtSentences
  StoryPages, MCStoryPages  the story, its page rows and its share under concurrent requests
    StoryPagesProofs        PagesTyped, PagesNumberedInOrder, WordsStayOnPages, ImagesDepictTheirText,
                            StoriesAreAsSaved, SharesAreAnnouncedOnce

PublicCache, MCPublicCache  readers that fill, writers that bust, Redis that fails
  StaleView                 what a reader is promised, instantiated by PublicCache
  PublicCacheProofs         CacheTyped, CacheFresh, CacheAnswersRecent

StoryAccess                 canAccessStory and the lists that restate it
StoryContext                normalize, the patch of an update, the context of a prompt
ScenePrompt                 sections of a prompt and their compaction
StoryOptions                the catalog of genres, eras and civilizations
  StoryLife, MCStoryLife    composes the four and StorySections: updates, audience, pages, prompts
    StoryLifeProofs         LifeTyped, LifeListed, LifeAudience, LifeRules, LifeUntouched, LifePrompts,
                            LifeWords, LifePages, LifeCatalog, LifePromptWhole, LifeEssentials
```

### 2.1 Illustration

**State.** `story` and `pages` are the rows, reduced to the columns the
pipeline reads or writes. `quota` and `neurons` are the Redis counters. `jobs`
holds each BullMQ job with its finished attempts (`attemptsMade`) and its
redeliveries; a job is named by its target and the attempt id in its job id,
which is the identity of the request that queued it. `req[r]` and `run[j]` are
what a request and a worker hold between two awaits: where they are, and the
copies of the rows they loaded. `reserved`, `charged`, `called`, `announced`
and `cleared` are history variables: nothing reads them but the properties.

**Saves.** `SaveStory(copy)` and `SavePage(p, copy)` overwrite the row with the
copy, which is TypeORM's `save` of an entity whose columns differ from the row;
`UpdateStory` is an UPDATE of single columns. `SaveLoadedStory` cascades to the
pages for the two operations that load the story with its pages.

**Steps.** A step makes at most one database write and one call to Redis or the
queue. Two things are merged because no other actor can tell: a worker's load
of its rows with its first save (pages), and the budget check with the save that
follows it (covers). A request that is refused before it wrote or reserved
anything has no step.

**Faults**, each switched on by a run: the translation throws, adding a job
throws, the image provider or the storage throws (classified as retryable or
not), the prompt is rejected, storing a page notification throws, a process
dies. PostgreSQL statements and Redis calls do not fail.

**Left out:** more than one story or owner (the
neuron counter is shared by all, and the model's jobs stand for all jobs); the
change of the UTC day; deletion of a page or story whose job waits; the admin's
retry, which reserves neurons itself, and the admin's reset of the counter; the
STARTED and page notifications, socket events, audit records and cache busts,
which the pipeline never reads; prompt texts; the worker's rate limiter and
BullMQ's backoff times.

### 2.2 Auth

`rows` are the refresh tokens of one account, `active` is the `active_token` key
of Redis, `user` the account's row, `otp` its code keys by purpose, `reset`
whether a client holds a reset token. A client sends one request after
another; `req[p]` is what its request holds between two awaits, such as its copy
of the user row, which a later `save` writes back whole (`SaveUser` stands for
`updateRole`, `updateProfile` and `updateAvatar`, which load and save the same
row). `validate` of the JWT strategy reads Redis, the session and the account in
three steps (`CheckActive`, `CheckSession`, `CheckUser`), as the guards in front
of a handler do; of a token that names no session it reads only the account
(`CheckResetToken`: the JWT that a reset code is exchanged for is such a token). `Revoke`, `RevokedByChange` and the rest are the UPDATEs of the
source; a refresh loads, then revokes, then inserts. In `AuthCodes` each Redis
command is a step (`generate` is `SetCode` and `ClearAttempts`, `invalidate` is
three deletes), except that INCRBY and the EXPIRE behind it are one.
History: `raced` and `late` record that a revocation fell between a request's
load and its write, `dead` and `overdue` what was true when a request began.

Left out: other accounts, the rate limit in front of the handlers, audit
records, a Redis failure (`PublicCache` has it), the failure of a mail. A reset
token is a flag: it is a JWT that can be used until it expires, also twice.

### 2.3 Story pages

`story`, `pages`, `share` are the rows; a page row carries the text its image was
made from. Every request goes through the steps between its awaits; what a
transaction does is visible when it commits, and the row lock of `append` holds
up every statement that writes the story's row. `Saved` is `save` of a list: rows
with an id are written over - or inserted again when they are gone. Pages are
read in the order of their numbers, ties in either order. `ReplaceWrite` also
fails and rolls back where the list of surplus pages is empty, which TypeORM
refuses (a finding). `LoadPage` and `SaveImage` are the worker's part; the jobs
that create and append queue belong to 2.1.

`disturbed` is set when a request saves what another changed since it read it:
`updatePage`, `deletePage` and `reorderPages` read outside the transaction in
which they write, and the properties below claim nothing once two of them have
really overlapped; everything `append`'s lock and the transactions protect is
claimed. Left out: titles, the language, audit records, notifications of other
kinds.

### 2.4 Public cache

`db` is what the lists show, `version` the Redis counter, `cache` the entries,
each under the version it was written for. A reader reads version and entry,
queries the database, reads the version again and writes; each Redis command may
fail. The query is several SQL statements without a transaction, each a step
(`Run`) that sees the rows of its moment: the page of stories, their number,
their authors, their page statistics (none of the last two if there are no
stories), or the user and the number of stories of a profile. An answer is the
record of what they found. Writers save, and then bust - or do not: `EditPages` changes what the list
shows and the code has no bust there. `recent` and `answer` are history, for the
refinement. `MaxFill` bounds the ticks between a fill's first statement and its
write: an assumption about the environment, since no code bounds it. A restart
or an eviction of Redis is not modelled, and the profile is that of one author.

### 2.5 Story life

One story. `Load` and `Save` (or `Reject`) are two steps of an update, of which
several may be under way: `Save` writes the whole copy that was loaded, with what
the request names assigned to it. TypeORM's `save` reads the row again and writes
the columns in which the copy differs; that is one step here. An access check is
two steps, the story (`Ask`) and then, if it is SHARED, the share
(`LookUpShare`), and adding a favorite or joining a room is a third; `asked` and
`granted` are the members in between. Everything else that can interleave is in
2.1 and 2.3, and is one step here. History: `overtaken`, the columns that others
have changed since an updater loaded its copy; `orderly`, whether every update
named whole pairs and none was saved beside another; `everReaders`, `wasShared`
and `invited`, who could read the story once and whom it was shared with once it
had been SHARED.
A request (DTO) is a function from the fields it names to values that the
validation pipe lets pass; free text is `"text"`, `"blank"` or `None`, options
and civilizations are known by their kind. Words have an identity, a length and
whether they end a sentence; a text is a sequence of paragraphs of words.
A prompt is a sequence of lines with a kind and a length; `compactPrompt`'s loop
is the recursive function `KeptOf` over the lines as `ByPriority` sorts them, and
what it takes out of a sequence (`Those`) is a filter. Lengths are scaled
down (a page of 7 characters for one of 1000), the comparisons are not.

The catalog is one table, its names words in two spellings, given with or without
spaces around them. `LoadOption`, `CheckOption`, `SaveOption` are the steps of
`update`, and `SaveOption` saves the whole row that was loaded, with the unique
index in the way. Bound: when two edits have overlapped or a padded name was
given, of which `CatalogInOrder` claims nothing, what has begun ends and nothing
more begins. Names with wildcards of ILIKE are left out.

Left out: keyword extraction, the wording of guidance and styles, texts that
contain the parser's own heading phrases, titles and language detection.

## 3. Runs

`CHECK_DEADLOCK FALSE` everywhere: requests that are done, or were bounded, leave
a state in which the system may stop.

### 3.1 Illustration

| Run | Instance | Shows |
|---|---|---|
| `requests` | 2 requests of any operation, 1 page, worker, queue and translation faults, allowance 3, neurons for 3 images, pages new, illustrated or failed | `GatedJobsReserved`, `CompletedHasImage` |
| `workers` | 1 request for page and cover, 2 workers, 2 attempts, provider, prompt, notification and crash faults, neurons for 3 of up to 4 calls | `TypeOK`, `NeuronBudget`, `AnnouncedOncePerClear`, `EndsSettled` |
| `redelivery` | 1 request, 2 pages, 2 workers that die, one redelivery, neurons for 2 calls | `NeuronBudget`, `AnnouncedOncePerClear`, `CallsArePrepaid` |
| `liveness` | 2 requests to regenerate one page, 2 attempts, every fault but a crash, neurons for 2 of up to 4 calls | `JobsFinish`, `PagesSettle` |
| `duplicate_jobs` | 2 requests for the remaining pages | `NoDuplicateJobs` does not hold |
| `stale_status` | 1 request for a page, no fault | `StatusConsistent` does not hold |
| `two_terminals` | 1 request for page and cover, provider faults | `OneTerminalPerRun` does not hold |
| `stuck_page` | 1 request, queue fault | `RetryPossible` does not hold |

The bounds are the smallest at which each case occurs: two requests for every
race of claims, reservations and stale saves; two targets for two jobs of one
run; two attempts for a retry and a last attempt; limits low enough that both
counters refuse within the run. Images are worth 100 neurons as in the code; the
limits are scaled down, the comparisons are not. Requests are interchangeable,
and `requests` uses that symmetry; the runs with temporal properties do not.

**Properties.** `GatedJobsReserved`: the four operations that ask for the
owner's allowance never queue a job without a reservation of their own, and the
reservations never exceed the limit (the remaining-pages operation does not ask
for the allowance at all; it is bounded by the neurons only).
`CompletedHasImage`: all the stale copies that are saved over each other never
leave a row COMPLETED without image. `NeuronBudget`: the counter is the cost of
the deliveries that reserved, within the limit, and a delivery that called the
model reserved for itself. `CallsArePrepaid`: the same as a refinement. The
abstract `PrepaidCalls` knows deliveries that pay once, in advance, within the
limit, and then may call; under the mapping `used <- neurons`, `paid <- charged`
every step of the pipeline is a payment, a call, or no change, so the counter is
never lowered and a call never comes before its payment. `EndsSettled`: a job never ends for good with its
target left as in progress in the last row it saved.
`AnnouncedOncePerClear`: the single UPDATE in `notifyStoryTerminal` lets one of
several workers announce; each further announcement needs a save that set the
mark back to null. `JobsFinish`, `PagesSettle`: see fairness.

**Fairness.** `FairSpec` has weak fairness of the handler of each job (BullMQ's
worker loop keeps taking jobs, and a handler that is called runs to its end)
and of the steps of a request that was accepted. No fairness for new requests or
for crashes. Under crashes `PagesSettle` cannot hold: a request that dies after
saving QUEUED leaves the page so, and the code has no recovery.

**Findings.** The four violation runs are disagreements between comments of the
source and what the code does; `PROJECT.json` quotes the lines. Their
counterexamples, in short: (1) the second request judges the first one's claim
stale from pages it loaded before; (2) the worker that announces the end saves
its old copy of the story over the new status; (3) a failing cover job saves its
early copy, which clears the announcement mark, and announces again; (4) the
remaining-pages operation saves QUEUED, fails to add the job, and does not
restore the status. The consequence of (2) is visible in the admin's story
lists, which show a finished story as not started until its next run.

### 3.2 Auth: run `auth`

Two interchangeable clients (SYMMETRY) of one account, under eleven workloads,
each a set of operations that race with each other, an account, and a bound on
the sessions or codes made: sign-in with a password change, refresh with a
reset, refresh and visit with each kind of sign-out and revocation, the
admin's revocation with a whole-row save of the account, (de)activation,
resends, verification of an e-mail, register, forgot password. One change of the
password and one of tokenVersion are enough to make everything issued before
them old. Clock `0..2`, access tokens live 1 tick, remembered sessions 2, so
every order of the two expiries occurs; two attempts per code, three resends.

`RevokedNeverAccepted`: whatever happens to `active_token`, tokenVersion and the
account between the three reads of `validate`, a session that was revoked when
the request arrived reaches no handler. `LifetimeKept`: refreshing does not
stretch a session beyond the sign-in it descends from. `RefreshedOnce`: one
refresh token has two successors only if one of the refreshes was overtaken
between its lookup and its update. `NoSessionOutlivesChange`: after a password
change every usable session descends from a sign-in with the new password - or
was being made while all sessions were revoked, which the code does not prevent.
`GuessesBounded`, `CodeUsedOnce`, `MailsBounded`: attempts are counted after they
are compared, and the counters are deleted and set by separate commands; the
bounds that hold all the same are those numbers plus one for each client that
runs beside another.

### 3.3 Story pages: run `story_pages`

Four processes that do one operation each: the creation of a story of two pages,
and then any three of the ten operations beside each other; words of 2 and 4 characters, pages of 6, so that an append
fills up the last page, moves its rest to a new one, or shrinks the story.
`NumberedInOrder`, `TextOnPages`: pages are numbered 1..n and carry every word
of the text, on one page each (all words fit on a page here: `WordsFit`), until a
request saves over what another changed.
`ImageDepictsText`, without that exception: an image never stays on a page with
another text. `StoryAsSaved`: no append brings back a visibility or a status.
`AnnouncedOnce`: of several requests that share, one tells the other user.

### 3.4 Public cache: run `public_cache`

One reader and two writers of each key, two readers of one or of two scopes and
one writer; one story, TTL and MaxFill of one tick, so that an entry can be
written late, expire, or survive a bust, and a save fits between any two statements of a
fill (463,953 states). `FreshAfterBust`: once the busts are
through, what was queried since the version last moved shows the data as they
are, all its statements together. `AnswersRecent`
is a refinement: under `Window <- TTL + MaxFill`, every step is a step of
`StaleView`, where an answer has the parts that belong together and each part
shows the data at some moment of the last Window ticks, through the eyes of the
reader's own scope. The cache promises no more: two statements of a fill may see
two moments, and a fill that reads before a bust and writes after it lands under
the new version. `Heals`: each writer writes once, and eventually nothing that can be
served is old. **Fairness**: weak fairness of each reader's and each writer's
next step (a handler that was called runs to its end, whether Redis answers or
not) and of time.

### 3.5 Story life: run `story_life`

Seven workloads: every sequence of context updates naming one field, both fields
of a pair, or era and civilization; two updates that overlap, of a pair against
one of its fields, a visibility, or nothing that is modelled; every sequence of
changes of visibility and shares with favorites, and with rooms and a save of a
stale copy beside them, of two other members; every text of one to
three paragraphs and up to four words that are short or longer than a page; a
page or cover prompt of every combination of short and long parts, below and
above the limit; two editors of a catalog of two options (733,964 states).

`ListedIffReadable`: the member's list shows the story exactly when
`canAccessStory` lets him read it, and no other list shows it otherwise.
`AudienceHadAccess`: favorites and rooms are not checked again when access is
lost, and a check reads the story and the share at two moments. If the owner
closes a SHARED story and shares it in between, a member is let in that could
never read it; but only a member that could once read the story, or that it was
shared with after it had been SHARED, is ever in the audience. `RulesKept`: the
rules between two fields hold of the row as long as updates name both fields of
a pair or neither and do not overlap. An update of one of them breaks them, which
is a finding; so do two that overlap, since each writes only the columns in which
its copy differs from the row read again.
`UntouchedKept`: a save changes what its request names and, beside that, only
columns that others have changed since it loaded its copy - those it sets back,
which is a finding too. `PromptConsistent`:
whatever the row has come to hold, findings included, the prompt names no year
without an era, no custom text without its choice, and one civilization only.
`AllWordsKept`, `AllPagesWellCut`: segmentation against its reference definition;
a word longer than a page, and no other, is split, which is a finding.
`PromptWhole`, `EssentialKept`: compaction alone brings a prompt under the limit
without cutting a line, and drops a line of the scene, its subject or its place
only where it does not fit beside the others.
`CatalogInOrder`: edits that do not overlap keep names distinct up to case, and
an option that was switched off stays off.

### 3.6 Findings without a run

`PROJECT.json` quotes them: the resend limit that counts nothing; the empty list
of surplus pages, which makes an edit fail; favorites that stand in the way of
deleting a story; updates of one field of a pair; the enum's era beside the
catalog's in one prompt; headings and contents taken apart by compaction; the
owner's user room that no socket ever enters; padded names and overlapping edits
in the catalog; words longer than a page, which are split although the README of
the repository says never; updates that overlap and set each other's columns
back; edits of pages that overlap, of which one is lost; refreshes that overlap
each other or a change of the password. The properties above are stated as what
holds beside them: where one of them exempts what a history variable marks
(`disturbed`, `raced`, `late`, `overtaken`, `orderly`), the exempted case happens,
and is one of these findings.

## 4. Proofs

Every theorem is about `Spec` (without fairness) for every value of the
constants that satisfies the assumptions listed at the end of this section.
Every safety property that a passing run checks, invariants and action
properties alike, is proved; what is left to TLC is listed there too.

### 4.1 Illustration

`IllustrationBudgetProofs!TypeCorrect`: `[]TypeOK` for any number of pages
and requests and any limits. Typing is inductive only together with
`AttemptsLeft`: a job that BullMQ may still deliver has attempts left, hence its
count never leaves `0..MaxAttempts`.

`BudgetKept`: `[]NeuronBudget`. That the counter
equals the cost of the *set* of charged deliveries needs that no delivery is
charged twice. The invariant `Ledger` says why: `AddedOnce` (a job exists only
after its request added it, and a request never adds a target again, since it
leaves its list of targets), `ChargedBefore` (charges belong to earlier
deliveries, or to the current one once it is past its reservation) and
`PaidBeforeCall` (a worker that generates or uploads has paid for this
delivery). `RequestMoves` and `WorkerMoves` first reduce the 38 actions to the
few moves the ledger can tell apart; the preservation lemmas then work on the
moves. The safety limit itself is the guard of the Lua script, which is one
atomic step.

`CallsPrepaid`: `Spec => CallsArePrepaid`, the
refinement of `PrepaidCalls`. `InitLedger` and `NextLedger` give the ledger in
every state; from it, `WorkerPrepaid` maps each move of a worker (`Pays` to
`Pay`, since `ChargedBefore` makes the charge a new one; `Works` to `Call` or a
stutter, by `PaidBeforeCall`), and a step of a request leaves the budget alone.

`IllustrationRowProofs` is about what stale copies do to the rows.
`CompletedKeepsImage` (`[]CompletedHasImage`) and `EndsAreSettled`
(`EndsSettled`, an action property) share one invariant, `RowsInv`. A row is good
if COMPLETED means that it has an image. Since any copy may be saved at any later
time, *every* copy has to be good: `GoodRows` says it of the rows,
`GoodRequests` and `GoodRuns` of what requests and workers hold. The catch block
is the hard case, because it restores a status from one read over an image from
another; `MayRestore` names the steps from which it can be reached, and for them
the previous status is that of the target at hand, whose image the copy still
has. `AllSettled` says that a handler that is about to return normally, or to
throw for the last time, saved a terminal status.
`JobsAreReserved` (`[]GatedJobsReserved`) rests on `AllowanceInv`: what a request
reserved covers the targets it has still to add together with the jobs it has
added, and the counter is the number of reservations. `AnnouncedOncePerFlag`
(`[]AnnouncedOncePerClear`) is inductive with typing alone: it counts the
workers that are about to announce with those that have, and each of the
steps moves one from the flag to the first and from there to the second
(`FlagArithmetic`).

### 4.2 Auth

`AuthSessionProofs` proves the four properties of sessions for any number of
clients, sessions and requests from one invariant, `SessionInv`. `Typing` and
`Controlled` say what is in a request's memory at each step (a request whose
token names no session may be in a handler without a row). `Currents` is the
argument of `RevokedIsRefused`: a session that was revoked when a request
arrived is still so when the request reads its row, because a revocation is
never taken back. `Lifetimes` (`SessionsEnd`): a row expires when the
sign-in it descends from does, and so will what a refresh is about to insert. `RefreshInv` (`RefreshTokensAreUsedOnce`): a token
with a successor is revoked unless its refresh raced, and at most one refresh
between lookup and insert is not marked as raced. `PasswordInv`
(`PasswordChangeEndsSessions`): whatever is usable and signed in with an older
password was under way at the change, which `late` remembers.

`AuthCodeProofs` adds `Bounds` and `CodesInv` to it. The attempts are read in one
step and counted in a later one, so the bounds count requests: the wrong guesses on a
code are at most the attempts counted plus the requests that have compared and
not counted; each request is one client's, hence at most one more for each
client (`CodesStandFewGuesses`). The mails of a cooldown (`CooldownBoundsMails`)
and the counter of resends (`AuthTypes`) are counted alike. `CodesAreUsedOnce`
needs where codes are (`CodesInv`): a consumed code is in no key any more, since
codes are new when they are set, and one that is being deleted is in the
key of its purpose only.

### 4.3 Segmentation

`StorySectionsProofs` is about what `Sections` returns for *every* text. Induction
as a rule needs an operator as a parameter, and a recursive function of TLA+ is
only a choice of a function that satisfies its equation. Both are done
with sets: `Induction` is about a set of naturals that contains a number when
it contains all smaller ones, and for each recursion it is shown that a function
with its equation exists, because its argument loses weight in every round (`Weight`
counts the letters of the rest).
`SplitOf` says what cutting preserves of the words, `RoundWell` what one round
promises of where it breaks; both carry over from the rest of a text to the whole.
`SectionsSized`: every page is within `MaxChars`, the last one may take a short
rest with it. `SectionsKeepWords`: the words of the pages, in order, are the words of the
text; only a word longer than a page is cut in two.
`SectionsBreakAtSentences`: a page that ends within a paragraph ends a sentence if any
sentence ends on it. `StoryLifeProofs!LifeWords` and `LifePages` carry them
over to the parsed texts of the composed module (`[]AllWordsKept`,
`[]AllPagesWellCut`).

### 4.4 Story pages

`StoryPagesProofs` proves all properties of the run, four of them from one invariant.
`PagesInv` is `Typing` (among others: what each request holds at each step, that
its copies have different ids, and that every row and copy is `Depicted`, which is
`ImageDepictsText`), `StoryInv` and `AnnouncedOnce`. `StoryInv` is `StoryAsSaved`
with what makes it inductive: a request that will save the story as a whole holds
the row as it is (`Current`), unless it is stale or something was disturbed
before; the append that holds the row lock (`Appending`) holds it always, since
every statement on that row waits for the lock. `NextSteps` reduces the 22 actions
to `Effect`: one request moves, the others at most become stale.

`PagesNumberedInOrder` (`[]NumberedInOrder`) has an invariant of its own,
`NumberInv`. `Sequential`: numbers differ and are at most the number of rows, which for a finite
set of rows is to be `1..n` (`SequentialNumbers`). `Holds`: what a copy that is not stale still
says of the rows, for each kind of request. An append holds the rows, each at its number,
then new pages (`ToAppend`); a rewriting holds every row; a reordering holds
exactly the rows with the numbers `1..k`, although others may have come after
them (`ToReorder`); a worker holds a page whose number has not changed.
`Together` relates the two that run beside each other by intent: the pages that a
reordering writes are the first `k` that the append writes, so whichever of
them commits last, the numbers are `1..n` again. The invariant was first
checked by TLC on the instance of the run. `ListedCopies` and `SequentialListed`
say what reading in the order of the numbers returns, `WrittenInOrder` what
saving a list as `1..n` leaves.

`WordsStayOnPages` (`[]TextOnPages`) adds `WordsInv`, which has two parts. `TextInv`,
as long as nothing was disturbed: no word is on two pages (`Spread`), the words of the
pages of a READY story are those of its text, and each copy that is not stale
says the same of what it will write (`Carries`) - a creation that its parts are
the sections of its text, an append that the pages it will write carry its new text,
an edit that its parts are the sections of the text that it put together from the
pages and its own words. `FreshInv`, always: no word has a number above `words`, and the text
of an edit that is about to list the pages has words nobody else has. It must
hold of stale requests too, since an edit finds its page in one statement and
lists the pages in the next: `ListForUpdate` reads everything anew, is not stale any more
whatever it was before, and replaces a page's words with words that are on no page.
Each action changes who holds which words (`Owned`, `FreshStep`) and what the
copies say (`WordsStep`); what splitting a text again does to its words is
`SectionsKeepWords`. Both parts were checked by TLC on the run's instance first.

### 4.5 Public cache

`PublicCacheProofs` proves `CacheTyped`, `CacheFresh` and the
refinement `CacheAnswersRecent` for any readers, writers, stories and bounds.
`FreshAfterBust` is about entries, but an entry is made from what a reader holds,
so the invariant says the same of readers: `HeldFresh`, a reader whose first
statement ran under the present version holds parts of the present data, since
data change only with a bust to come or with `lapsed`. `AllRecent` dates what
entries and readers hold, part by part (`PartRecent`): a part that a reader holds
is at most as old as its `age`, one of an entry at most as old as
`TTL + MaxFill` less its time to live, so every part of an answer shows data in
`recent`. That an answer has all its parts and no other is `Progress`, in what
`Holding` and `Stored` say of readers and entries. `Learns` is what a statement
adds to what its reader holds; `LearnsShows` is the point at which the parts
depend on each other, the statistics on the stories found before.
`ReaderKeeps`, `WriterKeeps` and `TickKeeps` take the steps in turn.

### 4.6 Story life

`LifeInv` is `TypeOK`, `RulesKept`, `AudienceHadAccess`, and what makes them
inductive. `NormalizeTyped` and `NormalizeRules` say
what `normalize` returns for any validated request; `UpdatedRowRules` is the
heart of `LifeRules`: a patch that names both fields of a pair, or neither, takes
each pair from one side only. `CopyOf` says what a copy still tells of the row:
everything but the columns in `overtaken`, and all of it while the updates are
`orderly`; from it, `LifeUntouched` compares what is saved with the row. For the
audience, `Remembered` says that the readers of now are in `everReaders` and that
the shares of a story that has been SHARED are in `invited`; a check that
waits for its share (`asked`) has seen it SHARED, so whom the second read lets in is
invited. Nobody leaves either set, so that no change between check and
use does harm. `LifeListed` and `LifePrompts` need no
invariant but the type.
`LifeCatalog` rests on `CatalogInv`: as long as edits do not overlap, the one that
is going on is `UpToDate` - its copy is the row, and a name it has checked is free
of matches but its own - so that inserting or saving cannot bring a second
spelling nor an old `isActive`.
`LifePromptWhole` and `LifeEssentials` need of the state only that the prompt is that of
the page last illustrated (`PromptInv`); the rest is about `compactPrompt`, for any
lines of any lengths. `Sorted`: after the sort the lines of the scene, its subject
and its place (`Main`) precede all others. Along the loop (`LoopCompacts`, by induction
over the lines handled) `Compacted` holds: what is kept are lines of the prompt, within the
limit, and an essential line that is missing does not fit beside the
essential ones that are kept; nothing is kept only if every line is longer than
the limit. `NoRoomMade` shows on the way that the branch which removes lesser lines for an
essential one never removes any, since none precedes it. As a line of fixed wording
fits alone (`Fixed <= MaxPrompt` in `PromptAssumption`; the longest of the code's is far below
2000 characters), the compacted prompt is neither empty nor too long, and
`truncateAtWordBoundary` has nothing to cut (`PromptFinished`). That `KeptOf` and `Total` are the
functions of their equations is proved as for segmentation (`KeptEquation`).

### 4.7 Assumptions, and what is only model-checked

The proofs rest on these assumptions, which TLC evaluates in the runs:
`StoreAssumption` and `InitialAssumption` (Illustration), `AuthAssumption`
(the clients are finitely many, the limits numbers), `WorkloadAssumption` (the
account and its sessions at the start are such as earlier sign-ins
leave: `SignIn`), `CacheAssumption`, `SectionsAssumption`, `PagesAssumption` (first texts are
texts in which no word stands twice - words are occurrences -, new words are not empty, the requests are finitely many and `None` is not one of them),
`LifeAssumption` (requests are such as the validation lets pass, texts are made
of words, the pages to illustrate have parts with lengths), `ContextAssumption`, `RowAssumption` and `LabelAssumption` (`None` is no year, no row and no text of a prompt),
`AccessAssumption` (the guest is no member), `OptionsAssumption` and `PromptAssumption` (limits and
fixed lengths are positive, and a line of fixed wording fits into a prompt).

`TextOnPages` says "on one page each" under a condition, `WordsFit`: a word that is
longer than a page is cut in two and is on two pages, as the code does and as
`SectionsKeepWords` accounts for. The run satisfies it.

Only model-checked:

* `JobsFinish`, `PagesSettle` and `Heals` are liveness properties, out of
  the prover's reach; so is anything that needs ENABLED.
* The four violation runs are counterexamples, not theorems.

## 5. Not modelled

* Rate limits: one counter per handler and address in front of everything;
  every modelled request is one that passed. (Each hit renews the expiry, so a
  steady client never gets a new window: `PROJECT.json` lists it as a hazard.)
* The admin's retries and the reset of the neuron counter: the retry reserves
  neurons in addition to its job, the reset is the operator's correction of the
  counter, after which `NeuronBudget` is not promised.
* Redis restarts and evictions, PostgreSQL failures, the change of the UTC day.
* Queries without state: dashboards, search, pagination, option lists.
* Account bootstrap, audit log, e-mail, PDF parsing, health checks, configuration,
  DTOs, migrations, Swagger metadata: no state that two actors share, or no
  behaviour over time.

## 6. Plan

1. The admin's operations on the neuron counter, with an abstract specification
   of what the counter still promises after a reset.
2. A Redis restart in `PublicCache`: the version counts from nothing again while
   fills of older versions are under way.
