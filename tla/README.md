# LinkForge in TLA+

A formal model of LinkForge, the URL shortener in `src/`: TLA+ modules translated
from the NestJS services, the TLC configurations that model-check them on small
instances, and theorems about them that TLAPS checks for every instance.
Source paths below are relative to `src/src/modules/` unless they begin with `src/`.

## 1. Inventory

LinkForge is one Node.js process (an API and, in the same process, a BullMQ
worker) over PostgreSQL (through Prisma) and Redis. Handlers are async functions:
between any two `await`s another request may run. No handler uses a transaction,
except the worker's two-statement one.

| Component | State it keeps | Operations | Depends on |
|---|---|---|---|
| Rate limiter (`rate-limit/`) | Redis counters `rate:{global,ip,slug}:*` with a TTL | `check` = INCR, EXPIRE if 1, TTL; `checkGlobal/Ip/Slug` (`checkUser` has no caller) | Redis; called by redirect |
| Redirect (`redirect/`) | none of its own; may disable a link | `resolveSlug`: three limits, link, user quota, link quota, emit | limiter, links, users, queue |
| Analytics (`analytics/`, `src/src/queues/`) | BullMQ jobs in Redis; `click_events`, `links.clickCount` | `emitClickEvent`, `process`; `getClickStats` reads | Redis, PostgreSQL |
| Links (`links/`) | `links` | `create`, `enable`, `disable`, `delete`; `findOne`, `findAllByUser` read | users, plan, overrides |
| Admin (`admin/`) | `user_overrides`; flag of `links` | override upsert and removal, disable/enable any link; lists and stats read | PostgreSQL |
| Sessions (`auth/auth.service.ts`) | `refresh_tokens` | `login`, `refresh`, `logout`, `register` | users, the clock (JWT `iat`) |
| Users, plans, seed (`users/`, `plans/`, `src/prisma/seed.ts`) | `users`, `plans` | `create`, `findDefault`, seed | PostgreSQL |
| Access control (`auth/guards`, `auth/strategies`) | none | a decision per request | users |
| Redis connection (`src/src/database/redis.module.ts`) | connection, offline queue | reconnect, give up after 10 retries | Redis |
| HTTP shell (`src/src/main.ts`, `app.module.ts`, controllers, DTOs, filter) | none that outlives a call | route, guards, pipes, handler, filter | everything |
| Health (`health/`) | none | a PING through the shared Redis client | Redis, PostgreSQL |
| Configuration, load script | none | parsing; sending requests | |

What is hard about it, and what makes each part correct:

* **Rate limiter** - three Redis commands per check, interleaved with other
  requests', resent when the connection drops, cut short when the process dies.
  Correct: every counter gets an expiry, the expiry is set once and respected,
  windows end, and what passes is bounded.
* **Links and admin** - check in one statement, write in another. Correct: slugs
  stay unique, quotas are respected up to the requests that race, nothing deleted
  comes back, only owners and administrators enable or delete, every request is
  answered.
* **Redirect and analytics** - the redirect reads a snapshot, answers without
  waiting for the queue, and a worker counts later, with retries, stalls, lost
  replies and crashes. Correct: counts and events agree, a click is counted at most
  once per run of its job and beyond its redirect only by a fault, is dropped only by
  faults that justify it, settles in the end, and no link is disabled for clicks it
  did not have.
* **Sessions** - refresh tokens are single-use rows keyed by the hash of a JWT
  whose only variable parts are the user and the second. Correct: each row is used
  up once, rows outlive their JWT, logging in and out do what they say.
* **Users, plans, seed** - registration is five statements, and nothing ties them
  together but unique indexes. Correct: who was told 201 can log in, nothing refers
  to what is missing, there is one default plan.
* **Redis connection** - commands are queued and resent without limit, and one
  function decides when to stop. Correct: nobody waits for ever, the limiter's
  promises survive an outage, outages do not add up.
* **HTTP shell and lists** - order decides: of routes, of guards before pipes, of
  the two statements of a page. Correct: requests reach the handler they mean with
  the token it takes, a walk over the pages misses nothing.
* **All over one database** - redirects, requests and the worker write the same
  rows. Correct: each component stays what it is alone, and no handler hangs.

`PROJECT.json` lists every hazard at its line, with the property that covers it or
the reason why none does.

## 2. Modules

| Module | Role |
|---|---|
| `FixedWindow` | abstract: what a fixed-window rate limiter promises |
| `RateLimiter` | `RateLimitService.check` and the limits of `resolveSlug`, command by command; implements `FixedWindow` |
| `LinkStore` | the rows that the services share, one operator per SQL statement |
| `LinkService` | `LinksService` and the writes of `AdminService`, statement by statement; extends `LinkStore` |
| `ClickPipeline` | `resolveSlug` after its limits, `AnalyticsService`, the queue and `AnalyticsProcessor`; extends `LinkStore` |
| `ClickLedger` | abstract: what counting clicks promises; `ClickPipeline` implements it |
| `System` | `LinkService` and `ClickPipeline` over one store, with the cascades and one crash; implements both |
| `Sessions` | `AuthService.login`, `refresh`, `logout` |
| `Accounts` | `register`, `UsersService.create`, `PlansService.findDefault`, `login`'s credentials, the seed; its calls are made of the actions of `Sessions` |
| `RedisClient` | the ioredis client under `RateLimiter` and the health check; its commands are the actions of `RateLimiter` |
| `Listing` | `findAllByUser` and a client that walks its pages |
| `HttpShell` | routes, guards, pipes, exception filter; extends `Listing` |
| `MC*` | constants and symmetry of the instances TLC checks |
| `SumTheorems` | lemmas: what `SumFunctionOnSet` of the community modules adds up to |
| `RateLimiterProofs` | theorems of `RateLimiter` and `RedisClient` |
| `LinkStoreProofs`, `LinkServiceProofs`, `ClickPipelineProofs`, `SystemProofs` | theorems of the module in their name |
| `AccountsProofs` | theorems of `Sessions` and `Accounts` |
| `HttpShellProofs` | theorems of `Listing` and `HttpShell` |

A definition whose comment begins with `mutant` is a plausible bug in the one that
follows it; `PROJECT.json` says which property it breaks. No action uses it.

### RateLimiter

`count[k]` and `ttl[k]` are the Redis keys (0 and `NoTtl` when absent or without
expiry); `pc`, `layer`, `current` are a request's place in `check` and what INCR
answered. `Incr`, `Expire`, `ReadTtl` are the three commands; `ReadTtl` also takes
the decision of `resolveSlug` (next layer, or leave). `IncrReplyLost` and
`ExpireReplyLost` are the client sending a command again after a reconnection
(`maxRetriesPerRequest: null`, offline queue): the server ran it, the client does
not know. `Crash` drops the requests and keeps Redis. `Tick` is Redis' clock.
`age` and `passed` are history variables. The keys are built as in
`rate-limit.service.ts:30-48`: the "global" one holds the client address.

### LinkStore and LinkService

`links[i]` is a row or `Null`; `isActive` and `disabledAt` are written together
everywhere, so they are one flag. `usedIds` makes identifiers (UUIDs) fresh.
Overrides are partial: a field is a number or null, and `Effective` is the `??` of
the code, per field, which takes 0 as a limit. In `LinkService` a request is a
program of statements: `create` is `ReadUser`, `CountLinks`, `LookupCustom` or
`LookupAuto` (repeated), `InsertRow`; `disable`, `enable`, `delete` and their
administrator versions are `FindLink`, `WriteLink`; `removeUserOverride` is
`FindOverride`, `DropOverride`; `updateUserOverride` is one upsert. A statement that
Prisma throws on is answered 500, as `GlobalExceptionFilter` does with anything that
is no `HttpException`. Answers 400 (validation, unsafe URL) are given before any
state is read and are left out. Users are never deleted by the program, so "User not
found" cannot happen to an authenticated call, and an administrator's override for
an identifier of no user, a 404 that touches nothing, is left out (`SetOverride`).
`Crash` ends every call in
flight and keeps the tables; `AutoDisable` is the write of a redirect, as another
process's.

### ClickPipeline

A visit is `Find` (link, user, plan and overrides in one read, with the 404 and
both 410s), `CountTotal` (the total quota, the link quota on the count read
before, and the emission) and `DisableLink`. A job is `free`, `emitting` (its
`queue.add` is in flight and nobody waits for it), `waiting`, `active`, `committed`
(the transaction is in, the queue not told), `delayed` (backoff), `stalled` (its
lock ran out), `completed`, `failed` or `lost`. `Record` is the transaction, which
`RecordFails` rolls back when the link is gone or the database fails. The worker
takes one job at a time (BullMQ's default concurrency). The queue gives a stalled
job back `MaxStalls` times (default 1).

PostgreSQL and Redis may do what they were asked and lose the reply. Of the
transaction this is `RecordReplyLost`: the handler sees an error like any other,
rethrows it, and the retry counts the click again. Of `queue.add` it is
`AddReplyLost`: the error is logged and the click is in the queue all the same, or
the client sends the command again and, as no job id is given, makes a second job.
`LockLost` is a worker that lives but could not renew its lock; what it still does
in the database comes before it, as it takes no other job until it is done.
`granted` counts the redirects answered, to compare with what was counted.

`ManageLinks` is every statement `LinkService` could run, at any moment, with the
cascade that deletes a link's events. `CountsClicks` maps the pipeline to
`ClickLedger`: a job is pending, counted or dropped by `Phase`, and the ledger only
grants (a redirect, or a job sent twice), counts (`Attempts + MaxStalls` times at
most, once for each run a job can have), drops, and forgets deleted links.

### System

`System` extends `ClickPipeline` and instantiates `LinkService` over the same
`links`, `usedIds` and `overrides`. `Manage` is a statement of a request with
`Cascade`, the deletion of a link's events and count by the foreign key; `Click`
wraps the steps of redirects and jobs, which leave the requests alone; `Restart`
is one crash for both. `ImplementsPipeline` and `ImplementsLinkService` say that
what was shown of each alone, against arbitrary neighbours, holds of the two
together. The limiter shares nothing with them but the moment a visit begins.

### Sessions

A token is `[user, iat]`: the code signs `{sub, email, role}` and the JWT library
adds `iat` and `exp` in seconds, so two tokens of one user and one second are the
same string and have the same hash. `expires[t]` is the row's `expiresAt`. The
statements of `refresh` are `FindRow`, `DeleteRow`, `Sign`, `Store`; `logout` is
`Revoke`, which swallows the error of a missing row. `issued` is what clients hold;
`stored`, `redeemed`, `revoked` count what happened to the rows of each token.
Signing in as a new user (`register`) is a login once the user's row exists.

### Accounts

`account[u]` is the row of address `u`, by its password; `plans` counts the default
plans. A registration is `Register` (the lookup, a 409 when it finds one),
`FindDefault` (500 until the seed has run), `CreateUser` (the unique index refuses
an address taken since, as a 500) and then `Sign` and `Store` of `Sessions`.
`SeedFind` and `SeedCreate` are the seed script, which several processes may run.
`ProcessDies` ends the calls wherever they are.

### RedisClient

`status`, `retries` are the connection and the `times` that `retryStrategy` is
called with. A command (`Command`) runs when the connection is ready and nothing
before it is unanswered; `LoseReply` is a command that ran without its answer.
`Break` and `AttemptFails` ask `GivesUp`: reconnect, or end the client, which
rejects everything that waits (`EndCalls`, a 500 per visitor, `down` for the health
check). `Restart` makes a new client. To `RateLimiter` an ended call is a crashed
one. The client changes the limiter's variables through the limiter's own actions
only, so the limiter's theorems carry over; that is by construction and no run
checks it.

### Listing and HttpShell

`FindMany` and `Count` are the two statements of `Promise.all`, each on the table of
its moment; `NewestFirst` leaves rows of one `createdAt` in any order, per
statement. `noise` is what disturbed the walk and `stayed` the rows that were there
throughout. A request in `HttpShell` has `todo`, the guards, pipes and handler it
still has to pass. `Routes` is the registration order (`app.module.ts:18-36`, then
the order in each controller); segments are compared in lower case, as Express does.
`FirstFit` is the position of the first route a request fits.
Handlers other than the two lists are answered `done`: what they do is in the other
modules. `ValidArguments` abstracts DTOs to a good or bad body, except the page's:
a positive integer without an upper bound. `QueryAccepted` is what Prisma takes for
`skip` and `take`, integers up to `MaxInt` (2^63 - 1), so a page may pass the one
and fail the other (`GET /links?page=1e21`), which is a 500.

## 3. Runs

| Run | Instance | Question |
|---|---|---|
| `limiter_faults` | 2 requests on shared counters, 1 crash, 1 lost reply | types, `SlidingBound`, `StuckOnlyByFaults`, `ExpiryNotReset`, implements `FixedWindow` |
| `limiter_outage` | 2 visitors, a health check, 2 attempts, 1 break, 1 lost reply, 1 crash | types, `CallersAnswered`, `OutagesDoNotAddUp`, `WindowsCloseUnlessFaults` |
| `limiter_stuck` | 1 crash | **violated** `CounterGetsTtl` |
| `links_safety` | 2 users, 3 links and slugs, 2 requests of any kind | types, `SlugUnique`, `QuotaOvershoot`, `NoResurrection`, `OwnersOnly` |
| `links_quota` | 2 creates | **violated** `QuotaRespected` |
| `links_conflict` | 2 creates of one slug | **violated** `SlugTakenIsConflict` |
| `clicks_safety` | 1 link, 2 visits, 2 jobs, 1 crash, 2 errors or lost replies or locks, overrides null or 2 | types, `Accounted`, `AtMostOncePerRun`, `CountsAreGranted`, `DroppedOnlyByFaults`, `DisableJustified`, implements `ClickLedger` (`CountsClicks`) |
| `system_live` | 1 user, 2 links, 1 request, 1 visit, 1 job, 1 stall, 1 crash, fair | `ImplementsPipeline`, `ImplementsLinkService`, `DisabledForAReason`, `EveryRequestReplies`, `EveryVisitAnswered`, `JobsSettle` |
| `clicks_quota` | 2 jobs, no fault | **violated** `ClickQuotaRespected` |
| `accounts_safety` | 1 address, 2 passwords, 2 calls, 2 seeds, 3 instants, crashes | types, `SingleRedemption`, `RowsOutliveTokens`, `WelcomedCanLogIn`, `NothingDangles`, `OneDefaultPlan` |
| `sessions_logout` | login, logout, login | **violated** `LoggedOutStaysOut` |
| `shell_requests` | 19 routes, 4 tokens, good and bad arguments, pages too large; 4 links, 3 instants, pages of 1 and 2 | types, `RightHandler`, `AdmittedOnly`, `PagesFailOnlyBeyondInt`, `NothingMissed`, `ShownOnce` |

The five violated properties are what README, controllers or tests say, taken
literally; `PROJECT.json` quotes each and says what the counterexample does. Beside
most of them stands the property that does hold: quotas are passed, but by one link
per racing request at most (`QuotaOvershoot`); a counter may be left without expiry,
but only by a fault (`StuckOnlyByFaults`); a slug conflict may be
answered 500, but no slug is ever doubled (`SlugUnique`).

### Bounds

* Two concurrent requests per module: every race in this code is between two
  statements of one request and a statement of another. The theorems hold for any
  number.
* `MaxCount = 3` with a limit of 2 (and 1 for slugs): at, over and under the limit.
  Times to live of 2 ticks: a window can be half over. One crash and one lost reply
  are enough to reach each place where they hurt.
* Three links and slugs with a quota of 1 that overrides set to 0 or clear: over
  quota by the plan, by an override, by a race. `IdLeft` lets a create start only
  while an identifier is left, so no request is stuck for lack of one; calls name
  identifiers handed out before, deleted ones included.
* `MaxAttempts` is 10 in the code and 1 or 2 here; the loop does not look at the
  number but to compare it.
* `Attempts = 2` instead of 3 and `MaxStalls = 1`. Errors are failed statements and
  commands, lost replies and lost locks: two of them use up the attempts, or with
  `MaxStalls = 1` the stalls, and with the crash a stall and an attempt meet in one
  job. A second crash does to a job what a lost lock does, and to a visit what the
  first did. `Jobs` bounds the clicks ever emitted, second jobs of one click
  included.
* Clock values 0..2 with a lifetime of one second: a token is used in its
  second, at its expiry and after it. `MaxIssues = 2` lets one token string be
  stored, used up and stored again.
* `MaxRetries = 2` instead of 10 and limits and times to live of 1 in
  `RedisClient`: enough for an attempt that fails and one that is not the last, and
  for a window that ends during an outage. `Room` keeps counters below `MaxCount`.
* `System` has one actor of each kind: its properties relate a request, a redirect
  and a job, and races among two of a kind are in the runs of the components.
  `Limits = {}` leaves overrides null; changing limits are in those runs too. Its
  liveness is checked with a crash, a stall and deleted links but without errors
  (`MaxErrors = 0`): an error only leads a job to states those lead to as well
  (`delayed`, `stalled`, `failed`, `lost`), and errors are bounded like crashes.
* Accounts with one address: registrations of different addresses share only the
  plan. Two passwords tell the two registrations apart.
* Four links and pages of one and two: walks of up to four pages, with pages that
  end full and half full. A behaviour of `HttpShell` is one walk or one other
  request: requests share nothing but the tables, which the walk's neighbours write.
  `MaxInt = 100` instead of 2^63 - 1: the pages of the walk fit, three others do not.

Runs check deadlock, but for `shell_requests`, where a client that has walked to
its last page stops; elsewhere time, calls or overrides can always go on.

### Fairness

* `RedisClient`: weak fairness of each visitor's command and of the PING while the
  connection answers, of a break once a reply is lost (a dead connection is
  noticed), of the end of a connection attempt, and of time. That an attempt
  succeeds is not assumed, so `CallersAnswered` rests on the client giving up.
* `System`: weak fairness of each request's next statement, of each visit's, and of
  each job's next step (PostgreSQL and Redis answer, the event loop and the worker
  go on, the container restarts). Nobody has to send a request or a visit.
* `WindowsCloseUnlessFaults` assumes no crash and no lost reply, as
  `limiter_stuck` shows it must; outages it allows.

## 4. Proofs

Every safety property of a passing run is a theorem: TLAPS checks it for every
number of users, requests, links, slugs, visitors and jobs, every limit, page size
and time to live, and any requests.

* `RateLimiterProofs`, first part: `TypeCorrect`; `CountersExpire`
  (`StuckOnlyByFaults`: until a crash or a lost reply, which is what the violated
  run uses); `ImplementsFixedWindow` (refinement, with all faults, along
  `WindowInv`: an expiry and the age of its window add up to at least a time to
  live); `WindowsAreFixed` (`ExpiryNotReset`, along `OneExpire`: until a reply is
  lost, at most one request is about to set a counter's expiry and the counter has
  none); and `TwoWindowsAtMost` (`SlidingBound`). That one is not inductive: the
  invariant `HitsInv` splits the row of hits at the age of the window. What is
  younger is at most the window's count, what is older at most the limit; without
  a window the whole row is within the limit; and `WindowInv` makes a window old
  enough, when it ends, for everything before it to have left the row.
* `RateLimiterProofs`, second part: the limiter's theorems under outages
  (`LimiterHolds`, by the lemma `LimiterBehindClient`); `ClientTypeCorrect`;
  `OutagesAreApart` (along `ReadyStartsOver`: a ready connection has counted no
  attempt).
* `LinkServiceProofs`: `TypeCorrect` (along `Typing`: types and, per request, that
  its statement and its call go together); `SlugsUnique`; `DeletedStaysDeleted`;
  `OnlyOwnersWrite` (along `Entitled`: a request that has found its link is
  still its owner's); `QuotaIsNearlyRespected` (along `QuotaInv`: the user's links
  *and* the creates that have passed the count together stay within the quota plus
  the other request slots - `QuotaOvershoot` alone is not inductive, since two
  creates past the count would break it).
* `ClickPipelineProofs`: `TypeCorrect`, `CountedOncePerRun`
  (`AtMostOncePerRun`), `NothingDroppedInSilence` (`DroppedOnlyByFaults`) and
  `DisabledOnlyWhenUsedUp` (`DisableJustified`), all along `PipelineInv`. Its part
  `JobInv` is the account of a job by where it is: how many of its runs are over,
  each by an attempt or a stall, an error for each attempt on a live link, a crash
  or an error for each stall; the
  properties only look at the end of that account. Its part `SeenInv` says that a
  visit's snapshot is never ahead of the row. Both need that identifiers are not
  reused, which `LinkStoreProofs` proves of every statement (`StatementTyping`).
  `FaultsPayForRecounts` (`CountsAreGranted`) goes along `GrantInv`: the counts of
  all jobs, and one more for each job still under way, stay within what was granted
  and the faults so far. A step adds one to that sum for one job at most, and then
  it is a redirect granted, an error or a crash (`PaidFor`); a crash hits one job,
  since the worker holds one at a time (`OneHeld`).
  `ImplementsLedger` (`CountsClicks`) maps each step of the pipeline to a step of
  the ledger or to none, with `PipelineInv` for the number of counts.
  `BooksBalance` (`Accounted`) goes along `AccountInv`: besides the two sums, a
  job that is still free names no link, and an identifier that was not handed out
  has no counts; with `JobInv` no job names such an identifier either, so a new link
  starts from a sum of nothing and a new job adds nothing to the sum of its link.
* `AccountsProofs`, first part, about `Sessions`: `TypeCorrect`;
  `TokensRedeemedOnce`; `RowsExpireLast` (along `SignedBefore`: no token in hand is
  dated in the future).
* `AccountsProofs`, second part: `AccountsTypeCorrect`; the theorems about
  `Sessions` for the whole (`SessionsHold`, by the lemma `SessionsBehindCalls`);
  `RegisteredForGood` (along `InsertedFirst`: between the insert and the answer the
  account is the form's); `TablesDoNotDangle` (along `FoundFirst`: a call in flight
  has its user, and its plan once found); `SeedsMakeOnePlan`.
* `SystemProofs`: `SystemIsPipeline`, `SystemIsLinkService` and
  `NothingDisabledWithoutReason`, along `SystemInv`: `PipelineInv` and `Hands`, what
  a request between two statements knows of the rows others may write meanwhile.
  From the two refinements the theorems of the parts follow for the whole:
  `PipelineHolds` and `LinkServiceHolds`.
* `HttpShellProofs`, first part, the walk: `ShownAtMostOnce` (`ShownOnce`) and
  `NoneMissed` (`NothingMissed`), along `WalkInv`. The rank of a row is the number
  of rows newer than it. `ShownInv`: without insertions and ties, a row that was
  shown has a rank below the page to come, and a page in hand shows only rows that
  were not. `MissedInv`: without deletions and ties, a row that stayed and was not
  shown ranks at or behind the page to come, and unless a row was created between
  the two statements of a page, the count in hand reaches beyond that page, so the
  client asks for another. `PageShows` ties `FindMany` to ranks: what a page shows
  is what ranks from `Skip` to `Skip + limit`.
* `HttpShellProofs`, second part, the request: `ShellTypeCorrect` and
  `OnlyAdmitted` (`AdmittedOnly`), `PagesFailForSize`
  (`PagesFailOnlyBeyondInt`) and `HandlerIsRight` (`RightHandler`), along
  `ShellInv`: what a request still has to pass tells what it has passed, its route
  is the first it fits, and what it was answered with tells how far it came. From
  the table of routes come `RoutesOK` (what is under `/admin` is guarded by role,
  what acts for a user by the token) and `PlacesOK` (where the parameters are: no
  route without one that comes after a route with one fits the same request).

`SumTheorems` proves what sums over functions add up to: the recursion of
`FoldFunctionOnSet`, sums of natural numbers, of parts, of rows with one term
changed, of rows moved along. The induction over finite sets that this takes is
made without the library's induction theorems: a property is the set of what has
it, and `WFMin` of `WellFoundedInduction` with `NatLessThanWellFounded` gives the
least cardinality outside of it.

Assumptions are the named ASSUMEs of the modules, which TLC evaluates in each run:
limits and times to live are positive (`configuration.ts` turns 0 into the
default), plan limits are natural numbers, sets of identifiers, requests, jobs and
rows are finite, page sizes are those of `PaginationDto` and Prisma's integers hold
them, `Null` and `None` are no
value of the program. Of the requests, `ShellAssumption` says only that a path is
a sequence of segments and that none that `CreateLinkDto` accepts as a slug (six
characters at least) reads `links`.

Only model-checked: the liveness properties `CallersAnswered`,
`WindowsCloseUnlessFaults`, `EveryRequestReplies`, `EveryVisitAnswered` and
`JobsSettle`, which rest on fairness and so on ENABLED, out of the prover's reach.

## 5. Not modelled

* `checkUser`: no caller. `getClickStats`, `getSystemStats`, `findOne`: they return
  rows and counts and change nothing.
* `slug.util.ts`, the configuration, the interceptors: pure functions on characters
  and JSON. A configured 0 becomes the default, which is why the models take
  positive limits; nobody wrote what an operator means by 0.
* What ioredis does inside an attempt (a TCP connection that is not ready yet) is
  part of the attempt; the database half of the health check is a library's.
* The load script, Docker files and SQL migration (the schema's constraints are in
  `LinkStore`, `System`, `Sessions` and `Accounts`).
* Refusals that come before the guards and reach no handler: the body parser's, and
  that of a path that does not decode. HEAD, which Express serves by the route of GET.
* A JWT lifetime given in days crosses daylight-saving changes by the calendar in
  `parseExpiry` and by seconds in the JWT: with a process in UTC, as in its
  container, they agree, and the model takes seconds.

## 6. Plan

Done: all modules of section 2, in the order `FixedWindow`, `RateLimiter`,
`LinkStore`, `LinkService`, `ClickPipeline`, `Sessions`; then `Accounts`,
`RedisClient`, `ClickLedger`, `System`, `Listing` and `HttpShell`. What is left:

1. `getClickStats`, whose counts are of several moments.
2. The slug lengths of `generateUniqueSlug` and `parseExpiry`, as operators checked
   against reference definitions.
3. Theorems about what the liveness properties rest on, without fairness: what a
   request, a visit or a job that has begun may wait for.
