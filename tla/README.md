# Verification of start-nestjs

TLA+ models of the stateful parts of this NestJS application, checked with TLC
on small instances, and proofs about them checked with TLAPS.

## The system

| Component | State | Operations | Interacts with |
|---|---|---|---|
| `AuthService`, `AuthController`, JWT strategies | none of its own; tokens live with the clients | login, register, logout, refresh, get-user | users table, `TokenBlacklistService`, JWT library |
| `TokenBlacklistService` | keys `blacklist:<token>` in the cache, each with a time to live | `blacklistToken`, `isTokenBlacklisted` | `RedisService` |
| `AccessTokenGuard`, `RefreshTokenGuard` | none | `canActivate` before every handler | passport, `TokenBlacklistService` |
| `RedisService`, `RedisModule` | the cache: Redis, or a bounded store in the process, by `CACHE_DRIVER` | get, set, del | Redis |
| `UsersService`, e-mail validator | users table | create, update, remove, lists | PostgreSQL through TypeORM |
| `PostsService` | posts table, foreign key to users | create, update, remove, lists | PostgreSQL through TypeORM |
| Health probes | the key `__health_check__` in the cache | liveness, readiness | database, `RedisService` |
| Rate limiter | a window of requests per client and route | `ThrottlerGuard` before every handler | - |
| Filters, pipe, interceptor | none | turn exceptions and results into answers | every handler |
| Pagination | none | skip, totalPages | users and posts lists |
| Migrations | schema | up, down | PostgreSQL, SQLite |
| Queue and worker | BullMQ queue that nothing feeds | process a job: log it | - |

One Node process runs every handler; handlers interleave at each `await`, and
there is no transaction and no lock anywhere in the application. Several
processes may share one Redis and one database. What is hard is therefore what
happens between two awaits: a token verified before the blacklist is read, an
owner checked before the row is written, an e-mail checked before it is
inserted, a probe whose key is deleted by another probe, a logout half of whose
writes fail, a list whose second page is asked for after the table has changed.
`PROJECT.json` lists these hazards at their lines.

What makes each component correct:

- Sessions: a logout that has been answered holds. The access token gets nobody
  past the guard again, the refresh token opens nothing, and a token that was
  handed out is good until it runs out or is taken down.
- Blacklist: an entry never runs out before its token does, although the clock
  in milliseconds is cut to seconds on the way, and Redis drops entries itself.
  In memory, a token is forgotten only in a restart or for want of room.
- Users: one row per e-mail; a token speaks for the account it was given to.
- Posts: only the owner's requests change a post; a PATCH changes what it names;
  a client that reads a list to its end has seen all of it.
- Limiter: on each route it refuses those who asked more often than the limit
  within a window, and nobody else.
- Readiness: ready is never answered for a dependency that is down, and not
  ready never without a cause.
- Every request of a session and every probe is answered, whether the stores
  answer or raise.

## Modules

| Module | Models | Abstracts |
|---|---|---|
| `TokenBlacklist` | login, refresh, the guard and logout over the Redis blacklist | a token is its kind, user and second of signing |
| `SessionPromise` | what a client is promised of a token; implemented by `TokenBlacklist` | Redis, the clock, requests in steps |
| `TokenBlacklistProofs` | theorems about `TokenBlacklist` | - |
| `SessionPromiseProofs` | that `TokenBlacklist` implements `SessionPromise` | - |
| `MemoryBlacklist` | the guard, logout and the readiness probe over the store in memory | a token is a model value that may run out at any time |
| `MemoryBlacklistProofs` | theorems about `MemoryBlacklist` | - |
| `Accounts` | register, create, update, remove, login and refresh over the users table | a row is its e-mail; a body says whether it has a password |
| `Pagination` | `skip`, `totalPages`, and the rows that a page can hold | a time of creation is a number |
| `Posts` | create, update, remove and the lists of posts, removal of accounts | a title or a content is one of two values |
| `Readiness` | the readiness probe over Redis and the database | the key is the ticks it has left |
| `RequestPipeline` | limiter, guards, pipe, handler and exception filters around every request | a handler is the exceptions it may end in |
| `AccountsProofs`, `PostsProofs`, `ReadinessProofs`, `RequestPipelineProofs` | theorems about the module they extend | - |
| `PostListProofs` | theorems about `Pagination` and the lists of `Posts` | - |
| `MC*` | symmetry sets for TLC | - |

An action is what a handler does between two awaits. A request in flight is a
record in a slot (`req`, `op` or `probe`), with a `pc` that names what it waits
for. An answered request leaves its slot idle; where only the status differs
(400, 403, 404, 500) and nothing changes, the comment of the action names it.
Some fields of these records are history that only the properties read; the
comments say which.

**TokenBlacklist.** `CanActivate` is the guard up to its await: passport verifies
the token, then `extractTokenFromHeader` reads the header once more. The token
in `x-refresh-token` is verified by nobody, so it may be any that was issued, the
access token too; one that cannot be decoded is like none.
`IsTokenBlacklisted` and `LookupFails` are the two ways the lookup ends, the
second with `StoreMayFail`: the catch block answers "not blacklisted". `Logout`
computes both times to live (`BlacklistToken`) and starts both writes; `SetEntry` and `SetFails`
end them in any order, `LogoutDone` is the end of `Promise.all`. `GetTokens`
signs: a JWT is a function of secret, payload and second, so a token signed
twice in a second is one and the same. `Tick` lets Redis drop what has run out.
`Crash` loses the requests in flight and keeps Redis.

**MemoryBlacklist.** With `CACHE_DRIVER=memory`, the default, the cache is a store
of the cache manager inside the process. `RedisService.set` hands it an object
where it takes a number, so that its entries have no end; it holds a hundred
(`MaxEntries`), and a write to a full store drops the entry whose last use lies
furthest back. `store.held` are the keys with an entry, `store.since[k]` the keys
used after `k`: the order of use, kept also for keys that have been dropped,
which is what the properties speak of. A call works before it returns, so that
the two writes of a logout are one step (`Logout`); `LetIn` and `Refuse` are the
two ways the lookup ends, which `CanActivate` skips under another spelling of the
scheme; `ProbeSet`, `ProbeGet` and `ProbeDel` write, use and
delete the key of the readiness probe in the same store. `Restart` loses the
store: `down` are the tokens taken down since. Processes share nothing with this
driver, so one of them is modelled: a token taken down in another is one that
this process never took down.

**Accounts and Posts.** `save(entity)` of TypeORM is three steps, from how the
services use it: a SELECT by id, a comparison, and an UPDATE of the columns that
differ, or an INSERT when no row was found. The unique index and the foreign key
are those of the entities and the migrations. A new account is an INSERT at once.

**Lists.** A walk in `Posts` is a client that asks for one page after the other
until the answer's `totalPages` (`BeginWalk`, `NextPage`, `EndWalk`). With the
relation to join, `findAll` of posts reads the ids of the page, then their rows,
then the total; `findAllPosts` of an account, which joins nothing, rows and
total. `findAll` of users has the second shape. The order is by `created_at`
alone: `tied` are posts created in the same instant as the one before (SQLite
keeps whole seconds), among which the database may choose anew in every query
(`Orders`). The validation of `PaginationQueryDto` is the range of `Limits`.

**Readiness.** `SetKey`, `GetKey`, `DelKey` are the three calls of `isHealthy`;
each raises while Redis is down. `PingCheck` runs beside them. The answer waits
for both indicators.

**RequestPipeline.** The global guards run in the order of `app.module.ts`, so
the limiter comes before the token is looked at and counts requests that are
refused later. Its storage is the library's, kept in the memory of one process:
per client and route, the time each counted request still counts (`hits`) and the
time the client stays blocked (`block`). `asked` is history: the requests of the
last window, by a count of its own. `Guards`, `Pipe` and `Handler` either
pass the request on or throw; `StatusOf` finds the filter that answers. Nest asks
the filter registered last first, which is why the catch-all filter is the first
in `useGlobalFilters`. Five routes stand for the ways through the pipeline; the
window of register is an hour, that of the others a minute.

## Runs

| Run | Instance | Shows |
|---|---|---|
| `blacklist` | 1 user, 2 requests, failing store, 2 spellings of the scheme | `EntryOutlivesToken`, `LateRequestStopped`, `OneLife`; `TokenBlacklist` implements `SessionPromise` |
| `requests_answered` | 1 user, 2 requests, failing store, 2 spellings, both tokens live 1 second, the clock ends at tick 2 | every request is answered |
| `given_token_usable` | as `blacklist`, store that answers, one spelling | violated: see findings |
| `revoked_refresh` | the same | violated: see findings |
| `readiness` | 2 probes, a key of 2 ticks | `LoneProbeIsReady`, `ReadyWasReachable`, every probe answered |
| `readiness_overlap` | as above | violated: see findings |
| `memory_blacklist` | 2 access tokens, 1 refresh token, 2 requests, 2 spellings, a store of 3 | `RevokedUntilCrowdedOut` |
| `posts` | 2 accounts, 2 posts, 2 requests, 2 values, pages of 1 and 2 | `OnlyOwnerWrites`, `UnracedPatchIsExact`, `InsertOnlyAfterRace`, `PostsHaveAccounts`; of the lists `WalkMissesNothing`, `UnracedPageFits` |
| `accounts` | 2 accounts, 2 e-mails, 2 requests | `RefreshFollowsEmail`, `ConflictOnlyAfterRace`, `PatchKeepsEmail` |
| `refresh_identity` | as above | violated: see findings |
| `pipeline` | 1 client, 1 request, 5 routes, limits of 1 and 2, windows of 1 and 2 ticks | `RefusesIffPressed`, `OwnStatus`, `BlockEnds` |
| `too_many_requests` | as above | violated: see findings |

Bounds. Every race here is between two requests, so two slots reach it. In
`TokenBlacklist` a second is two ticks, so that every rounding happens; access
tokens live one second, refresh tokens two, tokens are signed in second 0 only
(`LastSign`) and the clock ends at tick 5, after all of them have run out. One
user is enough there: keys of different tokens never meet, and the handlers do
not compare users. Two e-mails and two ids are what a change of hands needs, two
values what a lost update needs. `MaxUsers` and `MaxPosts` bound the id
sequences. Two posts and pages of one and two are enough for the lists: one post
on either side of the boundary of two pages, pages that are full, short, empty
and the only one, and a post that is created, deleted or brought back between any
two queries. In `MemoryBlacklist` four keys compete for three places, so that
writes of tokens and of probes drop entries; the proofs hold for every size.
`requests_answered` has every branch of the guard, of logout, of login and of
refresh, with a store that may raise at each call, and a clock that goes on
until all tokens have run out. In `RequestPipeline` requests share the limiter
and nothing else, and the limiter counts each in one step without an await;
clients and routes have counters of their own, as the library's storage keeps
them. One request at a time therefore reaches every order of counts. The real
limits only make the counters longer.
No run turns the deadlock check off.

Fairness. Weak fairness of each slot's `Serve` (each probe's `Step`): the event
loop runs every continuation, and a call to Redis or the database either answers
or raises. Nothing is assumed of the arrival of requests or of crashes.
`EveryRequestAnswered` and `EveryProbeAnswered` rest on it, the first with a
store that may fail every call. `BlockEnds` rests on
`WF_vars(Tick)`, that time passes, and on nothing else: a client may keep trying
and no request needs to be answered. No other property assumes fairness.

`WalkMissesNothing` has two exceptions, which are how paging by offset is: a post
that was deleted during the walk moves the later ones a place up, and one of them
is passed over; and of posts created in the same instant the order is open. What
is left is that creations do no harm: they may show a post twice, never hide one.
`RevokedUntilCrowdedOut` says how much of the blacklist the store in memory can
promise: with `n` places a token survives until `n` other keys have been used,
in one life of the process. That a restart loses the rest is what this driver
is, and no property is about it.

`RefusesIffPressed` compares the limiter with a history that is kept by another
rule: `asked` ages the requests of a client one by one and knows neither counts
nor blocks. Counts that outlast their window refuse too many, a block that ends
before its counts lets too many through.

`LateRequestStopped` has three exceptions, which the code has on purpose or by
its order of steps: the guard's own lookup raised (it fails open), the header
held no token to look up (scheme not spelled `Bearer`), or the token ran out
between the verification and the lookup. `SessionPromise` allows only the last;
of the other two its mapping has no admission to speak of, since `LetIn` counts
a request as let in only after a lookup that Redis answered.

## Findings

- `revoked_refresh`: logout writes the refresh token to the blacklist and the
  refresh route never reads it.
- `given_token_usable`: a token signed again in the second of a logout is the
  one that was taken down.
- `readiness_overlap`: two overlapping probes share one key, and one reports
  Redis down.
- `refresh_identity`: refresh looks its user up by the e-mail in the token, so
  an e-mail that changes hands takes the session along.
- `too_many_requests`: the limiter's exception has no filter of its own, and the
  catch-all filter turns its 429 into a 500.

Met while modelling, without a run of their own:

- A comment at `update-user.dto.ts:5` says that an update ignores `@IsExistEmail`,
  "so we can update email without checking if it exists or not". `PartialType`
  copies the validators of the fields it inherits and only makes the fields
  optional, so that a PATCH with an e-mail that is taken, be it by the account
  itself, is answered 400. `Update` and `ConflictOnlyAfterRace` are about the
  code as it is, and disagree with the comment.
- With `CACHE_DRIVER=memory`, the default, a restart empties the blacklist, and
  tokens that logouts took down are good again until they run out.
- The probes are not exempt from the limiter, although `RATE_LIMITING.md:261-262`
  names health checks among what `@SkipThrottle()` is for: over the default limit
  the readiness probe answers not ready whatever the dependencies are. When that
  is, `RefusesIffPressed` says.
- The 503 of a failing readiness probe becomes a 500 in the same way as the 429.
- The `THROTTLE_LOGIN_*` and `THROTTLE_REGISTER_*` variables that `app.config.ts`
  reads reach no decorator, which hold constants.
- `token-blacklist.service.ts:36` computes a time to live that the store in memory
  does not take.
- The GraphQL lists have no page argument and always read the first page.
- A refresh for a user who is gone ends in a 500.
- Login is documented with 200 and answers 201.

## Proofs

`TokenBlacklistProofs` proves for every number of users, slots, ticks and
lifetimes, from `ClockAssumption`, `ValueAssumption` and `TokenAssumption` only:

- `TypeCorrect`: `Spec => []TypeOK`.
- `IndInvHolds`: `Spec => []IndInv`.
- `RevocationLasts`: `Spec => []EntryOutlivesToken`.
- `GuardStopsLateRequests`: `Spec => []LateRequestStopped`.

`EntryOutlivesToken` is not inductive. The argument runs backwards from the
answer of a logout: when it is given, each of its tokens is written, has run out,
or was refused by Redis (`WritesAccounted`); a write on its way carries a time to
live that, added to the second in which Redis runs it, reaches the `exp` of the
token (`PendingLongEnough`); since the clock in seconds is the clock in
milliseconds rounded down, the entry then ends no earlier than the token
(`StoredLongEnough`). `LateIsRevoked` ties the token that the guard looks up to
the one that passport verified. The lemmas `SlotFrame`, `ClockAndStoreFrame` and
`RevokedFrame` say once what a step may touch, and each conjunct has a lemma for
the steps that can disturb it.

`MemoryBlacklistProofs` proves for every number of tokens and requests and every
size of the store, from `StoreAssumption` only:

- `MemoryTypeCorrect`: `Spec => []TypeOK`.
- `OnlyCrowdingForgets`: `Spec => []RevokedUntilCrowdedOut`.

The heart of it is `VictimIsCrowdedOut`: an entry that a full store drops is one
after which all its other entries were used, and with the new key these are as
many as the store has room for. `UseCrowds` says that the count only grows until
the key is used itself, and `SetKeeps`, `GetKeeps`, `DelKeeps`,
`BlacklistTokenKeeps` and `BlacklistKeeps` carry `Keeps`, the promise about a
store and a set of keys, through each call. `TokenPresented` makes it inductive:
a request that waits for its lookup has a token to look up. What the guard makes
of a token that is not held is not a theorem: it lets it in, and skips the lookup
under another spelling of the scheme.

`PostsProofs`, for every number of accounts, posts, requests, values and page
sizes: `PostsTypeCorrect`, `NoPostOutlivesAccount` (`PostsHaveAccounts`),
`OwnersWrite` (`OnlyOwnerWrites`), `InsertIsRaced` (`InsertOnlyAfterRace`) and
`PatchesAreExact` (`UnracedPatchIsExact`). That the owner still is the owner when
the row is written is not seen from the request alone: the row may be gone and
back by then. `SameUser` says that requests that change one post are of one user,
`IdsInUse` that nobody holds the id of a post yet to be created, and `Fresh` that
a request nobody raced has loaded the row as it is.

`AccountsProofs`, for every number of accounts, e-mails and requests:
`AccountsTypeCorrect`, `RefreshFollows` (`RefreshFollowsEmail`),
`ConflictsAreRaces` (`ConflictOnlyAfterRace`) and `PatchesKeepEmails`
(`PatchKeepsEmail`). The invariant has the unique index (`Unique`), that a token
speaks for the row of its id until this has moved (`TokensFollow`), and that
nobody else has the e-mail a request is about to write unless it was taken after
the check (`Free`). `WriteStep` is the one lemma about a row that is written.

`ReadinessProofs`, for every number of probes: `ReadinessTypeCorrect`,
`LoneProbesAreReady` (`LoneProbeIsReady`) and `ReadyIsTrue` (`ReadyWasReachable`).
A step of a probe may do to the key what it likes, because any other probe that
is under way has lost its claim to be alone (`Alone`).

`RequestPipelineProofs`, for all clients, requests, limits and windows, from
`LimitAssumption` only:

- `OwnStatuses`: `Spec => []OwnStatus`, from the status of each exception
  (`Answers`).
- `RequestTypes`: `Spec => []TypeOK`.
- `LimiterIsJust`: `Spec => RefusesIffPressed`.

What the limiter has counted and the history of what was asked are two counts of
their own, kept by different rules; the last two theorems need them side by
side (`LimiterInv`). While a client is not blocked, each counted request is one
it asked for, as long ago as the count has lost of its window; while it is
blocked, its last request but those that are not noted is as long ago as the
block has lost of its, and no counted request outlasts the block. So the client
is let in again in the very tick in which it ceases to have asked too often.
`PassCounts`, `RefuseCounts` and `TickCounts` carry this through a step for one
key. The oldest requests are the first of a sequence that is sorted, so those
whose window ends are its first places (`FirstPlaces`, `WithoutFirst`).

`SessionPromiseProofs`, for every number of users, slots, ticks and lifetimes:

- `TokensLiveOnce`: `Spec => OneLife`, from the same assumptions as
  `TokenBlacklistProofs`: a store that fails and both spellings included.
- `PromiseIsKept`: `Spec => KeepsPromise`, the refinement, from the same
  assumptions. Where the code lets a request in without an answer to a lookup,
  because it fails open or finds no token under another spelling, the mapping
  shows no admission: with a store that answers and the one spelling `"Bearer"`
  every request that reaches its handler is one the promise speaks of.

Besides `IndInv` they need `OnlyIssued`: requests, writes on their way and entries
are about tokens that were handed out, and the guard looks up the token that
passport verified. `EveryMove` says what each step may do to the phase of a
token; that a token which is down stays down rests on `StoredLongEnough`, that a
late write takes down nothing unissued on `OnlyIssued`. For `PromiseIsKept` each
action is mapped to the step of `SessionPromise` it is, or to a stutter.

`PostListProofs`, for every number of posts, accounts and requests and every
page size:

- `WalksMissNothing`: `Spec => WalkMissesNothing`.
- `PagesFit`: `Spec => UnracedPageFits`.

An order of the database is any numbering of the rows, so how many rows a page
holds is counted by injections into its places (`AtMost`, `PageSize`), and
`PageCount` ties that to `totalPages`. While the times of creation follow the ids
a row's place is the number of rows as new as itself (`PlaceIs`). The invariant
(`ListInv`) has, for a page that nobody raced, how many rows it holds
(`FitsPage`), and for a walk that a post it owes is never at a place before the
current page (`Owes`): reading a page shows what is on it, a creation only moves
rows to later places, and a deletion releases the walk from its promise.

Only model-checked are the liveness properties `EveryRequestAnswered`,
`EveryProbeAnswered` and `BlockEnds`: fairness and ENABLED are out of the prover's
reach. Every safety invariant and every action property of the passing runs is
proved, and so is the refinement.

## Not modelled

- `removeFromBlacklist`, `wrap` and `TokenBlacklistGuard` have no caller;
  `blacklistUserTokens` only logs.
- The liveness probe and the GraphQL queries keep no state; `findAll` of a
  resolver is the first page of a walk. Nothing adds a job to the queue, and its
  processor only logs what it gets.
- The migrations run before the program starts. What they leave, the foreign key
  and the unique index, is part of `Posts` and `Accounts`; whether the index can
  be added depends on rows that this program did not write.
- The bodies of answers, which the filters and the interceptor build, logging,
  i18n, configuration and Swagger are output and input only.
- Over the store in memory only what differs from Redis is modelled: login,
  refresh and the signing of tokens are those of `TokenBlacklist`.
- Facts about libraries that the models rely on: the redis driver turns the
  `ttl` of `RedisService.set` into a SETEX in seconds; the memory store of the
  cache manager keeps a bounded number of entries by last use, with no end for a
  time to live that is not a number; TypeORM pages a query with a join by reading
  ids first, and counts in a query of its own; jsonwebtoken puts `iat`
  and `exp` in whole seconds and refuses a token from the second `exp` on; the
  storage of the throttler keeps counts, timers and blocks of its own for each
  client and route; `PartialType` copies the validators of the fields, custom ones
  included, and makes them optional;
  passport-jwt compares the scheme without regard to case; `save` and `remove`
  of TypeORM work by id as described above.

## Plan

What can be modelled faithfully of this code is modelled, and what the runs check
of it is proved but for liveness. What is left is to follow the source: a caller
for `removeFromBlacklist`, `wrap` or the queue, a guard on the refresh token or a
filter for the limiter's exception would each change a module, and turn a
finding into a property to prove.
