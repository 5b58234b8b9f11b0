# A verification development for hockey-tools

hockey-tools is a small web service in Go: an OAuth2 login page with QR codes, an
in-memory key/value store behind it, a rate limiter, a SQLite data store and the
server that runs them. This directory holds TLA+ models of it, configurations for
TLC and proofs for TLAPS. Line numbers refer to `src/`.

- [1. The system](#1-the-system)
- [2. The modules](#2-the-modules)
- [3. The runs](#3-the-runs)
- [4. The proofs](#4-the-proofs)
- [5. What the runs found](#5-what-the-runs-found)
- [6. What is not modelled](#6-what-is-not-modelled)
- [7. Plan](#7-plan)

## 1. The system

| Component | State | Operations | Concurrency and failure | Correct when |
|---|---|---|---|---|
| **In-memory store** `internal/services/memory-store.go` | a `sync.Map` of namespaces, each a `sync.Map` from keys to items with a value and a purge time | `Read`, `ReadAndRemove`, `CheckAndSet`, `Set`, `Refresh`, `Remove`; `collect` in a goroutine of its own | called by every HTTP handler at once; no lock spans an operation; items expire while they are looked at; the collector deletes what it has looked at earlier | every operation is atomic; nothing alive is collected; what is dead goes; a value is redeemed once |
| **Authorizer and login handlers** `cmd/authorizer.go`, `internal/services/auth` | none but the store's | `Authorize` and `Token`, which store nothing; `Login` and `QRGenerator`, which draw a random code and `CheckAndSet` it, ten times at most | two handlers may draw the same code; drawing may fail; all ten may be taken | a code that was sent is the receiver's, and works for its lifetime; every request is answered truthfully |
| **Throttle** `internal/web/throttle` | per client id the counts of a window of time and of the one before; the time of the next purge | `Get`, `Increment` (each runs `purge`), and the middleware's handler | a mutex, but the time is read before it is taken | counts are exact, or at least never too high; the limit holds, and so does what an answer says remains of it; old ids go |
| **Server life cycle** `cmd/main.go`, `internal/services/start.go`, `internal/web/server.go` | the goroutines and their contexts | boot, listen, signal, shutdown, deadline | five goroutines that wait for one another; a deadline that races with success; `log.Fatal` in three of them | requests are finished first; a signal always ends the process |
| **Local data store** `internal/data/local` | SQLite tables, prepared statements | `List` by pages, `ByID`, `ByTeam` | rows change between pages; a query fails in the middle; a row cannot be scanned | pages miss nothing; errors say what happened |
| **Router, middleware, CORS** `internal/web` | a chi router: its middleware and routes | options applied in order | chi panics on middleware after a route and on a second mount, and replaces a route in silence; routes nest | no order that `main` can produce panics; every handler finds the services; every page and file is served by what it belongs to |
| **Configuration and wiring** `cmd/config.go`, `cmd/setup.go`, `internal/services/config.go`, `statics.go` | the loaded configuration | load, defaults, the options it asks for | a file that is missing, malformed or of an unknown format; paths of the login and the static directories that coincide | the server comes up, or fails for a reason in the configuration |
| **Helpers** `internal/helpers` | none | random strings, basic authentication, environment | a header too short to slice | a random string is any string |

Handlers reach the authorizer, and the authorizer the store, by plain calls on the
goroutine of the request. The store's collector and `main` share a context that the
application goroutine cancels when it returns. That goroutine boots first: it makes the
services, loads the configuration, and builds a router by applying a list of options to
it; a middleware among them puts the services into the context of every request, where
the handlers look for them. The throttle is a library: nothing
in `cmd` uses it yet.

`PROJECT.json` lists the hazards of this code, each at its line and with the
properties that would catch it.

## 2. The modules

```
  StoreCalls ──┬── KeyValueStore ◄─refines─ MemStoreRefinement ── MemStore ── OneTimeValues
               │        ▲
               │        └── Authorizer (calls the abstract store)
               └── MemStore
  LocalTracker ── Throttle
  Lifecycle ──┬── Process
  RouterBoot ─┘
  LocalData
```

| Module with proofs | is about |
|---|---|
| `MemStoreProofs` | `MemStore` |
| `MemStoreRefinementProofs`, `OneTimeValuesProofs` (both on top of `MemStoreProofs`) | `MemStoreRefinement`, `OneTimeValues` |
| `AuthorizerProofs` | `Authorizer` |
| `LocalTrackerProofs`, `ThrottleProofs` (on top of it) | `LocalTracker`, `Throttle` |
| `ProcessProofs` | `Lifecycle`, `RouterBoot` and `Process` |
| `LocalDataProofs` | `LocalData` |

`MC*.tla` add the symmetry sets of the runs. A definition marked *Mutated* in its
comment is a faulty variant of the definition after it; no specification uses it.

**MemStore** is the store as coded. A caller's program counter `pc` names the next
call into a `sync.Map` or the next reading of the clock:

| `pc` | step | code |
|---|---|---|
| `idle` | `Invoke` | the call |
| `scope` | `LoadScope`: `scopes.Load`, and the errors for a missing namespace | 94, 112, 130, 148, 162, 185 |
| `create` | `CreateScope`: `scopes.LoadOrStore` | 132, 150 |
| `stamp` | `Stamp`: `time.Now().Add(ttl)` | 136, 154, 173 |
| `item` | `ReadLoad`, `TakeLoad`, `StoreIfAbsent`, `StoreItem`, `RefreshLoad`, `DeleteItem` | 99, 117, 135, 153, 167, 186 |
| `expiry` | `CheckExpiry`: `purge.Before(time.Now())` | 104, 122 |
| `swap` | `Swap`: `CompareAndSwap` | 177 |

The collector runs `CollectStart` (the ticker fires and the clock is read),
`CollectVisit` (`Range` delivers an entry), `CollectDelete` (`CompareAndDelete`),
`CollectEnd` and `CollectStop`. `sync.Map` is a library; its calls are taken to be
atomic, as its documentation has it, and its `Range` to visit what stays and perhaps
what comes. Values are compared by `==`, as `CompareAndSwap` does; two items with the
same value and purge time are the same to the code and to the model.

**KeyValueStore** is what the interface promises (`internal/services/data-store.go`):
each operation takes effect in one step between call and return. The moment a new
item's lifetime counts from is any moment of the call; `Read` and `ReadAndRemove`
get hold of an item in one step and judge its age in a second one, for that is when
they answer; `Refresh` may answer `ItemChanged` only if its key changed during the
call. It says too what an interface comment might and does not: `CheckAndSet` fails
on an expired item until that is collected, and `Refresh` brings an expired item back
to life.

**MemStoreRefinement** maps the former to the latter. Two history variables say what
the mapping cannot recover: when each call was made, and whether its key changed.

**OneTimeValues** restricts the callers to writing every value once, and records the
values that `ReadAndRemove` has handed out.

**Authorizer** puts the handlers on top of `KeyValueStore`. Drawing a random string
is a choice among all keys; with few keys collisions are the rule. One
`GenerateAuthorizationRequest` or `GenerateQRRequest` loop is `Draw`, `Execute`,
`Collide` as often as it goes round, and `Issue` or `GiveUp` at its end. The
validation of the client and the password is a choice between failing and going on. The
kinds of errors (a 400, a 500, a redirect with `access_denied`, `server_error` or
`unsupported_response_type`) are one: no property tells them apart. `Authorize` and
`Token` answer at once.

**LocalTracker** has one step per operation, for the mutex, and one before it,
`Arrive`, in which the caller reads the time. A tick is a millisecond.
`computeSlidingRate` multiplies the count of the window before by a quotient in float64
and truncates (local.go 134-138). `Decayed` models the rounding: the result is the integer
part of the exact product, or, for some of the products that are whole numbers, one less.
With a window of a minute, of 100 requests 28 and not 29 are left after 42.6 s. For which
pairs of count and time it is one less depends on the window alone; the constant `Short`
holds these pairs and may be any set of such pairs, so that what is proved
holds for the code's. Two roundings, each by a relative 2^-53 at most, cannot do more as
long as the product of count and window (in milliseconds) is well below 2^51; the formula
was compared with the code's arithmetic for all windows up to 128 ms, for 1 s and 1 min,
and for random ones up to some hours, with counts up to a million. A window of 2 ms
is never short in the code. The run has one short pair in it nevertheless, to stand for
the longer windows that have them.

**Throttle** adds the middleware around it: `MapperFails`, `Serve` (the mapper, then the
time) and `Handle` (the rest of the handler, which shares nothing but the tracker). `Ask`
and `Tell` are someone else's use of the exported tracker. `LimitTracker.Increment` of the
local tracker returns no error, so the branch for one has no step. Of the headers
`X-RateLimit-Remaining` is modelled, with the width of its unsigned integer: it wraps
around when the rate exceeds the limit.

**Lifecycle** has the goroutines of the process. `log.Fatal`, an unrecovered panic
and a signal before `signal.Notify` end it at once: `exit` says why, and nothing
moves after that. A listener may fail when it is opened (`Listen`) and at any moment after
(`ServeFails`), and `Shutdown` may return the error of closing it though no request is
left (`Drain`); all of these are a `log.Fatalf`. `http.Server` is a library, modelled from its use: `Shutdown`
closes the listener, at which `ListenAndServe` returns, and then waits until nothing
is served or the context is done.

**RouterBoot** is what the application goroutine does before it listens:

| Step | code |
|---|---|
| `Load`: `loadConfig` returns any configuration or the default one, or the process ends | `config.go` in `cmd` 44-57, in `services` 87-105 |
| `Assemble`: the options are made; templates that cannot be parsed and endpoints with URL parameters panic | `main.go` 43-54, `oauth2.go` 64, `router-options.go` 104 |
| `Apply`: `NewRouter` applies the next one: `ApplyUse`, `ApplyMount` or `ApplyGet` | `router.go` 47-55 |
| `Start`: the key pair is loaded, and the server is made | `start.go` 32-50, `server-options.go` 59-70 |

A configuration is reduced to what the router sees of it: whether there are allowed
origins (`cors`), the profiler, the templates, the auth path, the QR route, the endpoints
of the static directories in their order, and the key pair, which is not used at all
unless both halves are there. chi is a library, modelled from how it is used: a route is
a method, a path and the app that serves it, and the longest path that fits a request
wins. `Mount` also adds stubs for the bare path, which are left out: the requests that
the properties ask about have one segment more.

**Process** is `Lifecycle` with these steps in place of its one step `Boot`: `BootStep`
takes one, and the last of them is `BootFatal`, `BootPanic` or `BootDone` to the other
goroutines. A signal may come between any two. `BootComesToItsEnd` is `Lifecycle!FairSpec`:
to the other goroutines the steps are the one step, and as fair as it was, because
every list of options has an end.

**LocalData** is one table of the data store; players, staff and facilities share the
code but for the names of the columns, and a facility has no column that may be NULL.
`List` is one step per call into `database/sql`:

| Step | code (players) |
|---|---|
| `ListQuery`: `fetchList.Query` | 100-103 |
| `ListRow`: `rows.Next()` is true and `rows.Scan` takes the row, or fails on a NULL | 106-115 |
| `ListEnd`: `rows.Next()` is false, and `List` returns the page | 106, 117 |

The result set is that of the moment the first row is asked for, because SQLite runs
the statement then and isolates it from writers. A call that fails returns a token
too, in `token`: -1 when the query fails (line 102), and the id of the row before the one
that cannot be scanned (line 110). Nothing in the repository calls
`List` but a sketch in a comment (`cmd/main.go:71-88`). The reader in the model is the
one the interface suggests: it starts with token 0, calls again with the token it
got, stops at an empty page, and after an error calls again with the same token, whatever token came with the error. Ids
are positive, as SQLite assigns them.

## 3. The runs

| Run | Bounds | What it shows |
|---|---|---|
| `memstore` | 2 callers, 1 namespace, 1 key, 2 values, lifetime 0, 2 moments | `MemStore` implements `KeyValueStore`; no operation works on an unpublished map; the collector deletes nothing alive; `Refresh` changes no value and revives nothing removed |
| `memstore_live` | 2 callers, 1 value, lifetimes 0 and 1 | an expired item goes; the collector ends when its context is cancelled |
| `one_time_values` | 2 callers, 3 values, lifetimes 0 and 1 | a value is redeemed once, and is gone for good then |
| `throttle` | 4 requests, 2 ids, window 2, purge delay 1, 7 moments, limit 2, unsigned integers of 4 bits | types; counts are exact for ids none of whose requests came late, and never too high for any; purges keep what matters and remove the rest; a rate is the count of the sliding window or one less; nobody within the limit is refused; at most the limit passes in one window; as many requests pass as an answer says remain |
| `authorizer_codes` | 2 handlers, 2 codes, 2 values, 2 rounds, 2 moments | whoever was sent a code finds its own value under it until it expires |
| `process` | 2 requests, 4 auth paths, 5 endpoints, 2 static directories | whatever is configured, the options are applied without a panic and behind the services, or the configuration is to blame; login and static files are served by their handlers; the root context is cancelled only after the last request; `main` returns only after an orderly shutdown; the boot is the one of `Lifecycle`, and ends; a signal always ends the process |
| `local_list` | 3 ids, pages of 2, 2 failing queries | a reader that follows the tokens misses no row that stays and is given none twice; its token never passes a row it was not given; every row that stays comes to it, however much is written |
| `tracker_reset`, `authorizer_giveup`, `lifecycle_timeout`, `local_unknown_id`, `login_form` | small | refute what the code says of itself, see section 5 |

Why the bounds are enough to be interesting:

- *Store.* The races are between two operations on one key and the collector: one
  key in one namespace makes every pair of calls meet. Calls are not bounded in
  number. A lifetime of 0 that counts from the first moment is over at the second,
  any other outlives the run, so that there are dead and living items, and items set
  anew while the collector holds the dead one. With a lifetime of 0 alone the purge
  times still are 0 and 1, and nothing the refinement tells apart is lost. Namespaces and keys do not interact in the code; a second one would
  multiply states and add no interaction.
- *Tracker.* `MaxTime` 6 with windows of 2 gives four windows: the current one, the
  one before (carried over), an older one (reset) and one old enough to be purged,
  three windows back. Four calls suffice to fill two windows, be late and exceed a limit of 2.
- *Boot.* The auth paths and endpoints are the root, "/auth", "/debug", where the
  profiler is, and the forms that chi or the code refuses. Two static directories give
  every case of two routes that coincide or nest. Every combination with and without
  CORS, profiler, templates, QR codes and keys is tried.
- *Handlers.* Two codes and two handlers give collisions with each other and with a
  code that is still stored, including one that has expired.
- *Table.* Three ids and pages of two give full, partial and empty pages, rows on both
  sides of the token and the reuse of an id that was handed out. Writes are not
  bounded.

`MaxTime` bounds clocks, `MaxFaults` the queries that fail, `MaxStatics` the static
directories, `Requests` the calls of the tracker and the requests of the server. Deadlock is checked in the store and handler models. It is not in the tracker
and in the process, where calls and processes end.

**Fairness.** Properties with "eventually" are checked under:

- `MemStore!Fairness`: the clock goes on; the ticker keeps firing and a pass goes on
  (weak fairness of `Collect`); and strong fairness of `CollectStop`, because Go's
  `select` chooses at random among the ready channels, so a closed `ctx.Done()` is
  not passed over forever by a ticker that is always ready. Weak fairness would not
  do: in mid-pass the step is not enabled.
- `Process!PFairSpec`: goroutines go on, through the boot too, and the deadline is
  reached. Requests need
  not be answered, no signal need come, and a listener need not fail (`ServeFails` is in no
  fairness condition).
- `LocalData!FairSpec`: the reader goes on. Writers may write all the time or never.
  `StableRowArrives` also needs that queries do not fail forever, which `MaxFaults` says,
  and that rows that cannot be scanned stop appearing. That the ids are finite is not what
  makes it hold: every page that is not empty takes the token on, and only so many ids lie
  between a token and a row. That the reader comes to an end is not stated, for it would
  hold only because ids are finite: a writer that adds a row for every page keeps the
  reader from ever seeing an empty one.

## 4. The proofs

The proofs hold for every value of the constants that the modules' `ASSUME`s allow. Most
of those give a constant its type. The others are: a window of the throttle has at least
one tick, its limit is not 0 and fits the unsigned integer; a loop that draws codes goes
round once at least; the pairs of `Short` are products without a remainder, some time
after the start of a window; ids of rows are positive; an auth path has no URL parameters; the
absence of a value (`None`) is not a value; and a value is not an error
(`ReplyAssumption`: a call returns the two in results of their own, which the model keeps
in one variable). Every safety property of a passing run is a theorem.

**MemStoreProofs.** `InvariantHolds`: `Spec => []IInv`. `TypeOK` is not enough for
the properties, nor are they inductive: whether a step spares a living item depends
on what the goroutine loaded some steps ago. The invariant adds that
a caller past its first steps holds the published map of its namespace, that its
request is of the kind its program counter belongs to, that a `Refresh` about to swap
holds the item it loaded, and that the collector's entry was expired when its pass
began, which was not after now. From it follow `TypeCorrect`,
`OperationsUsePublishedMap`, `CollectorSparesTheLiving` and `RefreshOnlyExtends`. One
lemma per action shows that the step preserves the invariant.

**MemStoreRefinementProofs.** `StoreImplementsInterface`: the store implements
`KeyValueStore`. The moment at which an operation takes effect is one of its own steps,
never one of another goroutine, so that each step of the store is one step of the
interface or a stutter: reading the clock and creating a namespace's map are stutters,
the call into that map is the effect, and for what `Read` and `ReadAndRemove` return the
effect is in two steps, as in the interface. The invariant `HInv` adds to `IInv` that no
unpublished map holds anything, that an item about to be stored was stamped at a moment of
the call, and that a `Refresh` whose item is no longer there was overtaken during the
call: what `Store`, `Extend` and the answer `ItemChanged` of the interface ask for.

**OneTimeValuesProofs.** `TakenValuesAreGone` and `ValuesAreRedeemedOnce`. The invariant
`PlaceInv` says where a value is: in one slot, or in the hands of one call that is about to
store it or has just removed it, and nowhere once it was taken. Copies that `Read` and
`Refresh` have loaded do not count, because `Refresh` swaps only if the original is still
in its slot. That is the step where `CompareAndSwap` is needed.

**AuthorizerProofs.** `IssuedCodesWork`: between the moment `CheckAndSet` has said "ok" and
the reply to the client, other handlers draw the same code and time passes. The invariant
says for that interval, too, that the item is under the code with its value, or that the
lifetime counted from the call is over. A step of the store keeps every item that is still
good after it (`KeepsTheGood`), for the handlers only add. `HandlersUseStore` says that to
the store the handlers are callers of `KeyValueStore` and no more; that they can be put on
top of `MemStore`, which implements it, rests on both theorems.

**LocalTrackerProofs.** The arithmetic of
windows is in lemmas of its own: `WindowOf(t)` is a multiple of the length, at most
`t` and within one length of it (`WindowFacts`), and the sliding rate lies between
the current count and the sum of the two (`DecayBound`, `SlidingRateBound`). What is left
of the window before is at most the exact share and less by one request at most
(`DecayedFacts`), and it never grows as time goes on, rounded or not (`DecayedMonotone`):
a product that is rounded short is a whole number, and a later one is smaller by more than
nothing. The
invariant `IInv` bounds each counter by the number of requests counted in its windows; a
step adds one to at most one such number, and no late request lowers any. So
`TypeCorrect` and `CountersNeverOvercount` hold of all clients. For those whose requests
came in order `ExactInv` has equality, and for a client without a counter that no request
of its is recent: a purge must drop nothing that the next request would carry over, which
needs that a purge is never further off than its delay. From it follow
`CountersAreExact`, `RatesAreSlidingCounts` and `PurgeLeavesOnlyRecent`.

**ThrottleProofs.** `ThrottleTypeCorrect`, and `PoliteClientsPass`: whoever is refused made more than `Limit`
requests in two windows. The invariant adds that the rate a request was told is at
most the number of requests counted in its window and the one before. This bound
survives whatever order requests get the mutex in. `PolicyIsKept` and `RemainingIsKept`
go the other way and use `ExactInv`: the rate of a request that is let pass is at least the
number of requests of its window, so that no more than `Limit` pass; and between an answer
and a later refusal the share of the window before only shrinks (`DecayedMonotone`), so that
the rate went over the limit by requests that were counted in between.
By the lemma `HandlersUseTracker` the theorems about the tracker hold in the hands of the
middleware, as `TrackerKeepsItsPromises` says.

**ProcessProofs.** `RootOutlivesRequests`: the root context is not cancelled while
a request is served. The invariant is the order of a shutdown: listener closed,
requests drained, server context cancelled, root context cancelled, `main` awake. The
lemma `ProcessIsLifecycle` says that a process that boots step by step is one of
`Lifecycle`: every step of the boot but the last leaves the variables of the other
goroutines alone, and the last is a disjunct of `Boot`. So the invariant carries over, and with it
`ProcessRootOutlivesRequests` and `ProcessEndsInOrder`: a boot that panics cancels the root
context too, but the process ends with it, before `main` can return as after a shutdown.

The boot has the invariant `BootInv`. `OptionsShape` says at which position of the list
each option is, for every configuration, and `OptionsLeft` how many are applied. From that
number the invariant says whose each route is: the profiler's, the auth handlers' unless a
static directory has taken the GET from them, or that of the last static directory so far
at its endpoint; and that no route is there before the services. There is one lemma for
each way an option changes the routes (`UseRoutes`, `ProfilerRoutes`, `AuthMounted`,
`AuthRefused`, `StaticAdded`). `RoutesAlwaysSeeServices` and `BootFailsOnlyForItsConfig`
are conjuncts of it. `LoginIsServedByAuth` and `StaticsAreServed` need that the longest
pattern that fits a path is the one that is a segment shorter (`LongestPrefix`), and that
no two routes have it in common (`ServedByOwner`).

**LocalDataProofs.** `ReaderMissesNothing` and `ReaderSeesNoRowTwice`. The invariant is
that a page under way has no gap: it holds every row of the table it is read from
between the token it was asked with and the token `List` would return. So does, up to
the token, what the reader was given, of the rows that were there all the time; a call
that fails gives it nothing and takes its token nowhere. That
an empty result means an empty rest of the table (`SelectEmpty`) needs a least row,
which sets of natural numbers have (`LeastNatural`).

Only model-checked: `ExpiredGoes`, `CollectorStops`, `SignalEndsProcess`,
`BootComesToItsEnd` and `StableRowArrives`. They are liveness under fairness, which TLAPS
does not prove.

## 5. What the runs found

- `authorizer_giveup`. In `GenerateAuthorizationRequest` the loop assigns to an `err`
  declared inside it (`authorizer.go:71`), and `return "", err` at line 82 returns the
  outer one, which is nil. When every draw is taken, `Login` redirects with success and
  an empty code. With 32 random characters this needs a broken random source, but it
  is the only case the loop exists for.
- `tracker_reset`. A request that read the time just before a window ended and got the
  mutex just after a request of the next window finds a counter *newer* than itself,
  takes the branch "old enough for a full reset" (`local.go:120`) and moves the counter
  back; the next request of the new window resets it again. Requests are forgotten,
  never invented: `NeverOvercounts` holds without exception, `ExactUnlessLate`,
  `RateIsSlidingCount` and `AtMostLimitPass` only for ids without such a request.
- `lifecycle_timeout`. The deadline can pass after `Shutdown` has succeeded and before
  `stop()`; the process then ends with "Shutdown timed out. Terminating."
- `local_unknown_id`. `ByID` returns `ErrorUnknownPlayerID` for a row that is there when
  the database fails or a column is NULL, and `sql.ErrNoRows` when there is no row
  (`player.go:128-132`, and the same in `staff.go` and `facilities.go`): the condition is
  the wrong way round.

- `login_form`. The page at `<auth path>/authorize` posts its form to `/auth/login`
  (`views/auth/login.html:18`), while `WithOAuth2` mounts its routes at the configured
  path (`oauth2.go:79`): under any other path nobody can log in.

`RemainingIsHonoured` compares requests of one window that read the time in the order in
which they were counted or later, because the rest of the window before still counts
less then. An answer to a request that is refused says that some 2^64 requests remain,
the difference being unsigned (`throttler.go:105`); the property asks only about answers
to requests that pass.

`LoginServedByAuth` excepts what the code allows: a static directory configured at the
auth path takes the GET routes of the login in silence, and of two at one endpoint the
last wins.

`NothingMissed` holds with one exception it names (`blind`): a query that fails before
its first row gives an empty page and no error, because `List` does not ask `rows.Err()`,
and a reader takes that for the end. And it holds for a reader that calls again with
its own token after an error. A row that cannot be scanned stops such a reader as long as
it stays, and is never passed. `List` also returns a token with its errors: with the one
of a failed `Query`, -1, the reader would start over; with the one of a failed `Scan` it
would skip the rows that were scanned before and dropped.

Seen while reading, without a run of their own:

- `X-RateLimit-Reset` is the time gone in the window rather than the time left
  (`throttler.go:94`).
- Without a configuration file the process always panics at boot: the default templates
  directory and auth path are empty (`auth/config.go:52-57`).
- Half a key pair is no error: the server comes up without TLS (`services/config.go:145`).
  `Logging: false` changes nothing (`setup.go:48`).
- `ValidateClient` unescapes the redirect URI once more than the form does
  (`authorizer.go:128`), but the redirect uses it as it came: one that is escaped twice is
  accepted and cannot be followed.
- `staffMember.Role` returns the name (`staff.go:62`).

## 6. What is not modelled

- The helpers: nothing calls `ParseHttpAuthBasic` and `ReadEnv`. A random string is a
  choice among the keys in `Authorizer`.
- What middleware does to a request or its headers; the options of `router-options.go`
  that `main` does not use; auth paths with URL parameters or a slash at the end.
- Of the local data store: `ByTeam`, which reads a team's rows at once and keeps no
  token, the opening of the file and failures to create the tables (at `Init` the table
  exists, with any rows of an earlier run), and the result sets
  that stay open when a row cannot be scanned.
- `DoThing` (`oauth2.go:180-234`) is commented out; `OneTimeValues` covers the store operations
  it would use.
- Data: passwords, client ids, redirect URIs, HMACs, PNGs, templates and headers. The
  handlers' checks are choices, their results are values.
- A wall clock that is set back. The store's times carry Go's monotonic reading, so
  none can. The throttle's do not, for `UTC()` strips it: there, setting the clock back
  has the effect of late requests, but is not modelled.
- Windows of the throttle shorter than a millisecond, which make `computeSlidingRate`
  divide by zero, and counts so large that float64 loses more than a unit.
- Values that cannot be compared, which make `sync.Map.CompareAndSwap` panic: nothing
  in the repository stores one.
- Data entities, test support, the HTML, CSS and JavaScript, and the scripts.

## 7. Plan

Done: the store with its interface, the throttle, the handlers, the boot and the life
cycle, the pages of the data store, and the proofs of section 4. What is left of the code
is I/O, data and unused helpers; a composition of `Authorizer` with `MemStore` in place of
`KeyValueStore` would show nothing that the refinement does not. Next, proofs:

1. what `StoreImplementsInterface` lets be proved of the interface instead of the store,
   such as that a removed item stays away;
2. steps of the liveness arguments that are safety: that the boot, the shutdown and a
   reader's page have a measure that every step of theirs lowers.
