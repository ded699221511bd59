# Amaro in TLA+

TLA+ models of the Amaro web framework, the TLC configurations that check them
and TLAPS proofs of the properties that matter most. Paths and line numbers
refer to the Go sources of the repository.

    tlc -config App_lifecycle.cfg MCApp      # one run; a cfg belongs to MC and the name before its "_"
    tlapm AppProofs.tla                      # one proof module

`PROJECT.json` lists the components, the runs with their properties, the code
each definition models, the mutations of the code that each property catches,
the disagreements found and the theorems.

## 1. The system

| Component | State | Operations | Talks to |
|---|---|---|---|
| `App` (amaro.go) | middlewares, compiled handler, `sync.Once`, pool of Contexts | `Use`, `ServeHTTP`, `setup`, `dispatch`, error handler | router, middlewares, net/http |
| `Context` (context.go) | request, writer, params, keys | `Reset`, `AddParam`, `Set`, responses, `Bind*` | handlers; reused through the pool |
| Router (routers/trie.go) | one trie per method, global middlewares | `Use`, `Add`, `Find`, `StaticFS` | App, Group |
| Registration (amaro.go, group.go) | group prefixes and middlewares | `Any`, `Mount`, `Group`, `StaticFS` | loops of `Router.Add` |
| Recovery (recovery.go) | none | recovers, answers 500 | outermost middleware |
| Timeout (middlewares/timeout.go) | goroutine, channel, deadline per request | select on result and deadline | shares the Context with its goroutine |
| RateLimiter (middlewares/limiter.go) | map of buckets under a mutex, buckets under theirs | lookup, `Allow`, cleanup | requests, its cleanup goroutine |
| Logger, Compress, CORS (middlewares/) | a wrapped writer, headers | around the next handler | each other, through `c.Writer` |
| CachePage (addons/cache/middleware.go) | pages in a `Cache` | hit, miss, record | MemoryCache, `c.Writer` |
| MemoryCache (addons/cache/cache.go) | `sync.Map` of items with expiry | `Get`, `Set`, `Delete`, `Flush`, sweep | any goroutine |
| Sessions (addons/sessions), SessionAuth (middlewares/session_auth.go) | data by ID in a `Cache`, cookies | `Start`, `Get`, `Save`, `Delete`, the guard | clients, MemoryCache |
| JWT, KeyAuth, BasicAuth, RBAC, ACL (middlewares/) | their options; a role in the Context | extract, parse, check, refuse; `CreateToken` | the clock, each other, the handler |
| Streaming (addons/streaming) | the writer it flushes | `Stream`, `StreamText`, `StreamSSE` | Logger, Compress, CachePage through `c.Writer` |
| Static files (static.go) | an `fs.FS` that others change | `StaticHandler` | file system, error handler |
| Lifecycle (amaro.go) | two channels, http.Server | `Run`, shutdown with deadline | signals, clients |
| Secure, RequestID, HTMX, OAuth2, WebSocket, OpenAPI | see section 8 | | |

What is hard in it:

- **Concurrency.** Every request has a goroutine, and Timeout adds a second one
  that outlives its request. The pool, the compiled chain, the cache, the
  sessions and the buckets are shared, with a map as data the sessions without
  a lock; the cache and the limiter also have a goroutine that cleans up.
- **Check, then act.** The cache deletes by key what it found expired; the
  limiter looks a bucket up under one lock and uses it under another; Start
  reads a session before the handler and writes it after, and SessionAuth
  decides in between; JWT reads the clock twice; the static handler looks names
  up several times in one request.
- **Order of middlewares.** Three of them replace `c.Writer`, and a guard, CORS
  or CachePage may answer without the rest. What is answered, logged, cached,
  allowed and flushed depends on who wraps whom and on what runs on the way out
  of an error or a panic. RBAC needs what a guard before it has left. The
  options of JWT overwrite each other's keys and methods in the order given.
- **Failures in the middle.** Registration loops, Binds and file lookups may
  stop half way; a panic may be raised anywhere, on any goroutine.
- **Boundaries.** Empty paths and segments, integers narrower than they are
  parsed, rates too slow for the cleanup, an expiry of 0.

`PROJECT.json` lists these hazards at their lines, with the properties that
would catch each going wrong.

## 2. The modules

| Module | Code | What a behaviour is |
|---|---|---|
| `App` | amaro.go, context.go, recovery.go, timeout.go | requests in flight, each a serving goroutine and possibly one of Timeout |
| `Routes` | router.go, trie.go | no behaviour: matching, shadowing and conflicts of patterns as operators |
| `RouteTable` | trie.go | the abstract router: a set of routes, atomic Add and Find |
| `TrieRouter` | trie.go | the actions of the router, one per iteration of the loops over path segments |
| `Registration` | amaro.go, group.go, trie.go | calls of Add, Any, Mount, StaticFS, Use and Group; each is a sequence of Router.Adds that the instance of `TrieRouter` in it works off; implements `RouteTable` |
| `MemoryCache` | addons/cache/cache.go | goroutines and the sweep, one step per call of `sync.Map` |
| `TokenBucket` | limiter.go, 19-40 | the abstract limiter: one bucket per address that is never forgotten |
| `RateLimiter` | limiter.go | requests, buckets, clock and cleanup, one step per critical section; implements `TokenBucket` |
| `Pipeline` | logger.go, compress.go, cors.go, addons/cache/middleware.go, streaming.go, amaro.go, recovery.go; how each guard refuses | requests one after the other through a stack of middlewares to a handler that may stream; the cached page carries over |
| `Auth` | jwt.go, key_auth.go, basic_auth.go, rbac.go | requests one after the other through a stack of guards while the clock runs and `CreateToken` makes tokens |
| `Sessions` | addons/sessions, session_auth.go | requests of clients that overlap, one step per call of the cache, until the process ends or the requests do |
| `StaticFiles` | static.go | requests while files change, one step per Open and Stat |
| `Binding` | context.go, 190-423 | the Binds of one handler on one request |
| `Server` | amaro.go, 186-249 | Run, the listening goroutine, signals, clients, the deadline |

`MC<module>` holds the small instances for TLC, `<module>Proofs` the proofs;
`PartsProofs` has those of `Binding`, `StaticFiles` and `Server`, which share no
state with the rest; it extends all three, so their `Init`, `Next` and `Spec` bear
their names.

How the models correspond to the code:

- An action is a stretch of code that nothing can interrupt in a way the
  properties can see: a critical section, a call of a `sync.Map`, a channel
  operation, a call of the file system, an iteration of the router's loops.
- Program counters (`pc`) name the place in the handler; variables keep the
  names of the code (`pool`, `done`, `serverErrors`, `clients`, `lastSeen`).
- Data are cut down to what the properties tell apart. In `App` the value of a
  Context field is the request it was taken from, so a stale field is one that
  names another request. In `Sessions` the data of a session is the set of
  requests that changed it, and the request that made the map if it is one. In
  `Auth` a token names the key that signed it, and its times are small numbers.
  In `Pipeline` a piece of a body tells which request it was written for and
  whether it went through gzip. In `Binding` a string is the number it spells
  and its length, and the width of a field is how many values it has. A query or
  a form is its well-formed pairs and whether it has others; a document has for
  each key nothing, a scalar with its JSON type, or a list of scalars. Who has
  read the body (`reader`) and what `ParseForm` has left (`form`) carry over from
  one Bind to the next.
- Variables marked "history" only serve the properties.
- Each module begins with a few *mistaken forms* of its own definitions: what a
  plausible slip in that code would be (a dropped guard, a missing reset, no
  buffer). They are used by nothing; `PROJECT.json` pairs each property with
  the mistaken form that violates it.
- net/http, the file system, the scheduler, encoding/json and the program's own
  handlers are modelled from how the code uses them and marked `external`.

## 3. What the runs check

One run for each module with a behaviour, and two that show a disagreement.

| Run | Shows | Bounds, and why they are enough |
|---|---|---|
| `App_lifecycle` | Contexts, handlers and responses of different requests stay apart, every status fits its outcome, the chain is compiled once and before it serves, a client under Timeout is answered and a late goroutine ends | two requests that race into setup, and of which one gets what the other has left; two Contexts; every kind of route and outcome, with handlers that hang, panic and outlive their Timeout; one write each, enough for one goroutine to write during the other request |
| `Registration_calls` | the trie does what the route table promises (the most specific edge, the middlewares used before the Add, no trace of a refused Add); what Any and Mount return is what they registered: all of it, or, refused in any loop, exactly what came before; routes agree on their parameter names | every sequence of three calls: one route, one that shadows it, one that conflicts with either; ten patterns under GET and one that conflicts with some of them but for its method, with a middleware of its own; three methods, so that a loop has a middle to fail in; Any, Mount and StaticFS on the App and on a group; Use and Group among the calls; eight paths that match, shadow and end in empty segments |
| `MemoryCache_calls` | only Delete and Flush remove an entry without a TTL; an expired one goes though nobody asks for it | two clients on one key with the sweep: two that race, and a third that deletes by key; three Sets, so that one falls between any look and its delete |
| `RateLimiter_bucket` | the limiter is a token bucket for each address; the rate is held; the bucket of an address that stays away is forgotten | the clock runs to 5 with an idle limit of 2: a bucket is forgotten, given again and forgotten again; two racing requests on two addresses, one of which may stay busy |
| `Pipeline_stacks` | outcomes are told, a hit repeats its miss (status, body and every header), the log line is what was sent, the body is as Content-Encoding says, guards hold, the origin is told, streams keep up | every order of every choice of up to three of CORS, Logger, Compress, CachePage, a guard that answers itself (JWT) and one that returns an error (KeyAuth), and of the first four; three policies of CORS; two requests, a miss and a hit; requests with and without credentials, gzip and an origin, and a preflight; handlers of up to two calls with three codes, one of which allows no body (204), so that a late status differs and a stream has a write before its last |
| `Auth_guards` | who reaches the handler had a reason at every guard, who is refused is told so by the outermost guard that had one, what `CreateToken` made is accepted by a JWT with the same secret | thirteen option lists of JWT: each kind of key alone, after and before another, and the ones that leave none; five lookups of KeyAuth; every guard alone and seven stacks with what needs it before and after it; the clock runs from 1 to 3 and so passes every claim between arrival, parse and check; one token of `CreateToken` and five of others, as a request carries one |
| `Sessions_requests` | no client finds another's data, a client finds its session, only overlapping requests of one client lose a change, SessionAuth knows its clients | struct data and a shared map; three requests of two clients: two of one overlap with one of the other, or create, change and find a session in turn; cookies that arrive at any moment from the start of the handler on, or never; entries that run out, deletions, panics and a race on a map that ends the process, all at any moment. Two identifiers, so at most two sessions: a third request has one of them to come back to |
| `StaticFiles_changes` | 404 and 403 are true, what is served was there, an SPA answers every path with a file, or, with Browse, a directory with 403 | a root with its index, a directory with its index; two changes in a request that looks at most three times; Opens and Stats that fail |
| `Binding_calls` | what is bound and what validation says agree with what the query, form or JSON means; failures stop where they should, and part of a malformed form is bound only after an error | words of 8 values with strings at their edges and beyond; six structs with every modelled kind, fields narrower than a word, pointers, and a negative bound of an unsigned field; queries with and without malformed pairs; five forms, two of them malformed or cut off; JSON with nothing, null, a scalar of each type and lists that fit in whole, in part or not at all, and documents that are none; three Binds, so that one fails, one binds what was left and one starts from that |
| `Server_run` | nil means that no request was lost, a shutdown is no error of the server, Run returns after a signal though handlers hang, the listening goroutine ends | two requests; two signals, one more than the channel holds |

Deadlock checking is off where a run is meant to end: the requests, calls or
the clock of the instance are used up. The type invariants
of `App`, `MemoryCache`, `RateLimiter`, `Sessions` and `Server` are proved
(section 5); elsewhere a value of another shape stops TLC.

Two runs are expected to find a violation. Each checks one property that a
comment of the code states, and shows that the code does otherwise:

| Run | The code | The comment |
|---|---|---|
| `App_timed_isolation` | a handler outlives its Timeout and, though it looks at its context before every write, writes into the response of the request that the pool gave its Context to | context.go:51, timeout.go:29 |
| `Sessions_delete` | Start saves a session again that its handler has deleted | sessions.go:135 |

### What the properties except

A property of a passing run holds for everything its instance can do, so it
says itself what it does not claim. These are the exceptions and the code
behind each.

- `ContextIsolation`, `ResponseIsolation`, `StatusMatchesOutcome`: handlers that
  Timeout has given up on (`TimedOut`). timeout.go:30 returns while the handler
  goes on with the Context that amaro.go:259 then puts back.
- `TimeoutAnswers`, `TimedGoroutineEnds`: the process still runs. A panic on the
  goroutine of timeout.go:24 is under no deferred recover and ends it.
- `PermanentEntriesStay`: keys that were never Set with a TTL. `Get`
  (cache.go:49) and the sweep (cache.go:85) delete by key what they found
  expired, and so may delete an item that was Set in between.
- `ImplementsTokenBucket` and `RateHeld` need a rate that refills a bucket
  within the idle limit (`RefilledInTime`, section 5). A slower rate is exceeded:
  limiter.go:61 forgets a bucket that is not full. The buckets are per *address*,
  port included, as limiter.go:45 takes `RemoteAddr` whole.
- `OutcomeTold`: an error, a refusal by an error or a panic while Compress is at
  work. Its deferred `Close` (compress.go:48) writes the gzip header, and with it
  status 200, before Recovery or the error handler can answer.
- `HitRepeatsMiss` compares the status, the body and all values of every header
  in their order. A hit adds the page's headers (middleware.go:69) to those that
  a CORS around CachePage has set for the hit itself (`OwnValues`): these come
  first, so that `Vary` and `Access-Control-Allow-Origin` then have two values,
  the second of the latter for the origin of the miss; a browser refuses such an
  answer, though its origin is listed in `AllowOrigins` (cors.go:13). Excepted are the status
  of a handler that sets two (the first is sent, the recorder keeps the last),
  and with it the body if one of the two allows none (204, 304); and stacks with
  Compress. `LoggedAsSent` has the first exception, and that of an error: Logger
  prints (logger.go:112) before the error handler answers.
- `Decodable`: an error or a panic under Compress, whose plain answer follows the
  closed stream; and Compress with CachePage, where the page is stored with the
  encoding but not the compression or is compressed once more. Under a status
  that allows no body (204, 304) Compress announces gzip and sends nothing.
- `GuardsHold`: a cached page is served to whom the guards *before* CachePage
  accept. A guard inside of it is asked on a miss only.
- `OriginTold`: cached answers, which add the headers of the page to those that
  CORS has set again, so that a value is there twice; and `Vary` where Compress
  inside CORS overwrites it (compress.go:45).
- `StreamKeepsUp`: the last write, which is flushed by the next one or by the end
  (streaming.go:138); and streams under the recorder of CachePage, which has no
  Flush. A stream that finds it outermost is refused, with an error.
- `AdmittedWithReason`, `RefusedWithReason`: time passes between the arrival of a
  request and its answer. A token is as good as it was at one moment between.
- `IssuedIsAdmitted`: a SuccessHandler may fail for a token without a role.
- `NoChangeLost`: clients that have sent a request while another of theirs was
  in flight (`hasty`): the later Save wins whole (middleware.go:47).
- `JarFindsSession`: sessions that ran out, were deleted, were lost with the
  process, or were never saved since their first handler panicked (`gone`); and
  a session whose request is still inside Start. middleware.go:35 sets the cookie
  before the handler runs, so a flush, a body over the buffer of net/http or
  Timeout's answer brings it to the client before Save (line 47), and a client
  that comes back at once may find nothing. Start then draws another identifier
  for it.
- `GuardKnowsClient` excepts both, and a client that shows another session than
  the one it logged in with, as it missed the response with the cookie.
- `NotFoundIsTrue`, `ServedWasThere`, `SPAServesIndex`: the mount point itself.
  static.go:64 gives it the empty name, which an `fs.FS` may refuse as missing
  or as invalid (`config.Empty`): an SPA then answers 500.
- `SPAServesIndex` also excepts a failing Stat: that of an index (static.go:97)
  has its error shadowed, and the answer is an empty 200; names that cannot be
  opened or read though they are there; and, with Browse, a directory without an
  index, which is answered 403 (static.go:108) though the Index is there.
- `BoundAsSent`: a number that its field is too narrow for is stored by its low
  bits (context.go:298), and it speaks of the well-formed pairs only: BindQuery
  drops the others without an error, as `URL.Query()` does (context.go:211).
  Of JSON a value of the wrong type, or too large, is reported in the end; its
  field keeps what it had, but that a pointer may be allocated and a list
  has the elements that fit.
- `PartialFormWasReported`: not the call itself but one before it has reported
  it. After a `ParseForm` that failed (context.go:220) `Request.Form` is set to
  what could be read, so the next BindForm sees no error, binds that and accepts
  it. The same goes for a form whose body an earlier BindJSON has read.
- `VerdictIsRight`: `min` and `max` say nothing of a
  pointer, a bool is never missing (context.go:394), and a negative bound of an
  unsigned field is compared as the huge number it converts to (context.go:404).

No property is about the following, since it is plain in the code. The models
have it as it is.

- `Group.Use` keeps middlewares (group.go:25) that no route of the group is given.
- A route below a mount point hides the mounted handler for what lies beside it,
  as `Find` never comes back from an edge (trie.go:201).
- SessionAuth refuses inside of Start, and Start saves all the same: a client
  that is refused is given a session and a cookie.
- `ContextKey` of JWT ("to store user data in context", jwt.go:34) is never read:
  the claims go nowhere but to the SuccessHandler and a header of the response.
- `WithJKS` sets RS256 without a key that can be read: that JWT refuses everybody.

## 4. Fairness

Liveness is checked under weak fairness of the steps that the Go runtime takes
by itself, and of nothing that a client or a handler decides.

- `App`: the serving goroutine, the timer of Timeout, and the send on `done` of
  a handler that has returned. A handler itself may hang: it has no fairness.
- `MemoryCache`: the ticker's sweep and its steps, for each key, as `Range`
  reaches every key that stays.
- `RateLimiter`: the cleanup loop. It is a `for` with a `Sleep`, and an action
  that stays enabled for ever is one it will find; the clock needs no fairness
  since idleness is what enables it.
- `Server`: the two goroutines and the timer of the shutdown context. Handlers
  are fair only if `Hangs` is FALSE, and the run has it TRUE. A failing Accept
  is not fair.

## 5. What is proved

TLAPS checks these for every value of the constants (any number of requests,
keys, clients, addresses, middlewares, guards, routes, files, fields) under the
modules' named assumptions. Most say that bounds are numbers and that null values
are not data (`DistinctNulls`, `CacheConstants`, `LimiterConstants`,
`SessionConstants`, `ServerConstants`, `BoundsAreNumbers`). The others say
what the inputs can be: `KindsAreKnown`, `PoliciesAreKnown` and `OptionsAreKnown` that there
are no other kinds, policies and options than the models know; `StacksAreOrders`
that a stack holds a middleware once; `StatusesAreFinal` that a handler sets no
status below 200; `PathsAreSegments` and `PathsAreLists` that a path is a
sequence of segments; `AuthConstants` that the claims of a token are times;
`StaticConstants` that the directory of a name is a name and the Index of the
root can be named; `BindingConstants` that the tags of a field are those that
Bind knows and their bounds fit a Go `int`. TLC evaluates every assumption on its instance.

| Theorem | States | Argument |
|---|---|---|
| `AppProofs!TypeCorrect` | `[]TypeOK` | `TypeInv` adds that a request in flight holds a real Context |
| `AppProofs!ContextNeverShared` | `[]ContextExclusive`, Timeout included | a Context is either held by one request in flight or in the pool, never both |
| `AppProofs!HandlersIsolated` | `[]ContextIsolation`, Timeout included | `HandlerPhase`: a handler runs in its request's handler phase or has been timed out; `OwnFields`: exclusive use and Reset leave in a held Context the request, writer and parameters of its holder, and keys of the holder or of handlers that were timed out |
| `AppProofs!ResponsesIsolated` | `[]ResponseIsolation`, Timeout included | by `OwnFields` every write of a handler that is not timed out, and of the framework, goes through its own request's writer |
| `AppProofs!StatusIsOfOutcome` | `[]StatusMatchesOutcome` | `StatusInv`: a response is untouched, has the status of the outcome, or a 200 that the handler began with; by `OwnFields` only its own request and timed-out handlers write to it |
| `AppProofs!ChainStable` | `ChainCompiledOnce` | `OnceInv`: `once` and `handler` move together, the handler is set only while once runs; `ReadyInv`: every chain begins with Recovery, there is one once the Once is over, and who goes on to serve has seen it or waited for the Once |
| `MemoryCacheProofs!CacheTypeCorrect` | `[]TypeOK` | a goroutine inside a call has a key and an item |
| `MemoryCacheProofs!NoTTLNeverEvicted` | `PermanentEntriesStay` | whoever is about to delete an expired entry of a key has seen an item with an expiry there |
| `RateLimiterProofs!LimiterTypeCorrect` | `[]TypeOK` | refills are cut at burst |
| `RateLimiterProofs!LimiterIsTokenBucket` | `ImplementsTokenBucket` if `RefilledInTime` | `Inv`: a bucket has one address, a request holds the bucket the map still has, and the last Allow came at most `MaxStall` after the last lookup; so a bucket that is forgotten is full by arithmetic, and forgetting it is a stutter of the token bucket |
| `RateLimiterProofs!RateIsHeld` | `[]RateHeld` if `RefilledInTime` | `Granted`: what was let through and what is left never exceed burst and grant |
| `SessionsProofs!SessionsTypeCorrect` | `[]TypeOK` | an ID in use has been drawn |
| `SessionsProofs!SessionsAreSeparate` | `[]SessionsSeparate`, shared maps included | every ID has an owner; only the owner's jar, cookies and sessions carry it, and the cache has only the owner's changes and maps under it |
| `SessionsProofs!ClientsFindTheirSessions` | `[]JarFindsSession` | `Findables`: an ID that a client has, or that a request has sent or is about to answer with, is saved, or gone, or in a session that a request inside of Start has and will save; with the owners, that request is the client's own |
| `SessionsProofs!ChangesAreKept` | `NoChangeLost` | `Current`: a request of a client that waits has in its session all that the cache has under its ID, as only its own requests write there (owners) and they are one at a time (`Serial`) |
| `SessionsProofs!GuardKnowsItsClients` | `GuardKnowsClient` | `Remembered`: a saved change of a client that waits is in the cache until its session is gone; `Shown`, `Logged`: what the guard sees is what was saved under the ID |
| `RegistrationProofs!TrieImplementsTable` | `ImplementsTable`: the trie refines the table of routes | `TrieInv`: the labels on the way of a route are its names and its end holds it, every node is on the way of a route or of the Add in progress, and a Find is on the way of a route, by the exact child wherever there is one. The refinement mapping reads the table off the ends; an Add or a Find of the table is the last step of its walk, all others are stutters |
| `RegistrationProofs!ReturnsWhatIsRegistered` | `[]RegisteredAsReturned` | `LoopInv`: the routes that a call has registered are those of the first Adds of its loops, as many as the table has accepted, and an error comes from the one after them |
| `RegistrationProofs!AlwaysCoherent` | `[]Coherent` | `TrieInv`: two routes with a way in common have its labels in common |
| `RegistrationProofs!NothingLost` | `OnlySameShapeReplaced` | routes of one shape below one method end at one node |
| `RegistrationProofs!LookupUnambiguous` | of two routes that match a path one shadows the other | take the first segment at which their edges differ: a static edge, a parameter and a catch-all are tried in that order |
| `PipelineProofs!AlwaysInv` | `[]Inv`, the invariant of the next seven | `Places`, `Passed`, `Zipping`, `Wrapping`, `Origins`, `Varied` say what the middlewares that are entered have done; `Sent` what a response is once its headers are; no step undoes that |
| `PipelineProofs!AlwaysOutcomeTold` | `[]OutcomeTold` | `Told`: on the way out the status tells the outcome, or, after an error, no header is sent yet |
| `PipelineProofs!AlwaysHitRepeatsMiss` | `[]HitRepeatsMiss` | `Recorded`: the copy that CachePage takes is the body that is sent, if the status allows one; `Making`, `PageOfMiss`: the page is of the request that `miss` remembers, with the very headers that were sent; `Replayed`: a hit sends its status and body, and its headers behind those of `OwnValues` |
| `PipelineProofs!AlwaysLoggedAsSent` | `[]LoggedAsSent` | `Noted`: the status that a wrapper has noted is the one sent; `Logged`: it is the one printed |
| `PipelineProofs!AlwaysDecodable` | `[]Decodable` | `Coded`: what goes through Compress is coded and announced, what does not is plain, and the trailer comes last and once |
| `PipelineProofs!AlwaysGuardsHold` | `[]GuardsHold` | `Passed`: every guard that is entered has accepted the request; `Succeeded`, `PageOfMiss`: only an accepted miss becomes the page |
| `PipelineProofs!AlwaysOriginTold` | `[]OriginTold` | `Origins`: the header of CORS is set from the moment CORS is entered to the end, on every way out |
| `PipelineProofs!AlwaysStreamKeepsUp` | `[]StreamKeepsUp` | by `Sent` a stream starts from an empty body, and each write is flushed before the next |
| `AuthProofs!AdmissionsHaveReasons` | `[]AdmittedWithReason` | `Way`: every guard behind the request has accepted it and left its role; `Parsed`: a token inside JWT is genuine and was in time when it was parsed |
| `AuthProofs!RefusalsHaveReasons` | `[]RefusedWithReason` | `Answered`: the guard that refused had a reason then, and a reason stays one as the window grows |
| `AuthProofs!OwnTokensAreAdmitted` | `[]IssuedIsAdmitted` | `Made`: the tokens of `CreateToken` are all signed by a key; what the options come to is proved by induction over their list: the last one that writes a field has its say, so the secret given last is the one that checks |
| `PartsProofs!BoundIsAsSent` | `[]BoundAsSent` | `Progress`: what the first n fields have come to, by induction over the fields; a string that parses and fits is stored as it is (`Remainder`, `Fitting`). For JSON `FieldDecoded`: what one field holds after its value, by the cases of the decoder; `ValuesAre`, `JSONBinds`: each field is decoded from its own value |
| `PartsProofs!ParseErrorStops` | `[]FailureStopsThere` | the same `Progress`: after an error no field changes |
| `PartsProofs!PartialFormsWereReported` | `[]PartialFormWasReported` | `FormInv`: a `Request.Form` that was set from a malformed query or form came with an error, and a body that a BindJSON has read with another |
| `PartsProofs!VerdictWasRight` | `[]VerdictIsRight` | `RulesAgree`, kind by kind; it needs that every field holds a value of its type (`Holds`), after a JSON document too (`FieldDecoded`) |
| `PartsProofs!NotFoundWasTrue` | `[]NotFoundIsTrue` | `IndexOrNothing`: a directory that was opened still has its index, or there was nothing to serve at a moment that `views` remembers |
| `PartsProofs!ServedFilesWereThere` | `[]ServedWasThere` | `OpenedInv`: what is open was at its name in one of `views` |
| `PartsProofs!SPAAlwaysServesIndex` | `[]SPAServesIndex` | `StaticInv`, of which the last three are parts: each way to an answer other than a file shows an Index that was away or a path that could not be read |
| `PartsProofs!ServerTypeCorrect` | `[]TypeOK` | what is sent on `serverErrors` is an error, and it is empty until then |
| `PartsProofs!NilMeansGraceful` | `[]NilIsGraceful` | `ConnInv`: connections are cut only by the step that returns an error, and none is accepted while closing |
| `PartsProofs!ClosedIsNoError` | `[]ShutdownIsNoError` | `ErrorInv`: ErrServerClosed needs closing, and closing needs Run to have left its select |

`RefilledInTime` is
`MaxStall <= IdleLimit /\ (IdleLimit + 1 - MaxStall) * Rate >= Full`: with the
code's three minutes, that a bucket is full again before the cleanup may forget
it. With a smaller rate in `RateLimiter_bucket.cfg` (`Token = 3`) TLC shows how
the rate is exceeded. That handlers which outlive their Timeout must be excepted
is what `App_timed_isolation` shows.

An inductive invariant is a conjunction of named parts, and the lemma that a
step preserves it has a case for each action. Of the properties above only
`ContextExclusive` and some of the type invariants are inductive, given the types;
each of the others needs the parts named beside it.

What the loops over the options of JWT and the fields of a struct compute (`Bound`) is a
recursive function. That it is well defined and what it comes to is proved by
induction in the form of a least counterexample: a set of numbers that has an
element has a least one (`LeastNumber`, from the library's
`NatLessThanWellFounded` and `WFMin`). Positions in a path are treated the same
way in `RegistrationProofs`.

## 6. What is only model-checked

- Liveness (`TimeoutAnswers`, `TimedGoroutineEnds`, `ExpiredEventuallyGone`,
  `IdleForgotten`, `RunReturns`, `ServingEnds`): fairness and ENABLED are out of
  the prover's reach.
- The two disagreements of section 3, which are counterexamples.

Every invariant, action property and refinement that a passing run checks is
stated by a theorem.

## 7. Abstractions to keep in mind

- Routes are registered before requests are served, as the documentation of
  `Run` has it; `Find` reads the trie without a lock, so a route added during
  traffic would be a data race.
- `Pipeline` serves one request at a time: its middlewares share nothing
  between requests but the cached page, whose store `MemoryCache` models.
- The token count is a number of units, `Token` to a token; rounding of float64
  is not modelled. Sleeping for a minute between cleanups is not either: the
  cleanup may run at any moment at which a bucket is idle.
- `Flush` of the cache is a data race on a `sync.Map`. The model lets a
  goroutine inside it see either map or panic.
- A goroutine of Timeout and its serving goroutine race on the Context; the
  model interleaves whole accesses. What a middleware inside Timeout does on the
  way out of a late handler is left out: Compress there puts the writer it found
  back into a Context that another request may have by then (compress.go:59).
- The limiter refines the token bucket only under `RefilledInTime`. That includes
  `MaxStall <= IdleLimit`: a request that holds a bucket for longer than the idle
  limit between its lookup and `Allow` (limiter.go:90) spends from one that may
  have been forgotten, beside the new one of its address.
- Two requests that use the map of a session at once are a data race. The model
  lets one follow the other, or ends the process, as the Go runtime does when it
  sees concurrent use of a map. What else the race may do is not modelled.
- `Auth`: a signature is who made it, the key of a `Validator` its verdict. The
  clock has whole seconds, as the claims have. The ErrorHandlers are the default
  ones, and a request carries one token.
- `Sessions`: the response may reach the client from the moment the cookie is set,
  whatever flushes it. With two identifiers in the instance no more than two
  sessions are drawn, and `crypto/rand` repeats none.
- `Binding`: a form or a query is its well-formed pairs and whether it has others.
  The error of `ParseForm` for a Content-Type that cannot be parsed, JSON with a
  key twice or nested objects, and bodies larger than what one read takes are
  left out. A JSON body that is malformed is rejected before any field is set,
  as the decoder scans the value first.
- `Pipeline` has no informational statuses (1xx), which net/http sends at once.
- In `Pipeline` a guard is whether it knows the client, and how it refuses; what
  it knows a client by is in `Auth` and `Sessions`.
- `http.Server` is modelled by its documented behaviour for Shutdown, Close and
  ListenAndServe.

## 8. Not modelled

- `RequestID`, `Secure`, HTMX, OAuth2, WebSocket: each maps a request to headers
  or to one call of a library; there is no state and no order to get wrong.
- OpenAPI: the document is built by reflection before the server runs, by one
  goroutine; its only control is a recursion over types that a placeholder ends.
- `Routes()` and the debug page only read; the formats of Logger are text.
- The `Skipper` of SessionAuth, custom parsers of path segments, and handlers
  that the program may give to middlewares in place of the default ones.
- Routes added during traffic: nothing promises that this works, and it is a
  data race (trie.go:72).

## 9. What could come next

- CachePage over `MemoryCache` with requests that overlap: two misses at once.
