# Verification of gochoreo

TLA+ models of the concurrent core of gochoreo, TLC configurations that check
them on small instances, and TLAPS proofs of their main properties. gochoreo is
the skeleton of an API gateway: two commands that wire together a set of
infrastructure packages under `src/pkg`. Each package wraps a service (Vault,
PostgreSQL, Kafka, DragonflyDB, OpenTelemetry) in a client that many goroutines
share, or, like `pkg/version`, keeps a registry they share. What is hard to get
right here, and hard to test, is the sharing: who may still be inside a client
when it is closed, who waits for whom, and what a caller sees of another
caller's half-finished work. That is what the models are about.

## 1. Inventory

| Part | State it keeps | Operations | Talks to |
|---|---|---|---|
| `pkg/vault/client.go`, secrets | `cache` under `cacheMutex`, `closed` under `c.mu` | GetSecret, PutSecret, DeleteSecret, ListSecrets, Health, IsSealed, Close | the Vault server |
| `pkg/vault/client.go`, background | `authInfo`, the Renewer, ticker, `renewStop`, `healthStop`, `ctx` | New with Validate and the authentication methods, startTokenRenewal, startHealthMonitoring, Close | Vault's login paths, the API library's Renewer, the secrets part (Health takes `c.mu`) |
| `pkg/postgres/client.go` | `closed` under `c.mu`, the pgx pool, `metrics` under their own lock, ticker and stop channel | Execute, Query, QueryRow, BeginTx, RunInTransaction, Commit, Rollback, SendBatch, Ping, Health, Close | pgxpool; functions of the application run inside a transaction |
| `pkg/version/manager.go` | `components`, `componentMeta`, `constraints` under `m.mu` | Register, RegisterWithConstraints, Unregister, UpdateComponentMeta, Get, GetLatestVersion, List, GetMeta, CheckCompatibility, ProcessVersioned | the components, whose version slices it reads and sorts |
| `pkg/version/version.go`, `utils.go` | none | ParseVersion, String, Compare, compatibility, ranges, filters, FindClosestVersion, the error answer | everything else in the package |
| `pkg/version/detector.go` | the enabled methods, the context key | DetectFromHTTPRequest, DetectFromContext, the middleware | requests; the manager, through the context |
| `pkg/version/metrics.go` | requests and errors per component and spelling, under its lock | RecordRequest, RecordError, Reset, ResetComponent, GetUsageStats | the manager, which records |
| `pkg/version/migration.go` | the migrations of a Migrator, the global migrators, neither under a lock | AddMigration, CanMigrate, Migrate, GetGlobalMigrator, RegisterGlobalMigration | callers |
| `pkg/kafka/client.go`, client | producers, consumer, consumer group, admin client, two mutexes, `messageChan`, `errorChan`, `wg`, `ctx` | Init*, ProduceSync, ProduceAsync, ConsumePartition, admin operations, Close | sarama |
| `pkg/kafka/client.go`, consumer | none of its own: sessions, marks and offsets are sarama's and the group's | ConsumeMessages, ConsumeClaim | sarama; the group coordinator; handlers of the application |
| `pkg/dragonfly/client.go`, `health.go`, `metrics.go`, `utils.go` | the redis client, `connected`, health and latency statistics, `startOnce`, `stopOnce` | Start, Stop, Reload, ExecuteWithMetrics, Health, RetryWithBackoff | go-redis |
| `pkg/config` | the viper instance, a file watch | LoadInto, WatchAndReload | files, environment, callbacks |
| `pkg/otel`, `pkg/logger` | providers, servers, the global logger | New, Shutdown, GetGlobalLogger | the OpenTelemetry SDK, zap |
| `pkg/apidef` | none (data types) | Validate, request matching | - |
| `cmd/gateway`, `cmd/admin-gateway` | - | wiring, shutdown on a signal | packages whose source is not in this repository |

The behaviours that are hard, with the line where each bites, are the
`hazards` of `PROJECT.json`. In short:

* **Interleavings under a shared lock.** In all clients an operation holds
  `c.mu` only for *reading*, so operations run against each other: a fetch
  fills the vault cache after a write has invalidated it; two first calls of
  `InitAdmin` make two Kafka clients. The version manager releases `m.mu`
  between the two halves of RegisterWithConstraints and sorts a component's
  slice under no lock at all.
* **Close against operations in progress.** Close must let them end, let none
  start, stop the background goroutines and be callable twice. In the
  PostgreSQL client it also waits, inside the lock, for connections that other
  goroutines hold.
* **Goroutines that must end.** Monitors sit in a `select` or wait for `c.mu`.
* **Partial failure.** A reply is lost but the write was applied; a commit
  fails; one phase of New fails, or panics, after another has started a
  goroutine; a Reload has replaced the client before it finds that it is useless.
* **A value on its way.** A version is found in one of seven places of a request,
  put in a context, read from it again, looked up, counted under its spelling,
  refused, printed, and sent back by the client: each step may lose it.

What makes each part correct:

* vault: Close drains requests and leaves an empty cache for good; a cache entry
  is not older than an acknowledged write; stop channels are closed once; both
  goroutines end; the token of a closed client is not renewed.
* postgres: no connection is lost on any path; the pool's limit holds;
  counters can be accounted for; Close, operations and the monitor end.
* version manager: a name has a component and its metadata or neither;
  constraints belong to the component they came with; a registration is never
  replaced; one goroutine that sorts loses no version; what is found is supported.
* kafka client: a part is made once however many goroutines come first; a Close
  that comes last closes what was made, never meets a closed channel, and ends;
  the producer's errors are read, so that it goes on taking messages.
* kafka consumer: per partition in order and at least once, through rebalances,
  crashes and expelled members; a committed offset never moves back or past a
  message that no handler has seen; consumption goes on.
* dragonfly client: every Redis client is the current one, in the hands of a
  Reload or left by one that failed; Start and Stop take effect once, and after
  Stop nothing runs; the health record agrees with the metrics; requests are not
  repeated more often than they should.
* version requests: the version announced is the one served; a client that
  follows a refusal is served; every request in the metrics is accounted for; a
  registered migration is found, and a reversible one can be undone, unless another
  migration has taken its key.

## 2. Modules

| Module | Models | |
|---|---|---|
| `RWMutex` | `sync.RWMutex` as the clients use it | a writer announces itself, new readers wait behind it, it holds the lock when the earlier readers have left |
| `VaultClient` | secrets, cache, Close | INSTANCEs `RWMutex` as `mu` |
| `VaultBackground` | New with its configuration and authentication, the two background goroutines and what Close does to them | EXTENDS `VaultClient`; the monitor is one of its callers |
| `VersionManager` | the registry | one action per critical section, one per access to an element of a slice |
| `PostgresClient` | pool, transactions, counters, monitor, Close | INSTANCEs `RWMutex` |
| `KafkaDelivery` | what a consumer group promises | the abstract specification |
| `KafkaConsumer` | ConsumeMessages and ConsumeClaim in the processes of a group | implements `KafkaDelivery` (`INSTANCE KafkaDelivery WITH` a refinement mapping) |
| `KafkaClient` | lazy initialisation, the client's goroutines, Close | a consumer is one goroutine here; what it consumes is in `KafkaConsumer` |
| `DragonflyMetrics` | the counters of `metrics.go` and Snapshot | operators only |
| `DragonflyClient` | Start, Stop, Reload, requests with retries, health checks | EXTENDS `DragonflyMetrics` |
| `SemVer` | versions, their order, compatibility, ranges, choices, constraints | operators only |
| `VersionDetector` | where the version and the component of a request are found | EXTENDS `SemVer` |
| `VersionMetrics`, `Migrator` | the collector; migrations and their reverses | operators only |
| `VersionRequests` | requests from the middleware to the metrics, retries, resets, the global migrators | EXTENDS the three before it |
| `*_proofs` | theorems | each EXTENDS its component and `TLAPS` |
| `MC*` | instances for TLC | symmetry, declared versions |

### How the models correspond to the code

**Steps.** A goroutine has a label `pc[p]`, the operation it is in, `op[p]`, and
what it carries. A step is what the code does between two points where another
goroutine can make a difference: taking or releasing a lock, a request to the
service, a critical section of an inner lock. The deferred unlocks are part of
the step that returns. The labels are named after what comes next: in
`VaultClient` a GetSecret goes through `HitCache` or `MissCache` (it reads the
cache *before* it takes `c.mu`, client.go:420), `EnterShared` (RLock and the
closed check), `ReadServer`, `FillCache` and `LeaveShared`.

**`VaultClient`.** A secret is a version number and whether it is live. A
request may fail before it reaches the server, or after it was applied, so that
only the reply is lost; one its caller gave up may be applied late
(`DelayedWrite`). `acked[s]` is the newest version whose write reported success;
`late` collects the paths whose cache entry was stored by a fetch that a write
overtook. `Expire` is the passing of CacheTTL. `checkRateLimit` can only
delay or end an operation before it has had an effect, and is the choice not to
go on from `idle`.

**`VaultBackground`.** `phase` walks through New: configuration,
authentication, token renewal, monitoring. A `Config` keeps what New decides by:
the method, whether its section has its role, where the credential is, which
goroutines are wanted and whether the interval of the health checks is positive.
`Validate` knows three methods; `ReadCredential` is what each method finds
missing before it asks Vault; eight methods are placeholders that fail. `LogIn`
is the login request of the others; `LookupSelf`, that of the token method, which
fails or panics: it asserts that the policies of the answer are a `[]string`, and
the JSON decoder never makes one (client.go:211). No request of New uses its
context, so cancelling it ends none of them; a New that fails returns
without calling `cancel()`, which matters to nobody, for nothing runs yet, except
after the panic of `NewTicker`, for which `RenewalOwned` makes its exception. Of
`authInfo` only "renewable" is kept; RenewalUpdate writes a lease duration that
is handed out and read by no decision. Closing a channel adds one to a counter, so
that a second close can be seen. `CloseBackground` is
the step of Close that sets `closed`, with everything it stops; the composition
implements `VaultClient` (`Spec` is a PROPERTY of its run and a theorem).

**`PostgresClient`.** `held` is the set of connections that are out, as pairs of
a goroutine and what it has it for: `"call"` (the operation it is in), `"results"`
(the rows or batch results of an earlier one) or `"tx"`. `Acquire` is the pool's
limit, `Refused` a context that ends while its operation waits or a pool that is
closed. When an operation returns, its connection goes with the results or the
transaction (`HandOver`), and the goroutine is in the code that uses them
(`"using"`). From there it may call the *client* again, from the loop over its rows
as well as from the function of its transaction, and keeps their connection while
it waits for `c.mu` and for another one (`NestedCall`; `Nested` is the set of
operations it may call so, and a goroutine opens one of each kind at a time).
Manual use of BeginTx is the same with the application in the place of the
function. `MarkClosed` and `PoolClosed` are
the two ends of the `pool.Close()` that Close calls inside `c.mu`. A failed
Execute or Query is counted twice, as the deferred function does; the history
variables `answered` and `failures` say what happened, the metrics what was
counted. Health is a ping and a query, two connections one after the other. It is
modelled with the health check enabled; the catalogue queries are QueryRow and
Query, and the average query time is left out.

**`VersionManager`.** A version is an integer in the order of `Compare` (two
versions that Compare equal are one here). `slice[o]` is the backing array that
the component returns from SupportedVersions(), as the example components of the
package do; `Scan` reads one element a step, and `Sort`, `Move`, `Write` are the
insertion sort that `sort.Slice` runs on short slices, a swap as two writes. A
`Version` is read and written as one element: a torn read of the struct, which
the race allows, would only add values to what is found already. The set
`Sorter` says which goroutines call GetLatestVersion; it takes no lock, so any number
of them may sort one slice, and two that do can lose a version for good. The history
`contended` remembers the components to which that happened.
`overtaken` is the history of the gap in RegisterWithConstraints. A goroutine
that dereferences a missing metadata is `panicked`.

**`KafkaConsumer`.** `loop[m]` is the goroutine of ConsumeMessages in process
`m`: it waits in Consume to join (`"join"`), is in a session, has ended with its
context, or the process is down. `at[m][q]` is the ConsumeClaim of a partition,
around its `select`: take a message, call the handler, mark it, or leave.
The handler's error makes no difference to the mark, as in the code. What sarama
and the coordinator do is external, and described by what the code relies on:
sessions are cancelled when a rebalance is due, a rebalance waits for
every member it counts, marks are committed now and then and when a session ends
(which may fail), and commits of an expelled member are ignored while it goes on
handling what it has been given. `seen` (what a handler was given, whatever it
returned) and `skipped` (what AutoOffsetReset "latest", the default, jumps over
when nothing was committed yet) map the state to `KafkaDelivery`. EnableAutoCommit
is not a constant: when it is false, ToSaramaConfig leaves sarama's default, which
commits automatically too (config.go:391).

**`KafkaClient`.** `ref[k]` is the field of part `k`. The nil check of an
operation takes no lock (`Begin`), its Init function looks again under
its mutex (`Lock`), makes the part (`Open`) and stores it (`Store`). A Go
interface is two words, stored one after the other, and the unlocked reader may
find only the first: `"half"`, which is not nil and panics when it is used
(`"torn"`). Close walks through the parts in the order of the code, each pair
under its mutex; `WaitGroup` is the count of `c.wg`. Sending on a producer that is
closed, closing one twice, closing a channel twice and sending on the closed
errorChan panic (`"closed"`), and a panic ends the program. `misuse` remembers
that Close was called while another operation or another Close was under way, or
that something was called after it. All callers give one context (`ended`).
`flying` and `unread` are what the asynchronous producer holds: an answer that
is an error takes room until somebody reads it. Each caller consumes at most
once at a time. Whether sarama makes a part is external, so `Open` may fail or
succeed; ToSaramaConfig does not set Producer.Return.Successes, without which
sarama makes no synchronous producer, but that check is not in this repository.

**`DragonflyClient`.** Redis clients and configurations are numbers: 0 is
NewClient's, `i` that of the `i`-th Reload, so that "which client is open" and
"which configuration was it made with" can be asked. Start, Stop and Reload are
cut at every access to a plain field of the client, for they write `c.client`,
`c.config` and `c.connected` with no lock; `startOnce` and `stopOnce` let one
call in and make the others wait. A failed Start uses up `startOnce` and the next
one returns nil (`startFailed`, `startedNil`). `crossed` remembers that one of the
three began while another was under way: the properties say what holds until
then. A request remembers the client it was given (`hand`) and the retries it has
left; `RequestFails` draws the error types that `ShouldRetry` looks at, in any
combination, since errors are wrapped. `runHealthChecker` has a step for the probe,
one for the status and one for each counter, which take no lock.
ExecuteWithMetrics never runs the command it is given (client.go:238): it records
that it did, and so does its action. `createRedisClient` cannot fail.

**`VersionRequests` and its operators.** A string is what the parser can tell of
it: `Text` has a form (nothing, a word with or without a leading "v", a version as
`String()` spells it or otherwise), numbers and a label; a version keeps the text
it was read from, because `String()` answers with it. ParseVersion refuses
nothing: a word becomes a version 0.0.0 of that name. Slices without duplicates are
sets, and where the code's choice among equal versions depends on the order of a
slice, on an unstable sort or on the order of a Go map, an operator gives the set
of the possible answers. A request (`Serve`) goes through the middleware
(`DetectorMiddleware`, with one detector) and ProcessWithAutoVersion (with the
manager's detector, which reads the context under a key of its own), then `Get`
(a critical section of the collector), the component, and `RecordFailure`. A
refused client may ask again with the closest of the versions that the answer
lists (`Retry`); the status code, 406 even for an unknown component because
ComponentNotFoundError is never what the manager returns, plays no part. The
registry is fixed: its changes are `VersionManager`'s. The global migrators are
looked up, created and added to in three steps, since nothing locks them; what is
added to a migrator that was replaced is lost (`orphans`), and Go may abort
(`Abort`). A Migrator keeps its migrations under one string, the two versions joined
with a "-" (migration.go:304), which labels and free texts may contain: the migration
from v1.0.0 to v2.0.0-v3.0.0 has the key of the one from v1.0.0-v2.0.0 to v3.0.0. A key is
therefore the sequence of the pieces between the dashes (`MigrationKey`), and the
constant `Pieces` says how a label falls apart. AddMigration accepts every two
versions, those that differ in their label only too. `Migrate` works on maps of fields; a struct is its fields, and a
custom function is there or not. The histories `counted`, `succeeded`, `excess`,
`promised` (the last migration accepted between two versions) and `overlapped` say
what really happened.

## 3. Runs

| Run | Question | Bounds | Result |
|---|---|---|---|
| `vault_client` | do operations, writes and closes by three goroutines keep cache and Close correct? | 3 goroutines, 1 path, versions to 2, symmetry | pass |
| `vault_background` | is New right for every configuration, is the client with its goroutines still `VaultClient`, has each renewal an owner, and does everything end? | every configuration that gives no client and two that do, a caller and the monitor, version 1, 1 buffered renewal, cache off | pass |
| `version_manager` | is the registry consistent while it is changed, searched and sorted? | 2 goroutines, both may sort, 2 components of one name, 3 versions | pass |
| `postgres_client` | connections, counters, drain; do Close, operations, the monitor end unless goroutines that hold results or a transaction wait for the client? | 2 goroutines and the monitor, 1 connection, 2 calls, any of them nested | pass |
| `kafka_consumer` | is every message from the first commit on delivered, in order and not lost, and does consumption go on? | 2 processes, 1 partition, 2 messages, 1 failure, "latest" | pass |
| `kafka_client` | is each part made once and closed, is Close safe when it comes last, does it end? | 2 goroutines, 3 calls, 1 message in the producer, errorChan of 1 | pass |
| `dragonfly_client` | are the Redis clients, Start, Stop, health and metrics right while they race? | 2 goroutines, 3 calls, 2 checks, 1 retry, a good and a bad configuration, 3 latencies | pass |
| `version_requests` | is a version served, counted and migrated as it was announced? | 2 goroutines, 3 calls, 6 requests, 4 pairs of detectors, 2 components, 8 migrations (one between versions with the same numbers, two with one key), all maps of 3 fields and 2 values | pass |
| `vault_stale` | does the cache forget what was overwritten? | as `vault_client` | violated |
| `version_sort` | does Get find every supported version? | as `version_manager`, 1 sorter | violated |
| `postgres_close` | does Close return? | 2 connections, 3 calls, Execute may be nested, fair | violated |
| `kafka_close` | does Close return? | as `kafka_client`, 2 calls | violated |

**Why the bounds are enough.** The races need two goroutines and, for a second
Close or a writer behind a writer, three. Paths of the vault do not interact, so
one suffices; two versions give an old, a new and an unwritten secret. An
insertion sort of three elements has every kind of step, and two components of
one name are what Register, Unregister and RegisterWithConstraints can confuse.
With one connection every nested call that needs another is stuck and the pool's
limit bites at once; two calls are a query, batch or transaction and a call from
inside it, against a Close or a query of the other goroutine. What needs more, a
goroutine with several connections at a time, is covered by the proofs, which hold for
any number of connections and calls. Partitions of
a consumer group meet only in the session of their member, which begins and ends
as a whole, so one shows the protocol; two members give an owner and a joiner, or
an expelled owner and its successor; one failure is a crash, a broken session or
an expelled member, each against every timing of a rebalance, a commit and a stop.
With "latest" the reset may jump over messages until the group has committed
something, without any failure, so `EventuallySeen` promises a message from then on; with
`Earliest` it promises each one from the start, and passes too. For the
Kafka client two goroutines race for the first use, and three calls are a use, a
second use and a Close, or two Closes around a use. The configurations of the vault
that give no client are all there; of those that do, `MCConfigs` has one with all
goroutines and one with none, because nothing after the authentication depends on
the rest. In the Dragonfly client two goroutines and three calls are a Start against
a Stop with a Reload before or after, two Reloads against a request, and a second
Start after a failed one; a Start or Stop in its Once makes any third goroutine
wait. The requests of `version_requests` name a version in each source, in two
that disagree, or nowhere, one component's name looks like a version, and the
detectors agree or read different keys; three calls are a request with a retry
against another and a reset, or three registrations: one, its reverse, and one that
takes the key of either. `MaxVersion`, `MaxCalls`,
`MaxOffset`, `MaxChecks` and `MaxFailures` are the only bounds on behaviours; all are guards of
the actions that begin something, so what has begun always runs to its end. The runs of clients that
cannot always step (a New that failed, a goroutine that panicked, calls used up,
goroutines that wait for each other) say `CHECK_DEADLOCK FALSE`.

**What they find.**

* `vault_stale`: PutSecret and DeleteSecret remove the cache entry after the
  write, but hold `c.mu` only for reading, as GetSecret does. A GetSecret that
  read the old value stores it after the invalidation, and the old secret is
  served until it expires. `StaleOnlyByLateFill`, which is checked and proved,
  says that this is the only way.
* `version_sort`: GetLatestVersion sorts the component's own slice in place and
  unlocked; a Get that scans it in the middle of a swap misses a version that is
  supported.
* `kafka_close`: Close waits for the goroutines of ConsumeMessages and
  ConsumePartition, which watch only the context their caller gave. With the
  `context.Background()` of the package's README nothing ever ends them.
  `Ends` says that it is that context alone that Close waits for.
* Not a run of its own: a message whose handler fails is marked "as processed"
  (client.go:587) and never delivered again; `OnlyProcessedCommitted` in
  `KafkaConsumer` states what would hold if it were not. `NothingLost` and
  `Delivered` count such a message as delivered.
* `postgres_close`: Close waits in `pool.Close()` with `c.mu` locked for the
  connection of a goroutine that waits for `c.mu` in a call it made from its
  transaction's function, or with rows or batch results open. `Ends` says that this
  entanglement, and the exhaustion of the pool by the same goroutines, is the only
  cause.
* Not runs of their own, but outcomes in the models: New with the token method, which
  is the default, panics after a lookup that succeeds (`LookupSelf`); a second Start
  of the Dragonfly client after a failed one returns nil (`StartedUnlessFailed`); a
  failed Reload leaves its client open (`abandoned`); a migration registered while
  another goroutine makes the same global migrator is lost (`overlapped`); one between
  versions that differ only in their label is accepted and never found, because
  GetMigrationPath takes them for one version (migration.go:177); one whose joined key is
  that of a migration between other versions silently replaces it (`Alike`); two
  goroutines that sort one slice can lose a version (`contended`).

**Fairness.** A goroutine that can go on does (the Go scheduler is preemptive)
and a request ends: by an answer, a timeout or a broken connection. `sync.RWMutex` lets the readers
that wait in when a writer unlocks and queues writers, and pgxpool serves
waiters in turn, so a goroutine whose wait could end again and again is served in
the end: strong fairness of the steps of an operation that has begun. A `select`
picks among its ready cases at random: strong fairness of a case that is ready
again and again. Nothing obliges anyone to begin an operation, a ticker to fire,
an entry to expire, a context to end, a service to succeed, or a goroutine to
cancel; `Refused` is fair only when the pool is closed. In a consumer group the
handlers return, the coordinator notices members that have gone, cancels the
sessions in its way and completes a rebalance when all have joined, and a session
that is over gives no messages in the end; no commit has to succeed, no process
has to come back. A health check of the Dragonfly client and its requests end, by a
timeout at the latest; no check has to begin. `VersionRequests` states no fairness:
nothing in it waits. The brokers answer or refuse a message of the asynchronous
producer some time.

**Mutants.** For each property `PROJECT.json` names a definition and a changed form of
it (the operators with a comment that begins "Mutant:"), a plausible slip: a missing
closed check, an early return that keeps the lock, an error path without
Rollback, a monitor that does not take the lock. TLC finds the property violated
under the run's own configuration with the changed form in place.

## 4. Proofs

All for any number of goroutines and any value of the other constants, under the
ASSUMEs of the modules: `None` is not a value, versions are numbers, the
components declare their versions, the pool has a size, the pieces between its
dashes tell a label; the callers of the Kafka
client are finitely many.

* **`VaultClient_proofs`**. `TypeCorrect` needs `Carried`: at `fill` and
  `invalidate` a goroutine carries a version, else `Entry` could be ill-typed.
  `DrainedWhenClosed` and `EmptyAfterClose` are not inductive: `LockInv` adds
  that a goroutine is a reader exactly between EnterShared and LeaveShared, the
  writer exactly while in Close, and alone in `clear`. `StaleOnlyByLateFill`
  is inductive on its own, given types. `ClientNeverDeadlocks` follows from the
  same invariant: a reader never waits, so a goroutine that waits for `c.mu` waits
  for a Close that goes on, or for one that waits for a reader.
* **`VaultBackground_proofs`**. The refinement is by cases: a step is a step of
  `VaultClient` or leaves its variables alone. `StopInv` ties the counters of
  closed channels to `closed`: they are 0 until it is set and at most 1 after,
  when the Renewer no longer runs; it needs that nobody calls the client before
  New returns, so that Close never misses a goroutine that starts later, and it
  carries why a Renewer was started, which gives `RenewalIsOwned`.
  `CloseReachesGoroutines` says that in a closed client each goroutine that is left
  has a case of its `select` that is ready, or is in a Health whose wait is short:
  `ChannelInv` ties the goroutines to the channels that Close closes, and
  `WaitsAreShort` comes from `VaultClient` through the refinement.
* **`VersionManager_proofs`**. `TypeCorrect` is the long one, because loop
  indices and the element in a swap must be right for *any* number of
  goroutines in the same slice. `RegistrySound` joins `DomainsAgree` and
  `ConstraintsOwned`: neither is inductive without the other. `SortIsSound`
  is about any number of sorters: two that are in one slice at a time lose versions,
  and every other component keeps its own. `SortInv` says that two sorters of one slice
  have made it `contended`, so that in the others a sorter is alone, with
  the invariant of the insertion sort: the slice has its declared elements, except between the two writes of a swap, when
  one is in the temporary (`Swapped`, `HalfSwapped`), the first `i` elements
  are sorted but for the one that is moving down (`Inserted`).
  `NewestFirstIsUndisturbed` says what a component can do about it: when it declares
  its versions newest first (the example components list the oldest first), or when
  nobody calls GetLatestVersion, no number of goroutines that sort ever writes anything,
  because the inner loop of the sort ends at its first comparison (`SettledInv`). Then
  no supported version is refused (`SettledIsNeverRefused`): the violation that
  `version_sort` finds needs both an order that is not the sorted one and a caller of
  GetLatestVersion. That hypothesis is what the theorem adds to the run's property;
  without it the property is false.
  Without any hypothesis the races can lose versions but make none up
  (`AnswersAreAlwaysSupported`): every element of a slice and of every swap in progress
  is a declared one (`DeclaredInv`), so what Get or GetLatestVersion answers is
  supported, however many goroutines sort.
* **`PostgresClient_proofs`**. `TypeCorrect` contains the pool's limit, from
  facts on finite sets. `CloseDrains` needs that an operation at work is a
  reader (`ReadersInv`), `NoConnectionLost` needs `HoldersInv`, which says at
  each label who holds what, and that no operation finds the place of its results taken.
  `BooksBalance` is about sums over goroutines: `CountInv` says that the metrics are what was answered plus
  what is under way; a step moves at most one goroutine between the classes that are
  counted (`OneMoves`, `Recount`), so each cardinality changes by at most one.
  `OnlyHoldersEntangle` is the safety part of `Ends` and the other half of what
  `postgres_close` finds: whenever somebody waits, for `c.mu`, for a connection or in
  `pool.Close()`, somebody goes on, unless one of those that wait made its call with
  results or a transaction open. `LockInv` says who may hold what while waiting,
  `NestsInv` that such a call is one of the `Nested` ones: where the application makes
  none, nobody is ever stuck.
* **`KafkaConsumer_proofs`**. Nothing is lost because everything
  below what a claim has taken or marked, and below what is committed, has been
  seen or skipped (`SeenInv`, with `Upto`). That committed messages
  are not handled again by a counted member needs `OwnerInv`: at most one counted
  member has a claim on a partition (`Exclusive`) and its position and marks are
  ahead of the committed offset (`Ahead`); an expelled one may keep its claim.
  `ConsumerImplementsDelivery` maps each step to a step of `KafkaDelivery` or a
  stutter, for any number of members, partitions and failures. `DeliveredInOrder` and
  `CommitsNeverMoveBack` are proved of `KafkaDelivery`, where they are short, and
  hold of the group because it implements it. `OneOwner` states `Exclusive` by itself.
* **`KafkaClient_proofs`**. `MadeOnce` needs who owns the mutexes when
  (`MutexInv`) and that a part is still nil while its maker is under way
  (`MadeInv`). For a Close that comes last, `OrderInv`: the other callers are
  idle, only what Close has passed is closed, and behind `wg.Wait` the handler of
  errors has gone; `ShutInv`: what Close has passed is closed, once, or was never
  made. The goroutines that consume may still run. `ClientNeverDeadlocks`: the owner
  of a mutex never waits (`OwnedInv` names the owner, and the writer of half an
  interface), ProduceAsync waits for an answer that is on its way or an error that the
  handler will read, and `wg.Wait` for goroutines that a Close has told to end or that
  are their callers' (`HandlerInv`).
* **`DragonflyClient_proofs`**. `HealthAgreesAlways` needs what the counters are
  at each label of the health checker, which alone writes them. `SnapshotIsSound`
  needs `LatencyInv`, the total of the latencies against the least and the greatest of
  them times the count, and a lemma on quotients. For
  `LifecycleIsSound`: who is inside `startOnce` and `stopOnce`, and that until the
  first overlap the goroutines of the client belong to a Start that is over.
  `ClientsAlwaysAccounted` needs the numbering of the Reloads, so that the client
  a Reload puts back or closes is not another's. `ClientNeverDeadlocks` assumes
  nothing about overlaps: whoever waits for a Once waits for a caller inside it
  (`OnceInv`), a Start does not wait and a Stop only for the goroutines of the client,
  which `shutdown` reaches in every state.
* **`VersionRequests_proofs`**. The laws of the version algebra for all versions
  (`CompareIsOrder`, `UpgradesPartition`, `RangeHasNoHoles`, `PrintedIsReadBack`,
  `ClosestIsAvailable`, and so on), cited by the invariants: `AnnouncedIsAlwaysServed`
  rests on the middleware and the manager finding the same version in one context,
  `RetryIsAlwaysAccepted` on `ClosestIsAvailable` and `PrintedIsReadBack`.
  `UsageIsAlwaysAccounted` is inductive with who is counted where;
  `MigrationsAreAlwaysKept` with which goroutines hold a migrator that is in the map
  and that what is stored under the key of a promise was promised under that key
  (`MigrationInv`); it assumes nothing of the versions and their labels.
  `RoundTripRestores` applies `ReverseRestores` to the migrations that share neither of
  their keys. `PlainKeysDiffer` says who need not fear for theirs: versions without a
  label share a key only with themselves. `ErrorRateIsExplained` is about the sums of
  GetUsageStats, which are folds. The library's induction theorems take an operator and
  cannot be used, but a set of numbers can stand for the operator: `Induction` says that
  a set of naturals with 0 and the successor of each member is all of them, from the
  least element of its complement. With it `TotalsExist` and `TotalsAgree` say that the
  fold is the one function with its recursive equation, whatever order it takes, and
  `SumWithout`, `SumsCompare` and `SumHasExtremes` are the facts the invariant needs:
  removing an entry, comparing two sums term by term, a sum that is not zero having a
  greatest and a least entry. Only finitely many entries are ever made (`FiniteInv`).

Every safety invariant that a passing run checks is now a theorem, and so is every
refinement.

**Waiting.** The five theorems on deadlock are what liveness owes to safety. Each
names, in a predicate `Waiting` or `WaitsFor...`, the guards at which an operation
can be stopped, because ENABLED itself is out of the prover's reach; TLC found on the
instances of the runs that an operation that has begun and is not `Waiting` has a step
enabled, and the other way round. What they leave to TLC is fairness: that
who goes on is also scheduled, and that a wait that could end again and again does.

**Only model-checked**: the liveness properties, `Ends` of four components and
`EventuallySeen` of the consumer group; fairness and leads-to are out of the prover's
reach.

## 5. Not modelled, and why

* *Vault*: ToAPIConfig beyond that it may fail, Clone, the With functions and the
  presets copy fields; GetToken and GetAuthInfo return them. `helper.go` and the
  error types have no state.
* *Version*: the compatibility matrix, VersionRange.String and the builders of
  requests and responses format; the error constructors decide nothing but a status
  code; the copies that the collector hands out are read-only, and
  GetAllUsageStats computes GetUsageStats for names it has read before. A component that
  panics in Process is not modelled: its request stays counted, with neither a success
  nor an error.
* *Dragonfly*: Metrics.Reset, the connection, pipeline and error-type counters and
  HealthChecker.Reset are called by nothing in the repository; the parsing of INFO
  feeds log lines and the answer of a detailed health check; presets, key builders and
  batch helpers hold no state. The option to change from a single server to a cluster
  in a Reload is one more configuration. A HealthCheckInterval of zero passes Validate
  and panics in NewTicker, as in the vault client; in the model the interval is
  positive.
* *PostgreSQL and Kafka configurations*: field validation, defaults and conversions,
  but for what the clients decide by.
* *Configuration loader*: LoadInto and WatchAndReload are a sequence of calls of viper.
  What happens between them (a change before the callback is set, a removed
  file that ends the watch, a callback after the context is done, since viper cannot
  be told to stop) is viper's, and a model of it would be of code that is not
  here.
* *otel*: New builds SDK objects one after the other and, when a later one fails,
  leaves the earlier ones running without a way to reach them; Shutdown calls theirs
  in turn. Queues, batching and the outcome of a second shutdown are the SDK's.
* *logger* builds a zap logger; its lazy global is an unsynchronised pointer.
* *API definitions*: validation of single fields and predicates on one definition,
  which nothing here calls. (MatchesRequest never lets the domain decide.)
* *Commands* wire packages that are not in the repository.

## 6. Plan

1. The changing registry of `VersionManager` under the requests of `VersionRequests`.
2. The configuration loader against a specification of viper's watch, if the
   repository comes to rely on its order of events.

No recursive operator is used in any module.
