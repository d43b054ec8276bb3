--------------------------- MODULE VersionRequests ---------------------------
(***************************************************************************)
(* Requests for versions of components, from the detector middleware to    *)
(* the metrics, and the global migrators (pkg/version): goroutines serve   *)
(* requests and retry refused ones, reset the metrics and register         *)
(* migrations.                                                             *)
(*                                                                         *)
(* The registry is fixed here (VersionManager is about its changes): the   *)
(* components that are registered and the versions they support.  Each     *)
(* critical section of the collector is one step, and so is each access to *)
(* a map of the migrators, which have no lock.                             *)
(***************************************************************************)
EXTENDS VersionDetector, VersionMetrics, Migrator

CONSTANTS
  Caller,     \* the goroutines
  Supported,  \* the versions each registered component supports
  Detectors,  \* pairs of a middleware's detector and a manager's
  Requests,   \* the requests that clients send
  Migrations, \* the migrations that are registered, with their components
  Fields,     \* the maps that are migrated
  MaxCalls    \* bound: calls of all goroutines together

ASSUME RegistryAssumption ==
  /\ DOMAIN Supported \subseteq Text \ {NoText}
  /\ \A c \in DOMAIN Supported :
       /\ Supported[c] \subseteq Version
       /\ \A v \in Supported[c] : IsReadable(v)
ASSUME RequestAssumption ==
  /\ "api_version" \in ContextKey
  /\ Detectors \subseteq [middleware : Detector, manager : Detector]
  /\ Requests \subseteq Request
  /\ MaxCalls \in Nat
ASSUME MigrationAssumption ==
  /\ Migrations \subseteq [component : Text, migration : VersionMigration]
  /\ \A fields \in Fields : fields \in [DOMAIN fields -> Value] /\ DOMAIN fields \subseteq Field
  /\ \A value \in Value : Printed(value) \in Value
  /\ Nil \notin Value

VARIABLES
  detectors,  \* the detectors of the middleware and of the manager
  metrics,    \* the manager's metrics collector
  global,     \* GlobalMigrators: the migrations of each component with a migrator
  pc,         \* where each goroutine is
  local,      \* its request, what was detected of it, or its migration
  calls,      \* number of calls so far
  counted,    \* history: goroutines whose request is in the metrics
  succeeded,  \* history: requests in the metrics that ended well
  excess,     \* history: errors in the metrics without a request there
  orphans,    \* history: goroutines whose migrator was replaced
  promised,   \* history: the migrations of each component, by the versions they are between
  overlapped  \* history: components two goroutines made a migrator for

usage == <<metrics, counted, succeeded, excess>>
migrators == <<global, orphans, promised, overlapped>>
vars == <<detectors, usage, migrators, pc, local, calls>>

PC == {"idle", "get", "process", "failing", "refusing", "refused", "create", "add", "aborted"}
Local == [request : Request, announced : Text, component : Text, version : Version, retried : BOOLEAN]
NoLocal == [request |-> NoRequest, announced |-> NoText, component |-> NoText, version |-> Zero,
            retried |-> FALSE]
Registration == [component : Text, migration : VersionMigration]

Init ==
  /\ detectors \in Detectors
  /\ metrics = NoMetrics
  /\ global = <<>>
  /\ pc = [p \in Caller |-> "idle"]
  /\ local = [p \in Caller |-> NoLocal]
  /\ calls = 0
  /\ counted = {} /\ succeeded = <<>> /\ excess = <<>>
  /\ orphans = {} /\ promised = <<>> /\ overlapped = {}

Goto(p, label) == pc' = [pc EXCEPT ![p] = label]
Return(p) == Goto(p, "idle") /\ local' = [local EXCEPT ![p] = NoLocal]
Call(p) == pc[p] = "idle" /\ calls < MaxCalls /\ calls' = calls + 1

-----------------------------------------------------------------------------
\* The middleware detects and announces a version and puts it in the context,
\* where the manager's ProcessWithAutoVersion looks for it.
Enter(p, r, retried) ==
  LET next == DetectorMiddleware(detectors.middleware, r) IN
  /\ local' = [local EXCEPT ![p] =
       [request |-> r, announced |-> next.apiVersion, component |-> ExtractComponentFromPath(r),
        version |-> DetectFromContext(detectors.manager, next.context).version, retried |-> retried]]
  /\ Goto(p, "get")

Serve(p) ==
  /\ Call(p)
  /\ \E r \in Requests : Enter(p, r, FALSE)
  /\ UNCHANGED <<detectors, usage, migrators>>

IsSupported(c, v) == c \in DOMAIN Supported /\ \E w \in Supported[c] : IsSameVersion(w, v)
Recorded(p) == <<local[p].component, String(local[p].version)>>

\* Manager.Get: a request is counted when the component supports the version.
Get(p) ==
  LET c == local[p].component
      v == local[p].version
  IN
  /\ pc[p] = "get"
  /\ IF IsSupported(c, v)
       THEN /\ metrics' = RecordRequest(metrics, c, String(v))
            /\ counted' = counted \cup {p}
            /\ Goto(p, "process")
       ELSE /\ Goto(p, "refusing")
            /\ UNCHANGED <<metrics, counted>>
  /\ UNCHANGED <<detectors, migrators, local, calls, succeeded, excess>>

\* The component's ProcessVersioned answers.
ProcessSucceeds(p) ==
  /\ pc[p] = "process"
  /\ succeeded' = IF p \in counted THEN Increment(succeeded, Recorded(p)) ELSE succeeded
  /\ counted' = counted \ {p}
  /\ Return(p)
  /\ UNCHANGED <<detectors, migrators, calls, metrics, excess>>

ProcessFails(p) ==
  /\ pc[p] = "process"
  /\ Goto(p, "failing")
  /\ UNCHANGED <<detectors, usage, migrators, local, calls>>

\* Both errors of ProcessVersioned are recorded, that of Get without a request.
RecordFailure(p) ==
  /\ pc[p] \in {"failing", "refusing"}
  /\ metrics' = RecordError(metrics, local[p].component, String(local[p].version))
  /\ excess' = IF p \in counted THEN excess ELSE Increment(excess, Recorded(p))
  /\ counted' = counted \ {p}
  /\ IF pc[p] = "refusing"
       THEN Goto(p, "refused") /\ UNCHANGED local
       ELSE Return(p)
  /\ UNCHANGED <<detectors, migrators, calls, succeeded>>

\* The client of a refused request reads the supported versions in the answer
\* and asks for the closest one in the API-Version header.
Retry(p) ==
  LET c == local[p].component IN
  /\ pc[p] = "refused"
  /\ c \in DOMAIN Supported
  /\ ~ local[p].retried
  /\ \E v \in FindClosestVersion(local[p].version, ParseVersionSlice(VersionStringSlice(Supported[c]))) :
       Enter(p, AskFor(String(v), c), TRUE)
  /\ UNCHANGED <<detectors, usage, migrators, calls>>

GiveUp(p) ==
  /\ pc[p] = "refused"
  /\ Return(p)
  /\ UNCHANGED <<detectors, usage, migrators, calls>>

Of(counters, c) == {k \in DOMAIN counters : k[1] = c}

Reset(p) ==
  /\ Call(p)
  /\ metrics' = NoMetrics
  /\ counted' = {} /\ succeeded' = <<>> /\ excess' = <<>>
  /\ UNCHANGED <<detectors, migrators, pc, local>>

ResetOne(p) ==
  /\ Call(p)
  /\ \E c \in DOMAIN metrics :
       /\ metrics' = ResetComponent(metrics, c)
       /\ counted' = {q \in counted : local[q].component # c}
       /\ succeeded' = Restrict(succeeded, DOMAIN succeeded \ Of(succeeded, c))
       /\ excess' = Restrict(excess, DOMAIN excess \ Of(excess, c))
  /\ UNCHANGED <<detectors, migrators, pc, local>>

-----------------------------------------------------------------------------
\* RegisterGlobalMigration: GetGlobalMigrator looks the component up, without a
\* lock.
LookUp(p) ==
  /\ Call(p)
  /\ \E m \in Migrations :
       /\ local' = [local EXCEPT ![p] = m]
       /\ Goto(p, IF m.component \in DOMAIN global THEN "add" ELSE "create")
  /\ UNCHANGED <<detectors, usage, migrators>>

\* A migrator that another goroutine has made meanwhile is replaced, and what
\* is added to it is lost.
Create(p) ==
  LET c == local[p].component IN
  /\ pc[p] = "create"
  /\ global' = Put(global, c, <<>>)
  /\ IF c \in DOMAIN global
       THEN /\ overlapped' = overlapped \cup {c}
            /\ orphans' = orphans \cup {q \in Caller : pc[q] = "add" /\ local[q].component = c}
       ELSE UNCHANGED <<overlapped, orphans>>
  /\ Goto(p, "add")
  /\ UNCHANGED <<detectors, usage, local, calls, promised>>

\* What AddMigration says: "adds a migration between two versions", and the
\* reverse of a reversible one.
Between(migration) == <<String(migration.fromVersion), String(migration.toVersion)>>
Promise(known, migration) ==
  LET added == Put(known, Between(migration), migration)
      reverse == Reverse(migration)
  IN IF migration.reversible THEN Put(added, Between(reverse), reverse) ELSE added
PromisedTo(c) == IF c \in DOMAIN promised THEN promised[c] ELSE <<>>

Add(p) ==
  LET c == local[p].component
      migration == local[p].migration
  IN
  /\ pc[p] = "add"
  /\ global' = IF p \in orphans THEN global
                                ELSE [global EXCEPT ![c] = AddMigration(@, migration)]
  /\ promised' = Put(promised, c, Promise(PromisedTo(c), migration))
  /\ orphans' = orphans \ {p}
  /\ Return(p)
  /\ UNCHANGED <<detectors, usage, calls, overlapped>>

\* Go ends the process when it notices that two goroutines use a map at a time
\* and one of them writes; an idle goroutine may be reading any of the maps.
Abort(p) ==
  /\ pc[p] \in {"create", "add"}
  /\ \E q \in Caller \ {p} : pc[q] \in {"idle", pc[p]}
  /\ pc' = [q \in Caller |-> "aborted"]
  /\ UNCHANGED <<detectors, usage, migrators, local, calls>>

-----------------------------------------------------------------------------
Next ==
  \E p \in Caller :
    \/ Serve(p) \/ Get(p) \/ ProcessSucceeds(p) \/ ProcessFails(p) \/ RecordFailure(p)
    \/ Retry(p) \/ GiveUp(p) \/ Reset(p) \/ ResetOne(p)
    \/ LookUp(p) \/ Create(p) \/ Add(p) \/ Abort(p)

Spec == Init /\ [][Next]_vars

-----------------------------------------------------------------------------
Serving == {"get", "process", "failing", "refusing", "refused"}
Registering == {"create", "add"}

\* Every variable has its type; the metrics count only requests that were made.
TypeOK ==
  /\ detectors \in Detectors
  /\ IsMetrics(metrics, Text, Text)
  /\ pc \in [Caller -> PC] /\ DOMAIN local = Caller
  /\ \A p \in Caller :
       /\ pc[p] \in Serving => local[p] \in Local
       /\ pc[p] \in Registering => local[p] \in Migrations
       /\ p \in orphans => pc[p] = "add" \/ pc[p] = "aborted"
  /\ calls \in 0 .. MaxCalls
  /\ counted \subseteq {p \in Caller : pc[p] \in {"process", "failing", "aborted"}}
  /\ IsCounters(succeeded, Text \X Text) /\ IsCounters(excess, Text \X Text)
  /\ overlapped \subseteq DOMAIN global

\* The version the response announces is the one that is looked up, counted and
\* handed to the component, and the one CreateDebugInfo reports on, whichever of
\* the sources it came from and whatever the two detectors are, as long as the
\* manager reads the key the middleware writes and a version was detected.
AnnouncedIsServed ==
  \A p \in Caller : pc[p] \in Serving =>
    LET d == detectors.middleware
        detected == DetectFromHTTPRequest(d, local[p].request).version
        debug == CreateDebugInfo(d, local[p].request, Supported[local[p].component])
    IN
    detectors.manager.contextKey = "api_version" /\ ~ IsZero(detected) =>
      /\ local[p].announced = String(local[p].version)
      /\ pc[p] \in {"process", "failing"} => debug.isSupported
      /\ pc[p] \in {"refusing", "refused"} /\ local[p].component \in DOMAIN Supported => ~ debug.isSupported

\* A client that follows a refusal is served: the supported versions it reads in
\* the answer, the closest of them, and the header it sends that version in lead
\* to a version the component supports.
RetryAccepted ==
  \A p \in Caller :
    /\ pc[p] = "refusing" /\ local[p].retried
    /\ detectors.manager.contextKey = "api_version"
    /\ \E i \in DOMAIN detectors.middleware.enabledMethods :
         detectors.middleware.enabledMethods[i] = "API-Version Header"
    => Supported[local[p].component] = {}

InProgress(c, spelling) == {p \in counted : Recorded(p) = <<c, spelling>>}

\* Whatever is reset while requests are under way: each request in the metrics
\* has ended well, is in progress or is answered for by an error, and the errors
\* that are left over had no request there.
UsageAccounted ==
  \A c \in DOMAIN metrics :
    LET requests == metrics[c].requests
        errors == metrics[c].errors
    IN
    \A s \in DOMAIN requests \cup DOMAIN errors :
      Tally(requests, s) + Tally(excess, <<c, s>>) =
        Tally(succeeded, <<c, s>>) + Tally(errors, s) + Cardinality(InProgress(c, s))

\* An error rate above one means requests that were refused or that a reset took
\* out of the metrics, and nothing else.
ErrorRateExplained ==
  \A c \in DOMAIN metrics :
    LET stats == GetUsageStats(metrics, c) IN
    /\ stats.totalErrors <= stats.totalRequests + SumFunctionOnSet(excess, Of(excess, c))
    /\ stats.totalRequests + stats.totalErrors > 0
    /\ stats.totalRequests > 0 => stats.mostUsed # {} /\ stats.leastUsed # {}

\* Promises under the key of this migration, which is theirs too.
Alike(c, migration) ==
  {promised[c][pair] : pair \in {q \in DOMAIN promised[c] : KeyOf(promised[c][q]) = KeyOf(migration)}}

\* A migration that RegisterGlobalMigration has accepted is found, and so is the
\* reverse of a reversible one, with three exceptions: versions with the same
\* numbers, a registration with the same key since, for the same versions or for
\* others that are spelled alike, and overlapped first uses of the migrator.
MigrationsKept ==
  \A c \in DOMAIN promised \ overlapped :
    \A pair \in DOMAIN promised[c] :
      LET m == promised[c][pair] IN
      ~ IsSameVersion(m.fromVersion, m.toVersion) =>
        \E n \in Alike(c, m) : GetMigrationPath(global[c], m.fromVersion, m.toVersion) = <<n>>

\* What a reverse can undo: one field to one field and back, no transformation
\* that changes a value, no default and no field in the way.
OneToOne(mappings, fields) ==
  /\ \A i, j \in DOMAIN mappings : i # j =>
       mappings[i].fromField # mappings[j].fromField /\ mappings[i].toField # mappings[j].toField
  /\ \A i \in DOMAIN mappings :
       /\ mappings[i].toField \notin Unmapped(mappings, fields)
       /\ IF mappings[i].fromField \in DOMAIN fields
            THEN Written(mappings[i], fields) = fields[mappings[i].fromField]
            ELSE mappings[i].defaultValue = Nil

\* Migrating there and back gives the input again, for a reversible migration
\* with field mappings between versions with different numbers, whose reverse was
\* not registered since and which shares neither of its keys.
RoundTrip ==
  \A c \in DOMAIN promised \ overlapped :
    \A pair \in DOMAIN promised[c], fields \in Fields :
      LET m == promised[c][pair]
          input == Input("map", fields)
          there == Migrate(global[c], m.fromVersion, m.toVersion, input)
          back == Migrate(global[c], m.toVersion, m.fromVersion, there)
      IN
      /\ m.reversible /\ m.strategy \in {"automatic", "fallback"}
      /\ ~ IsSameVersion(m.fromVersion, m.toVersion)
      /\ Alike(c, m) = {m} /\ Alike(c, Reverse(m)) = {Reverse(m)}
      /\ OneToOne(m.fieldMappings, fields)
      => there = Failure \/ back = input
=============================================================================
