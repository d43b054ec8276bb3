---------------------------- MODULE VaultClient ----------------------------
(***************************************************************************)
(* The secret operations of pkg/vault: GetSecret, PutSecret, DeleteSecret, *)
(* ListSecrets, Health/IsSealed and Close, called by any number of         *)
(* goroutines, with the secret cache, the client's RWMutex c.mu and the    *)
(* closed flag.  A secret's payload is its version: every write that       *)
(* reaches the Vault server gives the path a new one.                      *)
(*                                                                         *)
(* The calls to the server are unreliable: a reply may be lost after the   *)
(* write was applied, and a write whose call was given up (context         *)
(* cancelled, timeout) may still be applied later.                         *)
(*                                                                         *)
(* checkRateLimit, which GetSecret, PutSecret, DeleteSecret and            *)
(* ListSecrets call first, either waits (a delay before Begin) or makes    *)
(* the operation return before it has touched any state (no step).         *)
(***************************************************************************)
EXTENDS Integers

CONSTANTS
  Caller,        \* the goroutines that share the client
  Path,          \* the paths of the secrets
  MaxVersion,    \* bound: the number of writes per path
  EnableCache,   \* config.EnableCache
  None           \* no goroutine

ASSUME CallerAssumption == None \notin Caller
ASSUME VersionAssumption == MaxVersion \in Nat
ASSUME CacheAssumption == EnableCache \in BOOLEAN

VARIABLES
  server,        \* the Vault server: version of each path, and whether it exists
  delayed,       \* writes given up by their caller, still to reach the server
  cache,         \* c.cache
  closed,        \* c.closed
  readers,       \* c.mu: goroutines inside RLock/RUnlock
  writer,        \* c.mu: goroutine inside Lock/Unlock, or waiting in Lock
  pc,            \* where each goroutine is in its current operation
  op,            \* the operation and the path it was called with
  got,           \* version the current operation read from or gave to the server
  acked,         \* history: newest version whose write has invalidated the cache
  late           \* history: paths whose entry was filled after a newer write was acked

vars == <<server, delayed, cache, closed, readers, writer, pc, op, got, acked, late>>
lockVars == <<readers, writer>>
historyVars == <<acked, late>>

mu == INSTANCE RWMutex

Version == 0 .. MaxVersion
NoVersion == -1
NoEntry == [version |-> NoVersion, fresh |-> FALSE]
Entry == [version : Version, fresh : BOOLEAN]

\* "status" is Health and IsSealed; they and "list" use neither cache nor path.
Kind == {"get", "put", "delete", "list", "status", "close"}
WriteKind == {"put", "delete"}
Call == [kind : Kind, path : Path]
NoCall == [kind |-> "none", path |-> None]

\* Where a goroutine holds the read lock of c.mu, and where it has passed the
\* closed check under it.
Working == {"request", "fill", "invalidate"}
Reading == Working \cup {"release"}
Closing == {"drain", "clear"}
Label == {"idle", "lookup", "rlock", "lock"} \cup Reading \cup Closing

NewestOf(a, b) == IF a >= b THEN a ELSE b

Init ==
  /\ server = [s \in Path |-> [version |-> 0, live |-> FALSE]]
  /\ delayed = {}
  /\ cache = [s \in Path |-> NoEntry]
  /\ closed = FALSE
  /\ mu!Init
  /\ pc = [p \in Caller |-> "idle"]
  /\ op = [p \in Caller |-> NoCall]
  /\ got = [p \in Caller |-> NoVersion]
  /\ acked = [s \in Path |-> 0]
  /\ late = {}

Goto(p, label) == pc' = [pc EXCEPT ![p] = label]

At(p, label, kinds) ==
  /\ pc[p] = label
  /\ op[p].kind \in kinds

\* The operation returns and its local variables are gone.
Return(p) ==
  /\ Goto(p, "idle")
  /\ op' = [op EXCEPT ![p] = NoCall]
  /\ got' = [got EXCEPT ![p] = NoVersion]

-----------------------------------------------------------------------------
\* A goroutine calls an operation of the client.
Begin(p) ==
  /\ pc[p] = "idle"
  /\ \E k \in Kind, s \in Path :
       /\ op' = [op EXCEPT ![p] = [kind |-> k, path |-> s]]
       /\ Goto(p, CASE k = "get" /\ EnableCache -> "lookup"
                    [] k = "close"              -> "lock"
                    [] OTHER                    -> "rlock")
  /\ UNCHANGED <<server, delayed, cache, closed, lockVars, got, historyVars>>

\* GetSecret asks the cache before it takes c.mu: a fresh entry is returned
\* whatever the state of the client.
HitCache(p) ==
  /\ pc[p] = "lookup"
  /\ cache[op[p].path].fresh
  /\ Return(p)
  /\ UNCHANGED <<server, delayed, cache, closed, lockVars, historyVars>>

MissCache(p) ==
  /\ pc[p] = "lookup"
  /\ ~cache[op[p].path].fresh
  /\ Goto(p, "rlock")
  /\ UNCHANGED <<server, delayed, cache, closed, lockVars, op, got, historyVars>>

\* Mutant: the read path forgets the closed check.
EnterSharedUnchecked(p) ==
  /\ pc[p] = "rlock"
  /\ mu!RLock(p)
  /\ Goto(p, "request")
  /\ UNCHANGED <<server, delayed, cache, closed, op, got, historyVars>>

\* c.mu.RLock() and the closed check it protects.
EnterShared(p) ==
  /\ pc[p] = "rlock"
  /\ mu!RLock(p)
  /\ Goto(p, IF closed THEN "release" ELSE "request")
  /\ UNCHANGED <<server, delayed, cache, closed, op, got, historyVars>>

\* Mutant: no "secret == nil" return, an absent secret is cached.
ReadServerNoNilCheck(p) ==
  LET found == server[op[p].path] IN
  /\ At(p, "request", {"get"})
  /\ got' = [got EXCEPT ![p] = IF found.live THEN found.version ELSE NoVersion]
  /\ Goto(p, IF EnableCache THEN "fill" ELSE "release")
  /\ UNCHANGED <<server, delayed, cache, closed, lockVars, op, historyVars>>

\* ReadWithContext: an error or a secret that does not exist ends the call.
ReadServer(p) ==
  /\ At(p, "request", {"get"})
  /\ \/ /\ Goto(p, "release")
        /\ UNCHANGED got
     \/ /\ server[op[p].path].live
        /\ got' = [got EXCEPT ![p] = server[op[p].path].version]
        /\ Goto(p, IF EnableCache THEN "fill" ELSE "release")
  /\ UNCHANGED <<server, delayed, cache, closed, lockVars, op, historyVars>>

\* setCachedSecret.
FillCache(p) ==
  LET s == op[p].path IN
  /\ pc[p] = "fill"
  /\ cache' = [cache EXCEPT ![s] = [version |-> got[p], fresh |-> TRUE]]
  /\ late' = IF got[p] < acked[s] THEN late \cup {s} ELSE late \ {s}
  /\ Goto(p, "release")
  /\ UNCHANGED <<server, delayed, closed, lockVars, op, got, acked>>

Applied(kind, s) ==
  [server EXCEPT ![s] = [version |-> @.version + 1, live |-> (kind = "put")]]

\* WriteWithContext or DeleteWithContext when the server applies the write;
\* the caller sees success, or an error because the reply is lost.
WriteServer(p) ==
  LET s == op[p].path IN
  /\ At(p, "request", WriteKind)
  /\ server[s].version < MaxVersion
  /\ server' = Applied(op[p].kind, s)
  /\ got' = [got EXCEPT ![p] = server[s].version + 1]
  /\ \/ Goto(p, IF EnableCache THEN "invalidate" ELSE "release")
     \/ Goto(p, "release")
  /\ UNCHANGED <<delayed, cache, closed, lockVars, op, historyVars>>

\* The call fails before the server has applied the write; the request may be
\* lost or still on its way.
WriteFails(p) ==
  /\ At(p, "request", WriteKind)
  /\ delayed' \in {delayed, delayed \cup {op[p]}}
  /\ Goto(p, "release")
  /\ UNCHANGED <<server, cache, closed, lockVars, op, got, historyVars>>

\* Mutant: a write leaves the cached entry where it is.
InvalidateNothing(p) ==
  LET s == op[p].path IN
  /\ pc[p] = "invalidate"
  /\ acked' = [acked EXCEPT ![s] = NewestOf(@, got[p])]
  /\ Goto(p, "release")
  /\ UNCHANGED <<server, delayed, cache, closed, lockVars, op, got, late>>

\* invalidateCachedSecret, reached only when the write returned no error.
Invalidate(p) ==
  LET s == op[p].path IN
  /\ pc[p] = "invalidate"
  /\ cache' = [cache EXCEPT ![s] = NoEntry]
  /\ acked' = [acked EXCEPT ![s] = NewestOf(@, got[p])]
  /\ late' = late \ {s}
  /\ Goto(p, "release")
  /\ UNCHANGED <<server, delayed, closed, lockVars, op, got>>

\* ListSecrets, Health and IsSealed: one request that changes nothing here.
QueryServer(p) ==
  /\ At(p, "request", {"list", "status"})
  /\ Goto(p, "release")
  /\ UNCHANGED <<server, delayed, cache, closed, lockVars, op, got, historyVars>>

\* The deferred c.mu.RUnlock() and the return.
LeaveShared(p) ==
  /\ pc[p] = "release"
  /\ mu!RUnlock(p)
  /\ Return(p)
  /\ UNCHANGED <<server, delayed, cache, closed, historyVars>>

-----------------------------------------------------------------------------
\* Close: c.mu.Lock() announces the writer and waits for the readers.
AnnounceClose(p) ==
  /\ pc[p] = "lock"
  /\ mu!Announce(p)
  /\ Goto(p, "drain")
  /\ UNCHANGED <<server, delayed, cache, closed, op, got, historyVars>>

\* Mutant: Close sets closed without waiting for the readers.
MarkClosedEarly(p) ==
  /\ pc[p] = "drain"
  /\ ~closed
  /\ closed' = TRUE
  /\ Goto(p, "clear")
  /\ UNCHANGED <<server, delayed, cache, lockVars, op, got, historyVars>>

\* The lock is held: a second Close returns, the first one sets closed.
MarkClosed(p) ==
  /\ pc[p] = "drain"
  /\ mu!Holds(p)
  /\ ~closed
  /\ closed' = TRUE
  /\ Goto(p, "clear")
  /\ UNCHANGED <<server, delayed, cache, lockVars, op, got, historyVars>>

AlreadyClosed(p) ==
  /\ pc[p] = "drain"
  /\ closed
  /\ mu!Unlock(p)
  /\ Return(p)
  /\ UNCHANGED <<server, delayed, cache, closed, historyVars>>

\* The cache is replaced under cacheMutex, then the deferred Unlock runs.
ClearCache(p) ==
  /\ pc[p] = "clear"
  /\ cache' = [s \in Path |-> NoEntry]
  /\ late' = {}
  /\ mu!Unlock(p)
  /\ Return(p)
  /\ UNCHANGED <<server, delayed, closed, acked>>

-----------------------------------------------------------------------------
\* CacheTTL passes: getCachedSecret no longer returns the entry, which stays
\* in the map until it is overwritten, invalidated or cleared.
Expire(s) ==
  /\ cache[s].fresh
  /\ cache' = [cache EXCEPT ![s].fresh = FALSE]
  /\ UNCHANGED <<server, delayed, closed, lockVars, pc, op, got, historyVars>>

\* A delayed write reaches the server at last.
DelayedWrite(w) ==
  /\ server[w.path].version < MaxVersion
  /\ delayed' = delayed \ {w}
  /\ server' = Applied(w.kind, w.path)
  /\ UNCHANGED <<cache, closed, lockVars, pc, op, got, historyVars>>

Request(p) ==
  ReadServer(p) \/ WriteServer(p) \/ WriteFails(p) \/ QueryServer(p)

\* The steps of an operation that has begun.
Continue(p) ==
  \/ HitCache(p) \/ MissCache(p) \/ EnterShared(p) \/ Request(p)
  \/ FillCache(p) \/ Invalidate(p) \/ LeaveShared(p)
  \/ AnnounceClose(p) \/ MarkClosed(p) \/ AlreadyClosed(p) \/ ClearCache(p)

Environment ==
  \/ \E s \in Path : Expire(s)
  \/ \E w \in delayed : DelayedWrite(w)

Next ==
  \/ \E p \in Caller : Begin(p) \/ Continue(p)
  \/ Environment

Spec == Init /\ [][Next]_vars

-----------------------------------------------------------------------------
\* Every variable has its type; in particular the cache never holds an entry
\* for a secret the server has not returned (GetSecret leaves on a nil secret
\* before setCachedSecret).
TypeOK ==
  /\ server \in [Path -> [version : Version, live : BOOLEAN]]
  /\ delayed \subseteq Call
  /\ cache \in [Path -> Entry \cup {NoEntry}]
  /\ closed \in BOOLEAN
  /\ readers \subseteq Caller
  /\ writer \in Caller \cup {None}
  /\ pc \in [Caller -> Label]
  /\ op \in [Caller -> Call \cup {NoCall}]
  /\ got \in [Caller -> Version \cup {NoVersion}]
  /\ acked \in [Path -> Version]
  /\ late \subseteq Path

(***************************************************************************)
(* A goroutine runs on and a request ends (the API client has a timeout).  *)
(* A goroutine that waits for c.mu is served in its turn, although it may  *)
(* be blocked again and again before: Unlock lets the readers that wait    *)
(* in, and writers queue on a fair mutex.  Nobody has to start an          *)
(* operation, no entry has to expire.                                      *)
(***************************************************************************)
Fairness == \A p \in Caller : SF_vars(Continue(p))

FairSpec == Spec /\ Fairness

-----------------------------------------------------------------------------
\* Close drains: when it has set closed, no goroutine is between its own closed
\* check and its return, so the client has no request to Vault in progress and
\* none starts later.
DrainedWhenClosed ==
  closed => \A p \in Caller : pc[p] \notin Working

\* No secret survives Close: once the Close that set closed has finished
\* clearing, the cache is empty and stays empty, although GetSecret reads the
\* cache without c.mu and fills that were under way may finish later.
EmptyAfterClose ==
  closed /\ (\A p \in Caller : pc[p] # "clear") => \A s \in Path : cache[s] = NoEntry

\* A write that reported success has removed every older entry: if the cache
\* holds a version older than an acknowledged write, a fetch that read the
\* server before that write stored its result after the invalidation.
StaleOnlyByLateFill ==
  \A s \in Path :
    cache[s] # NoEntry /\ cache[s].version < acked[s] => s \in late

\* What the comment "Invalidate cache" promises of PutSecret and DeleteSecret:
\* after one has succeeded the cache does not answer with an older version.
NoStaleAfterWrite ==
  \A s \in Path : cache[s].fresh => cache[s].version >= acked[s]

\* Close ends: new readers wait behind it, the readers before it leave.
CloseEnds == \A p \in Caller : pc[p] = "lock" ~> pc[p] = "idle"

\* Every operation that waits for the read lock ends, also while other
\* goroutines keep closing the client.
OperationEnds == \A p \in Caller : pc[p] = "rlock" ~> pc[p] = "idle"
=============================================================================
