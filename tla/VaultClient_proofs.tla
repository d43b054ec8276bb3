------------------------- MODULE VaultClient_proofs -------------------------
(***************************************************************************)
(* Proofs about VaultClient, for any set of callers, any paths and any     *)
(* bound on the versions.                                                  *)
(***************************************************************************)
EXTENDS VaultClient, TLAPS

-----------------------------------------------------------------------------
(***************************************************************************)
(* Type correctness.                                                       *)
(***************************************************************************)

\* What the replies of the server and the history carry stays a version.
LEMMA NewestOfVersion ==
  ASSUME NEW a \in Version, NEW b \in Version
  PROVE  NewestOf(a, b) \in Version
BY DEF NewestOf

\* A caller is given a version to store or to acknowledge only by the server:
\* "fill" and "invalidate" are reached with a real version in hand.
Carried ==
  \A p \in Caller :
    /\ pc[p] \in {"fill", "invalidate"} => got[p] \in Version
    /\ pc[p] # "idle" => op[p] \in Call

TypeInv == TypeOK /\ Carried

USE DEF mu!Init, mu!RLock, mu!RUnlock, mu!Announce, mu!Holds, mu!Unlock

LEMMA InitTypeInv == Init => TypeInv
<1> SUFFICES ASSUME Init PROVE TypeInv
  OBVIOUS
<1>1. 0 \in Version
  BY VersionAssumption DEF Version
<1>2. TypeOK
  BY <1>1 DEF Init, TypeOK, NoEntry, Label
<1>3. Carried
  BY DEF Init, Carried
<1> QED BY <1>2, <1>3 DEF TypeInv

LEMMA StepTypeInv == TypeInv /\ [Next]_vars => TypeInv'
<1> SUFFICES ASSUME TypeInv, [Next]_vars PROVE TypeInv'
  OBVIOUS
<1> USE DEF TypeInv, TypeOK, Carried, Goto, Return, At, lockVars, historyVars,
            Label, Reading, Working, Closing
<1>1. ASSUME NEW p \in Caller, Begin(p) PROVE TypeInv'
  BY <1>1 DEF Begin, Call
<1>2. ASSUME NEW p \in Caller, HitCache(p) PROVE TypeInv'
  BY <1>2 DEF HitCache
<1>3. ASSUME NEW p \in Caller, MissCache(p) PROVE TypeInv'
  BY <1>3 DEF MissCache
<1>4. ASSUME NEW p \in Caller, EnterShared(p) PROVE TypeInv'
  BY <1>4 DEF EnterShared
<1>5. ASSUME NEW p \in Caller, ReadServer(p) PROVE TypeInv'
  <2>1. CASE server[op[p].path].live
    <3>1. op[p] \in Call /\ op[p].path \in Path
      BY <1>5 DEF ReadServer, Call
    <3>2. server[op[p].path].version \in Version
      BY <3>1
    <3> QED
      BY <1>5, <3>2 DEF ReadServer
  <2>2. CASE ~server[op[p].path].live
    BY <1>5, <2>2 DEF ReadServer
  <2> QED
    BY <2>1, <2>2
<1>6. ASSUME NEW p \in Caller, FillCache(p) PROVE TypeInv'
  BY <1>6 DEF FillCache, Entry, Call
<1>7. ASSUME NEW p \in Caller, WriteServer(p) PROVE TypeInv'
  <2> DEFINE s == op[p].path
  <2>1. s \in Path /\ s = op[p].path
    BY <1>7 DEF WriteServer, Call
  <2>2. server[s].version + 1 \in Version
    BY <1>7, <2>1, VersionAssumption DEF WriteServer, Version
  <2>3. server' \in [Path -> [version : Version, live : BOOLEAN]]
    BY <1>7, <2>1, <2>2 DEF WriteServer, Applied
  <2>4. got' = [got EXCEPT ![p] = server[s].version + 1]
    BY <1>7 DEF WriteServer
  <2> HIDE DEF s
  <2>5. /\ UNCHANGED <<delayed, cache, closed, readers, writer, op, acked, late>>
        /\ \/ pc' = [pc EXCEPT ![p] = "invalidate"]
           \/ pc' = [pc EXCEPT ![p] = "release"]
        /\ pc[p] # "idle"
    BY <1>7 DEF WriteServer
  <2> QED
    BY <2>2, <2>3, <2>4, <2>5
<1>8. ASSUME NEW p \in Caller, WriteFails(p) PROVE TypeInv'
  BY <1>8 DEF WriteFails
<1>9. ASSUME NEW p \in Caller, Invalidate(p) PROVE TypeInv'
  <2> DEFINE s == op[p].path
  <2>1. s \in Path /\ got[p] \in Version
    BY <1>9 DEF Invalidate, Call
  <2>2. NewestOf(acked[s], got[p]) \in Version
    BY <2>1, NewestOfVersion
  <2>3. acked' = [acked EXCEPT ![s] = NewestOf(acked[s], got[p])]
    BY <1>9, <2>1 DEF Invalidate
  <2>4. acked' \in [Path -> Version]
    BY <2>2, <2>3
  <2> QED
    BY <1>9, <2>4 DEF Invalidate
<1>10. ASSUME NEW p \in Caller, QueryServer(p) PROVE TypeInv'
  BY <1>10 DEF QueryServer
<1>11. ASSUME NEW p \in Caller, LeaveShared(p) PROVE TypeInv'
  BY <1>11 DEF LeaveShared
<1>12. ASSUME NEW p \in Caller, AnnounceClose(p) PROVE TypeInv'
  BY <1>12 DEF AnnounceClose
<1>13. ASSUME NEW p \in Caller, MarkClosed(p) PROVE TypeInv'
  BY <1>13 DEF MarkClosed
<1>14. ASSUME NEW p \in Caller, AlreadyClosed(p) PROVE TypeInv'
  BY <1>14 DEF AlreadyClosed
<1>15. ASSUME NEW p \in Caller, ClearCache(p) PROVE TypeInv'
  BY <1>15 DEF ClearCache
<1>16. ASSUME NEW s \in Path, Expire(s) PROVE TypeInv'
  <2>1. cache[s] \in Entry
    BY <1>16 DEF Expire, NoEntry
  <2>2. [cache[s] EXCEPT !.fresh = FALSE] \in Entry
    BY <2>1 DEF Entry
  <2>3. cache' \in [Path -> Entry \cup {NoEntry}]
    BY <1>16, <2>2 DEF Expire
  <2> QED
    BY <1>16, <2>3 DEF Expire
<1>17. ASSUME NEW w \in delayed, DelayedWrite(w) PROVE TypeInv'
  <2>1. w.path \in Path
    BY DEF Call
  <2>2. server[w.path].version + 1 \in Version
    BY <1>17, <2>1, VersionAssumption DEF DelayedWrite, Version
  <2>3. server' \in [Path -> [version : Version, live : BOOLEAN]]
    BY <1>17, <2>1, <2>2 DEF DelayedWrite, Applied
  <2> QED
    BY <1>17, <2>3 DEF DelayedWrite
<1>18. CASE UNCHANGED vars
  BY <1>18 DEF vars
<1> QED
  BY <1>1, <1>2, <1>3, <1>4, <1>5, <1>6, <1>7, <1>8, <1>9, <1>10, <1>11, <1>12, <1>13, <1>14, <1>15, <1>16, <1>17, <1>18 DEF Next, Continue, Request, Environment

\* The state of the client is well typed in every run.
THEOREM TypeCorrect == Spec => []TypeOK
<1>1. TypeInv => TypeOK
  BY DEF TypeInv
<1> QED
  BY <1>1, InitTypeInv, StepTypeInv, PTL DEF Spec

-----------------------------------------------------------------------------
(***************************************************************************)
(* The lock, and what Close can rely on.  The read lock is held exactly    *)
(* between EnterShared and LeaveShared, the write lock is claimed exactly  *)
(* between AnnounceClose and the end of Close, and a Close that has passed *)
(* MarkClosed is alone.                                                    *)
(***************************************************************************)
LockInv ==
  \A p \in Caller :
    /\ pc[p] \in Reading <=> p \in readers
    /\ pc[p] \in Closing <=> writer = p
    /\ pc[p] = "clear" => readers = {} /\ closed

CloseInv == LockInv /\ DrainedWhenClosed /\ EmptyAfterClose

LEMMA InitCloseInv == Init => CloseInv
BY CallerAssumption DEF Init, CloseInv, LockInv, DrainedWhenClosed, EmptyAfterClose,
                        Reading, Working, Closing

LEMMA StepCloseInv == TypeInv /\ CloseInv /\ [Next]_vars => CloseInv'
<1> SUFFICES ASSUME TypeInv, CloseInv, [Next]_vars PROVE CloseInv'
  OBVIOUS
<1> USE CallerAssumption
    DEF TypeInv, TypeOK, CloseInv, LockInv, DrainedWhenClosed, EmptyAfterClose,
        Goto, Return, At, lockVars, historyVars, Label, Reading, Working, Closing
<1>1. ASSUME NEW p \in Caller, Begin(p) PROVE CloseInv'
  BY <1>1 DEF Begin
<1>2. ASSUME NEW p \in Caller, HitCache(p) PROVE CloseInv'
  BY <1>2 DEF HitCache
<1>3. ASSUME NEW p \in Caller, MissCache(p) PROVE CloseInv'
  BY <1>3 DEF MissCache
<1>4. ASSUME NEW p \in Caller, EnterShared(p) PROVE CloseInv'
  BY <1>4 DEF EnterShared
<1>5. ASSUME NEW p \in Caller, ReadServer(p) PROVE CloseInv'
  BY <1>5 DEF ReadServer
<1>6. ASSUME NEW p \in Caller, FillCache(p) PROVE CloseInv'
  BY <1>6 DEF FillCache
<1>7. ASSUME NEW p \in Caller, WriteServer(p) PROVE CloseInv'
  BY <1>7 DEF WriteServer
<1>8. ASSUME NEW p \in Caller, WriteFails(p) PROVE CloseInv'
  BY <1>8 DEF WriteFails
<1>9. ASSUME NEW p \in Caller, Invalidate(p) PROVE CloseInv'
  BY <1>9 DEF Invalidate
<1>10. ASSUME NEW p \in Caller, QueryServer(p) PROVE CloseInv'
  BY <1>10 DEF QueryServer
<1>11. ASSUME NEW p \in Caller, LeaveShared(p) PROVE CloseInv'
  BY <1>11 DEF LeaveShared
<1>12. ASSUME NEW p \in Caller, AnnounceClose(p) PROVE CloseInv'
  BY <1>12 DEF AnnounceClose
<1>13. ASSUME NEW p \in Caller, MarkClosed(p) PROVE CloseInv'
  BY <1>13 DEF MarkClosed
<1>14. ASSUME NEW p \in Caller, AlreadyClosed(p) PROVE CloseInv'
  BY <1>14 DEF AlreadyClosed
<1>15. ASSUME NEW p \in Caller, ClearCache(p) PROVE CloseInv'
  BY <1>15 DEF ClearCache
<1>16. ASSUME NEW s \in Path, Expire(s) PROVE CloseInv'
  BY <1>16 DEF Expire, NoEntry
<1>17. ASSUME NEW w \in delayed, DelayedWrite(w) PROVE CloseInv'
  BY <1>17 DEF DelayedWrite
<1>18. CASE UNCHANGED vars
  BY <1>18 DEF vars
<1> QED
  BY <1>1, <1>2, <1>3, <1>4, <1>5, <1>6, <1>7, <1>8, <1>9, <1>10, <1>11, <1>12, <1>13, <1>14, <1>15, <1>16, <1>17, <1>18 DEF Next, Continue, Request, Environment

LEMMA AlwaysCloseInv == Spec => []CloseInv
BY InitTypeInv, StepTypeInv, InitCloseInv, StepCloseInv, PTL DEF Spec

\* Close waits for the operations in progress and no later one reaches Vault:
\* c.mu and the closed check under it leave nobody at work on a closed client.
THEOREM CloseDrains == Spec => []DrainedWhenClosed
<1>1. CloseInv => DrainedWhenClosed
  BY DEF CloseInv
<1> QED
  BY <1>1, AlwaysCloseInv, PTL

\* No cached secret outlives Close, whoever was filling the cache meanwhile.
THEOREM CloseEmptiesCache == Spec => []EmptyAfterClose
<1>1. CloseInv => EmptyAfterClose
  BY DEF CloseInv
<1> QED
  BY <1>1, AlwaysCloseInv, PTL

-----------------------------------------------------------------------------
(***************************************************************************)
(* Staleness.  StaleOnlyByLateFill is inductive on its own: only an        *)
(* acknowledged write moves acked[s], and the same step empties the entry; *)
(* only a fill puts an entry in.                                           *)
(***************************************************************************)
LEMMA InitStale == Init => StaleOnlyByLateFill
BY DEF Init, StaleOnlyByLateFill

LEMMA StepStale ==
  TypeInv /\ StaleOnlyByLateFill /\ [Next]_vars => StaleOnlyByLateFill'
<1> SUFFICES ASSUME TypeInv, StaleOnlyByLateFill, [Next]_vars
             PROVE  StaleOnlyByLateFill'
  OBVIOUS
<1> USE DEF TypeInv, TypeOK, Carried, StaleOnlyByLateFill, historyVars
<1>1. ASSUME NEW p \in Caller, FillCache(p) PROVE StaleOnlyByLateFill'
  BY <1>1 DEF FillCache, Call
<1>2. ASSUME NEW p \in Caller, Invalidate(p) PROVE StaleOnlyByLateFill'
  BY <1>2 DEF Invalidate, Call
<1>3. ASSUME NEW p \in Caller, ClearCache(p) PROVE StaleOnlyByLateFill'
  BY <1>3 DEF ClearCache
<1>4. ASSUME NEW s \in Path, Expire(s) PROVE StaleOnlyByLateFill'
  <2>1. cache[s] # NoEntry
    BY <1>4 DEF Expire, NoEntry
  <2>2. \A t \in Path : cache'[t].version = cache[t].version
    BY <1>4, <2>1 DEF Expire, Entry
  <2> QED
    BY <1>4, <2>1, <2>2 DEF Expire
<1>5. CASE UNCHANGED <<cache, acked, late>>
  BY <1>5
<1>6. ASSUME NEW p \in Caller, Begin(p) \/ Continue(p)
      PROVE  \/ FillCache(p) \/ Invalidate(p) \/ ClearCache(p)
             \/ UNCHANGED <<cache, acked, late>>
  BY <1>6 DEF Continue, Request, Begin, HitCache, MissCache, EnterShared, ReadServer,
              WriteServer, WriteFails, QueryServer, LeaveShared, AnnounceClose,
              MarkClosed, AlreadyClosed
<1>7. (\E w \in delayed : DelayedWrite(w)) \/ UNCHANGED vars => UNCHANGED <<cache, acked, late>>
  BY DEF DelayedWrite, vars
<1> QED
  BY <1>1, <1>2, <1>3, <1>4, <1>5, <1>6, <1>7 DEF Next, Environment

\* Only a fetch that stored its result late can leave an entry older than a
\* write that PutSecret or DeleteSecret has reported as done.
THEOREM StalenessHasOneCause == Spec => []StaleOnlyByLateFill
BY InitTypeInv, StepTypeInv, InitStale, StepStale, PTL DEF Spec

-----------------------------------------------------------------------------
(***************************************************************************)
(* Waiting.  A goroutine waits only for c.mu: for the Close that has       *)
(* announced itself, or as that Close for the readers before it.  The      *)
(* guards of HitCache ... ClearCache say so; what is proved is that the    *)
(* waits form no cycle: the part of CloseEnds and OperationEnds that is a  *)
(* safety property.                                                        *)
(***************************************************************************)
Waiting(p) ==
  \/ pc[p] \in {"rlock", "lock"} /\ writer # None
  \/ pc[p] = "drain" /\ readers # {}

\* Who p waits for.
WaitsFor(p, q) ==
  \/ pc[p] \in {"rlock", "lock"} /\ writer = q
  \/ pc[p] = "drain" /\ q \in readers

GoesOn(q) == pc[q] # "idle" /\ ~ Waiting(q)

WaitsAreShort ==
  \A p \in Caller : Waiting(p) =>
    \E q \in Caller \ {p} :
      GoesOn(q) /\ (WaitsFor(p, q) \/ \E r \in Caller \ {p, q} : WaitsFor(p, r) /\ WaitsFor(r, q))

LEMMA ReadersGoOn ==
  ASSUME CloseInv, NEW q \in Caller, q \in readers PROVE GoesOn(q)
BY DEF CloseInv, LockInv, GoesOn, Waiting, Reading, Working

\* No deadlock: whoever waits, waits for a goroutine that can go on, or for a
\* Close that does.  No reader ever waits, so there is no longer chain.
THEOREM ClientNeverDeadlocks == Spec => []WaitsAreShort
<1>1. TypeOK /\ CloseInv => WaitsAreShort
  <2> SUFFICES ASSUME TypeOK, CloseInv, NEW p \in Caller, Waiting(p)
               PROVE  \E q \in Caller \ {p} :
                        GoesOn(q) /\ (WaitsFor(p, q) \/ \E r \in Caller \ {p, q} : WaitsFor(p, r) /\ WaitsFor(r, q))
    BY DEF WaitsAreShort
  <2>1. CASE pc[p] = "drain"
    <3>1. PICK q \in readers : TRUE
      BY <2>1 DEF Waiting
    <3>2. q \in Caller /\ GoesOn(q)
      BY <3>1, ReadersGoOn DEF TypeOK
    <3>3. q # p
      BY <2>1, <3>1, <3>2 DEF CloseInv, LockInv, Reading, Working
    <3> QED BY <2>1, <3>1, <3>2, <3>3 DEF WaitsFor
  <2>2. CASE pc[p] \in {"rlock", "lock"}
    <3>1. /\ writer \in Caller /\ pc[writer] \in Closing /\ WaitsFor(p, writer)
          /\ writer # p
      BY <2>2 DEF Waiting, WaitsFor, TypeOK, CloseInv, LockInv, Closing
    <3>2. CASE pc[writer] = "clear" \/ readers = {}
      <4>1. GoesOn(writer)
        BY <3>1, <3>2 DEF GoesOn, Waiting, Closing
      <4> QED BY <3>1, <4>1
    <3>3. CASE pc[writer] = "drain" /\ readers # {}
      <4>1. PICK q \in readers : TRUE
        BY <3>3
      <4>2. q \in Caller /\ GoesOn(q) /\ WaitsFor(writer, q)
        BY <3>3, <4>1, ReadersGoOn DEF TypeOK, WaitsFor
      <4>3. q # p /\ q # writer
        BY <2>2, <3>1, <4>1, <4>2 DEF CloseInv, LockInv, Reading, Working, Closing
      <4> QED BY <3>1, <4>2, <4>3
    <3> QED BY <3>1, <3>2, <3>3 DEF Closing
  <2> QED BY <2>1, <2>2 DEF Waiting
<1> QED BY <1>1, TypeCorrect, AlwaysCloseInv, PTL
=============================================================================
