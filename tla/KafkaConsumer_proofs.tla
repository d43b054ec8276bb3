------------------------ MODULE KafkaConsumer_proofs ------------------------
(***************************************************************************)
(* Proofs about KafkaConsumer and KafkaDelivery, for any group, any number *)
(* of partitions, either reset and any number of failures.                 *)
(***************************************************************************)
EXTENDS KafkaConsumer, TLAPS

-----------------------------------------------------------------------------
(***************************************************************************)
(* Type correctness.                                                       *)
(***************************************************************************)
LEMMA PositionType ==
  ASSUME TypeOK, NEW q \in Partition
  PROVE  Position(q) \in Offset
BY BoundAssumption DEF TypeOK, Position, Offset, NoOffset

\* A claim that has a message has taken it: TypeOK alone is not inductive.
Taken == \A m \in Member, q \in Partition : at[m][q] \in {"handle", "mark"} => next[m][q] >= 1

TypeInv == TypeOK /\ Taken

LEMMA InitTypeInv == Init => TypeInv
<1> SUFFICES ASSUME Init PROVE TypeInv
  OBVIOUS
<1> USE BoundAssumption DEF Init, Offset, NoOffset, NoClaim, NoMark
<1>1. end \in [Partition -> Offset] /\ committed \in [Partition -> Offset \cup {NoOffset}]
  OBVIOUS
<1>2. next \in [Member -> [Partition -> Offset]]
  OBVIOUS
<1>3. marked \in [Member -> [Partition -> Offset \cup {NoOffset}]]
  OBVIOUS
<1>4. at \in [Member -> [Partition -> {"none", "select", "handle", "mark"}]]
  OBVIOUS
<1>5. loop \in [Member -> {"join", "session", "ended", "down"}]
  OBVIOUS
<1>6. /\ processed \in [Partition -> SUBSET Offset]
      /\ failed \in [Partition -> SUBSET Offset]
      /\ skipped \in [Partition -> SUBSET Offset]
  OBVIOUS
<1>7. failures \in 0 .. MaxFailures
  OBVIOUS
<1> QED
  BY <1>1, <1>2, <1>3, <1>4, <1>5, <1>6, <1>7 DEF TypeInv, TypeOK, Taken

LEMMA StepTypeInv == TypeInv /\ [Next]_vars => TypeInv'
<1> SUFFICES ASSUME TypeInv, [Next]_vars PROVE TypeInv'
  OBVIOUS
<1> USE BoundAssumption
    DEF TypeInv, TypeOK, Taken, Offset, NoOffset, NoClaim, NoMark, Marks, SetAt,
        groupVars, claimVars, history
<1>1. ASSUME NEW q \in Partition, Produce(q) PROVE TypeInv'
  BY <1>1 DEF Produce
<1>2. CASE Rebalance
  <2>1. \A q \in Partition : Position(q) \in Offset
    BY PositionType
  <2>2. \A q \in Partition : 0 .. Position(q) - 1 \subseteq Offset
    BY <2>1
  <2>3. skipped' \in [Partition -> SUBSET Offset]
    BY <1>2, <2>2 DEF Rebalance
  <2>4. PICK owner \in [Partition -> {m \in Member : loop[m] = "join"}] :
          /\ at' = [m \in Member |-> [q \in Partition |->
                      IF owner[q] = m THEN "select" ELSE at[m][q]]]
          /\ next' = [m \in Member |-> [q \in Partition |->
                        IF owner[q] = m THEN Position(q) ELSE next[m][q]]]
    BY <1>2 DEF Rebalance
  <2>5. next' \in [Member -> [Partition -> Offset]]
    BY <2>1, <2>4
  <2>6. at' \in [Member -> [Partition -> {"none", "select", "handle", "mark"}]]
    BY <2>4
  <2>7. Taken'
    BY <2>4
  <2>8. marked' \in [Member -> [Partition -> Offset \cup {NoOffset}]]
    BY <1>2 DEF Rebalance
  <2> QED
    BY <1>2, <2>3, <2>5, <2>6, <2>7, <2>8 DEF Rebalance
<1>3. ASSUME NEW m \in Member, CancelSession(m) PROVE TypeInv'
  BY <1>3 DEF CancelSession
<1>4. ASSUME NEW m \in Member, BreakSession(m) PROVE TypeInv'
  BY <1>4 DEF BreakSession
<1>5. ASSUME NEW m \in Member, AutoCommit(m) PROVE TypeInv'
  BY <1>5 DEF AutoCommit
<1>6. ASSUME NEW m \in Member, Expire(m) PROVE TypeInv'
  BY <1>6 DEF Expire
<1>7. ASSUME NEW m \in Member, Crash(m) PROVE TypeInv'
  BY <1>7 DEF Crash
<1>8. ASSUME NEW m \in Member, Restart(m) PROVE TypeInv'
  BY <1>8 DEF Restart
<1>9. ASSUME NEW m \in Member, Stop(m) PROVE TypeInv'
  BY <1>9 DEF Stop
<1>10. ASSUME NEW m \in Member, EndSession(m) PROVE TypeInv'
  BY <1>10 DEF EndSession
<1>11. ASSUME NEW m \in Member, EndLoop(m) PROVE TypeInv'
  BY <1>11 DEF EndLoop
<1>12. ASSUME NEW m \in Member, NEW q \in Partition, TakeMessage(m, q) PROVE TypeInv'
  BY <1>12 DEF TakeMessage
<1>13. ASSUME NEW m \in Member, NEW q \in Partition, HandleMessage(m, q) PROVE TypeInv'
  <2>1. next[m][q] - 1 \in Offset
    BY <1>13 DEF HandleMessage
  <2>a. /\ processed[q] \cup {next[m][q] - 1} \in SUBSET Offset
        /\ failed[q] \cup {next[m][q] - 1} \in SUBSET Offset
    BY <2>1
  <2>2. processed' \in [Partition -> SUBSET Offset] /\ failed' \in [Partition -> SUBSET Offset]
    <3>1. CASE /\ processed' = [processed EXCEPT ![q] = processed[q] \cup {next[m][q] - 1}]
               /\ failed' = failed
      BY <2>a, <3>1
    <3>2. CASE /\ failed' = [failed EXCEPT ![q] = failed[q] \cup {next[m][q] - 1}]
               /\ processed' = processed
      BY <2>a, <3>2
    <3> QED
      BY <1>13, <3>1, <3>2 DEF HandleMessage
  <2>3. at' \in [Member -> [Partition -> {"none", "select", "handle", "mark"}]] /\ Taken'
    BY <1>13 DEF HandleMessage
  <2> QED
    BY <1>13, <2>2, <2>3 DEF HandleMessage
<1>14. ASSUME NEW m \in Member, NEW q \in Partition, MarkMessage(m, q) PROVE TypeInv'
  BY <1>14 DEF MarkMessage
<1>15. ASSUME NEW m \in Member, NEW q \in Partition, ExitClaim(m, q) PROVE TypeInv'
  BY <1>15 DEF ExitClaim
<1>16. CASE UNCHANGED vars
  BY <1>16 DEF vars
<1> QED
  BY <1>1, <1>2, <1>3, <1>4, <1>5, <1>6, <1>7, <1>8, <1>9, <1>10, <1>11,
     <1>12, <1>13, <1>14, <1>15, <1>16
     DEF Next, Claim

\* The state of a consumer group is well typed in every run.
THEOREM TypeCorrect == Spec => []TypeOK
<1>1. TypeInv => TypeOK
  BY DEF TypeInv
<1> QED
  BY <1>1, InitTypeInv, StepTypeInv, PTL DEF Spec


-----------------------------------------------------------------------------
(***************************************************************************)
(* Delivery.  What a claim has passed, what a session has marked and what  *)
(* is committed lie, in this order, behind messages that were given to a   *)
(* handler or skipped.                                                     *)
(***************************************************************************)
Upto(n, q) == n \in 0 .. end[q] /\ 0 .. n - 1 \subseteq Delivery!Passed(q)

ClaimInv ==
  \A m \in Member, q \in Partition :
    /\ at[m][q] \in {"select", "mark"} => Upto(next[m][q], q)
    /\ at[m][q] = "handle" => next[m][q] <= end[q] /\ Upto(next[m][q] - 1, q)
    /\ marked[m][q] # NoOffset => Upto(marked[m][q], q)

CommitInv == \A q \in Partition : committed[q] # NoOffset => Upto(committed[q], q)

SeenInv == ClaimInv /\ CommitInv

\* Logs grow and nothing is unseen.
LEMMA PassedGrows ==
  ASSUME TypeInv, [Next]_vars, NEW q \in Partition
  PROVE  end'[q] >= end[q] /\ Delivery!Passed(q) \subseteq Delivery!Passed(q)'
<1> USE BoundAssumption DEF TypeInv, TypeOK, Offset, Delivery!Passed, given, groupVars, claimVars, history
<1>1. ASSUME NEW r \in Partition, Produce(r) PROVE end'[q] >= end[q] /\ Delivery!Passed(q) \subseteq Delivery!Passed(q)'
  BY <1>1 DEF Produce
<1>2. CASE Rebalance
  BY <1>2 DEF Rebalance
<1>3. ASSUME NEW m \in Member, NEW r \in Partition, HandleMessage(m, r)
      PROVE  end'[q] >= end[q] /\ Delivery!Passed(q) \subseteq Delivery!Passed(q)'
  <2>1. CASE /\ processed' = [processed EXCEPT ![r] = @ \cup {next[m][r] - 1}]
             /\ UNCHANGED <<end, failed, skipped>>
    BY <2>1
  <2>2. CASE /\ failed' = [failed EXCEPT ![r] = @ \cup {next[m][r] - 1}]
             /\ UNCHANGED <<end, processed, skipped>>
    BY <2>2
  <2> QED
    BY <1>3, <2>1, <2>2 DEF HandleMessage
<1>4. CASE UNCHANGED <<end, processed, failed, skipped>>
  BY <1>4
<1>5. ASSUME NEW m \in Member,
             \/ CancelSession(m) \/ BreakSession(m) \/ AutoCommit(m) \/ Expire(m) \/ Crash(m)
             \/ Restart(m) \/ Stop(m) \/ EndSession(m) \/ EndLoop(m)
             \/ \E r \in Partition : TakeMessage(m, r) \/ MarkMessage(m, r) \/ ExitClaim(m, r)
      PROVE  UNCHANGED <<end, processed, failed, skipped>>
  BY <1>5 DEF CancelSession, BreakSession, AutoCommit, Expire, Crash, Restart, Stop, EndSession,
              EndLoop, TakeMessage, MarkMessage, ExitClaim
<1> QED
  BY <1>1, <1>2, <1>3, <1>4, <1>5 DEF Next, Claim, vars

LEMMA UptoStays ==
  ASSUME TypeInv, TypeInv', [Next]_vars
  PROVE  \A q \in Partition, n \in Int : Upto(n, q) => Upto(n, q)'
<1> SUFFICES ASSUME NEW q \in Partition, NEW n \in Int, Upto(n, q) PROVE Upto(n, q)'
  OBVIOUS
<1>1. end'[q] >= end[q] /\ Delivery!Passed(q) \subseteq Delivery!Passed(q)'
  BY PassedGrows
<1>2. end[q] \in Int /\ end'[q] \in Int
  BY BoundAssumption DEF TypeInv, TypeOK, Offset
<1> QED
  BY <1>1, <1>2 DEF Upto

LEMMA InitSeenInv == Init => SeenInv
BY DEF Init, SeenInv, ClaimInv, CommitInv, NoClaim, NoMark

\* The position a claim begins at is behind what was seen or is skipped now.
LEMMA PositionUpto ==
  ASSUME TypeInv, TypeInv', CommitInv, Rebalance, NEW q \in Partition
  PROVE  Upto(Position(q), q)'
<1> USE BoundAssumption
    DEF TypeInv, TypeOK, Offset, Rebalance, Delivery!Passed, given, history, Upto, CommitInv
<1>1. end' = end /\ given' = given
  OBVIOUS
<1>2. Position(q) \in 0 .. end[q] /\ Position(q)' = Position(q)
  BY DEF Position, NoOffset
<1>3. CASE committed[q] # NoOffset
  BY <1>1, <1>2, <1>3 DEF Position
<1>4. CASE committed[q] = NoOffset
  <2>1. 0 .. Position(q) - 1 \subseteq skipped'[q]
    BY <1>4
  <2> QED
    BY <1>1, <1>2, <2>1
<1> QED
  BY <1>3, <1>4

LEMMA StepSeenInv == TypeInv /\ TypeInv' /\ SeenInv /\ [Next]_vars => SeenInv'
<1> SUFFICES ASSUME TypeInv, TypeInv', SeenInv, [Next]_vars PROVE SeenInv'
  OBVIOUS
<1> DEFINE Grows == \A q \in Partition, n \in Int : Upto(n, q) => Upto(n, q)'
<1>a. Grows
  BY UptoStays
<1>b. /\ \A m \in Member, q \in Partition : next[m][q] \in Int /\ marked[m][q] \in Int
      /\ \A q \in Partition : committed[q] \in Int
  BY BoundAssumption DEF TypeInv, TypeOK, Offset, NoOffset
<1>c. \A q \in Partition : end'[q] >= end[q] /\ end[q] \in Int /\ end'[q] \in Int
  BY PassedGrows, BoundAssumption DEF TypeInv, TypeOK, Offset
<1>d. ASSUME UNCHANGED <<committed, claimVars>> PROVE SeenInv'
  BY <1>a, <1>b, <1>c, <1>d DEF SeenInv, ClaimInv, CommitInv, claimVars
<1> USE DEF TypeInv, TypeOK, SeenInv, ClaimInv, CommitInv, NoOffset, NoClaim, NoMark, Marks, SetAt,
            groupVars, claimVars, history
<1> HIDE DEF Grows
<1>1. ASSUME NEW q \in Partition, Produce(q) PROVE SeenInv'
  BY <1>1, <1>d DEF Produce
<1>2. CASE Rebalance
  <2>1. \A q \in Partition : Upto(Position(q), q)'
    BY <1>2, PositionUpto
  <2>2. \A q \in Partition : Position(q)' = Position(q)
    BY <1>2 DEF Rebalance, Position
  <2>3. PICK owner \in [Partition -> {m \in Member : loop[m] = "join"}] :
          /\ at' = [m \in Member |-> [q \in Partition |->
                      IF owner[q] = m THEN "select" ELSE at[m][q]]]
          /\ next' = [m \in Member |-> [q \in Partition |->
                        IF owner[q] = m THEN Position(q) ELSE next[m][q]]]
    BY <1>2 DEF Rebalance
  <2>4. \A m \in Member, q \in Partition : owner[q] = m =>
          at'[m][q] = "select" /\ next'[m][q] = Position(q)'
    BY <2>2, <2>3
  <2>5. \A m \in Member, q \in Partition : owner[q] # m =>
          at'[m][q] = at[m][q] /\ next'[m][q] = next[m][q]
    BY <2>3
  <2>6. \A m \in Member, q \in Partition : marked'[m][q] \in {NoOffset, marked[m][q]}
    BY <1>2 DEF Rebalance
  <2>7. CommitInv'
    BY <1>2, <1>a, <1>b DEF Rebalance, Grows
  <2> QED
    BY <1>a, <1>b, <1>c, <2>1, <2>4, <2>5, <2>6, <2>7 DEF Grows
<1>3. ASSUME NEW m \in Member, CancelSession(m) PROVE SeenInv'
  BY <1>3, <1>d DEF CancelSession
<1>4. ASSUME NEW m \in Member, BreakSession(m) PROVE SeenInv'
  BY <1>4, <1>d DEF BreakSession
<1>5. ASSUME NEW m \in Member, AutoCommit(m) PROVE SeenInv'
  BY <1>5, <1>a, <1>b, <1>c DEF AutoCommit, Grows
<1>6. ASSUME NEW m \in Member, Expire(m) PROVE SeenInv'
  BY <1>6, <1>d DEF Expire
<1>7. ASSUME NEW m \in Member, Crash(m) PROVE SeenInv'
  BY <1>7, <1>a, <1>b, <1>c DEF Crash, Grows
<1>8. ASSUME NEW m \in Member, Restart(m) PROVE SeenInv'
  BY <1>8, <1>d DEF Restart
<1>9. ASSUME NEW m \in Member, Stop(m) PROVE SeenInv'
  BY <1>9, <1>d DEF Stop
<1>10. ASSUME NEW m \in Member, EndSession(m) PROVE SeenInv'
  <2>1. ASSUME committed' = Marks(m), UNCHANGED claimVars PROVE SeenInv'
    BY <2>1, <1>a, <1>b, <1>c DEF Grows
  <2> QED
    BY <1>10, <2>1, <1>d DEF EndSession
<1>11. ASSUME NEW m \in Member, EndLoop(m) PROVE SeenInv'
  BY <1>11, <1>d DEF EndLoop
<1>12. ASSUME NEW m \in Member, NEW q \in Partition, TakeMessage(m, q) PROVE SeenInv'
  <2>1. PICK n \in Int : n = next[m][q]
    BY <1>b
  <2>2. Upto(n, q)' /\ n + 1 <= end'[q]
    BY <1>12, <2>1, <1>a, <1>c DEF TakeMessage, Grows
  <2>3. next'[m][q] = n + 1 /\ at'[m][q] = "handle"
    BY <1>12, <2>1 DEF TakeMessage
  <2>4. \A k \in Member, r \in Partition : ~(k = m /\ r = q) =>
          next'[k][r] = next[k][r] /\ at'[k][r] = at[k][r]
    BY <1>12 DEF TakeMessage
  <2>5. marked' = marked /\ committed' = committed
    BY <1>12 DEF TakeMessage
  <2>6. n + 1 - 1 = n
    OBVIOUS
  <2>7. CommitInv'
    BY <2>5, <1>a, <1>b DEF Grows
  <2>8. ASSUME NEW k \in Member, NEW r \in Partition
        PROVE  /\ at'[k][r] \in {"select", "mark"} => Upto(next[k][r], r)'
               /\ at'[k][r] = "handle" => next'[k][r] <= end'[r] /\ Upto(next[k][r] - 1, r)'
               /\ marked'[k][r] # NoOffset => Upto(marked[k][r], r)'
    <3>1. CASE k = m /\ r = q
      BY <3>1, <2>2, <2>3, <2>5, <2>6, <1>a, <1>b DEF Grows
    <3>2. CASE ~(k = m /\ r = q)
      <4>1. PICK x \in Int, y \in Int : x = next[k][r] /\ y = marked[k][r]
        BY <1>b
      <4>2. next'[k][r] = x /\ at'[k][r] = at[k][r] /\ marked'[k][r] = y
        BY <3>2, <4>1, <2>4, <2>5
      <4>3. /\ Upto(x, r) => Upto(x, r)'
            /\ Upto(x - 1, r) => Upto(x - 1, r)'
            /\ Upto(y, r) => Upto(y, r)'
        BY <1>a DEF Grows
      <4> QED
        BY <4>1, <4>2, <4>3, <1>c
    <3> QED
      BY <3>1, <3>2
  <2> QED
    BY <2>7, <2>8
<1>13. ASSUME NEW m \in Member, NEW q \in Partition, HandleMessage(m, q) PROVE SeenInv'
  <2>1. PICK n \in Int : n = next[m][q]
    BY <1>b
  <2>a. Upto(n - 1, q) /\ n <= end[q] /\ n >= 1
    BY <1>13, <2>1 DEF HandleMessage, Taken
  <2>2. Upto(n - 1, q)' /\ n \in 1 .. end'[q]
    BY <2>a, <2>1, <1>a, <1>c DEF Grows
  <2>3. n - 1 \in Delivery!Passed(q)'
    BY <1>13, <2>1 DEF HandleMessage, Delivery!Passed, given
  <2>b. \A i \in 0 .. n - 1 : i \in 0 .. (n - 1) - 1 \/ i = n - 1
    OBVIOUS
  <2>4. Upto(n, q)'
    <3> DEFINE P == Delivery!Passed(q)'
    <3>1. 0 .. (n - 1) - 1 \subseteq P /\ n - 1 \in P
      BY <2>2, <2>3 DEF Upto
    <3> HIDE DEF P
    <3>2. 0 .. n - 1 \subseteq P
      BY <3>1, <2>b
    <3>3. n \in 0 .. end'[q]
      BY <2>2, <1>c
    <3> QED
      BY <3>2, <3>3 DEF Upto, P
  <2>5. at'[m][q] = "mark" /\ next' = next /\ marked' = marked /\ committed' = committed
    BY <1>13 DEF HandleMessage
  <2>6. \A k \in Member, r \in Partition : ~(k = m /\ r = q) => at'[k][r] = at[k][r]
    BY <1>13 DEF HandleMessage
  <2>7. CommitInv'
    BY <2>5, <1>a, <1>b DEF Grows
  <2>8. ASSUME NEW k \in Member, NEW r \in Partition
        PROVE  /\ at'[k][r] \in {"select", "mark"} => Upto(next[k][r], r)'
               /\ at'[k][r] = "handle" => next'[k][r] <= end'[r] /\ Upto(next[k][r] - 1, r)'
               /\ marked'[k][r] # NoOffset => Upto(marked[k][r], r)'
    <3>1. PICK x \in Int, y \in Int : x = next[k][r] /\ y = marked[k][r]
      BY <1>b
    <3>2. next'[k][r] = x /\ marked'[k][r] = y
      BY <3>1, <2>5
    <3>3. /\ Upto(x, r) => Upto(x, r)'
          /\ Upto(x - 1, r) => Upto(x - 1, r)'
          /\ Upto(y, r) => Upto(y, r)'
      BY <1>a DEF Grows
    <3>4. CASE k = m /\ r = q
      BY <3>1, <3>2, <3>3, <3>4, <2>1, <2>4, <2>5
    <3>5. CASE ~(k = m /\ r = q)
      BY <3>1, <3>2, <3>3, <3>5, <2>6, <1>c
    <3> QED
      BY <3>4, <3>5
  <2> QED
    BY <2>7, <2>8
<1>14. ASSUME NEW m \in Member, NEW q \in Partition, MarkMessage(m, q) PROVE SeenInv'
  BY <1>14, <1>a, <1>b, <1>c DEF MarkMessage, Grows
<1>15. ASSUME NEW m \in Member, NEW q \in Partition, ExitClaim(m, q) PROVE SeenInv'
  BY <1>15, <1>a, <1>b, <1>c DEF ExitClaim, Grows
<1>16. CASE UNCHANGED vars
  BY <1>16, <1>d DEF vars
<1> QED
  BY <1>1, <1>2, <1>3, <1>4, <1>5, <1>6, <1>7, <1>8, <1>9, <1>10, <1>11,
     <1>12, <1>13, <1>14, <1>15, <1>16
     DEF Next, Claim

LEMMA AlwaysSeenInv == Spec => [](TypeInv /\ SeenInv)
<1>1. TypeInv /\ SeenInv /\ [Next]_vars => (TypeInv /\ SeenInv)'
  BY StepTypeInv, StepSeenInv
<1> QED
  BY <1>1, InitTypeInv, InitSeenInv, PTL DEF Spec

\* A message below the committed offset has been given to a handler, or lies
\* before the point where consumption began, in spite of any crash or rebalance.
THEOREM NoMessageLost == Spec => []NothingLost
<1>1. TypeInv /\ SeenInv => NothingLost
  <2> SUFFICES ASSUME TypeInv, SeenInv, NEW q \in Partition
               PROVE  0 .. committed[q] - 1 \subseteq Delivery!Passed(q)
    BY DEF NothingLost, Delivery!NothingLost
  <2>1. CASE committed[q] = NoOffset
    BY <2>1 DEF NoOffset
  <2>2. CASE committed[q] # NoOffset
    BY <2>2 DEF SeenInv, CommitInv, Upto
  <2> QED
    BY <2>1, <2>2
<1> QED
  BY <1>1, AlwaysSeenInv, PTL

-----------------------------------------------------------------------------
(***************************************************************************)
(* Ownership.  Of the members the coordinator counts, one at most has a    *)
(* partition, and it is ahead of what is committed: a commit only moves    *)
(* the offset of a partition forward.                                      *)
(***************************************************************************)
Owns(m, q) == at[m][q] # "none" \/ marked[m][q] # NoOffset

Ahead(m, q) ==
  /\ at[m][q] \in {"select", "mark"} => next[m][q] >= committed[q] /\ next[m][q] >= marked[m][q]
  /\ at[m][q] = "handle" => next[m][q] > committed[q] /\ next[m][q] > marked[m][q]
  /\ marked[m][q] # NoOffset => marked[m][q] >= committed[q]

Idle == \A m \in Member : loop[m] # "session" => at[m] = NoClaim

Exclusive ==
  \A m, n \in Member, q \in Partition :
    Current(m) /\ Current(n) /\ Owns(m, q) /\ Owns(n, q) => m = n

OwnerInv == Idle /\ Exclusive /\ \A m \in Member, q \in Partition : Current(m) => Ahead(m, q)

LEMMA InitOwnerInv == Init => OwnerInv
BY DEF Init, OwnerInv, Idle, Exclusive, Current

\* A member that commits leaves the partitions of the others alone.
LEMMA CommitAhead ==
  ASSUME TypeInv, OwnerInv, NEW m \in Member, Current(m), committed' = Marks(m),
         UNCHANGED claimVars, NEW n \in Member, Current(n), NEW q \in Partition
  PROVE  Ahead(n, q)'
<1> USE BoundAssumption
    DEF TypeInv, TypeOK, Taken, OwnerInv, Ahead, Owns, Exclusive, Marks, claimVars, NoOffset, Offset
<1>1. CASE n = m
  BY <1>1
<1>2. CASE n # m /\ Owns(n, q)
  BY <1>2
<1>3. CASE ~Owns(n, q)
  BY <1>3
<1> QED
  BY <1>1, <1>2, <1>3

LEMMA StepOwnerInv == TypeInv /\ OwnerInv /\ [Next]_vars => OwnerInv'
<1> SUFFICES ASSUME TypeInv, OwnerInv, [Next]_vars PROVE OwnerInv'
  OBVIOUS
<1>a. ASSUME UNCHANGED <<committed, claimVars>>,
             \A m \in Member : Current(m)' => Current(m),
             \A m \in Member : loop'[m] # "session" => loop[m] # "session" \/ at[m] = NoClaim
      PROVE  OwnerInv'
  BY <1>a DEF OwnerInv, Idle, Exclusive, Owns, Ahead, claimVars
<1> USE BoundAssumption
    DEF TypeInv, TypeOK, NoOffset, Offset, Current, NoClaim, SetAt, groupVars, claimVars, history
<1>1. ASSUME NEW q \in Partition, Produce(q) PROVE OwnerInv'
  BY <1>1, <1>a DEF Produce
<1>2. CASE Rebalance
  <2>1. PICK owner \in [Partition -> {m \in Member : loop[m] = "join"}] :
          /\ at' = [m \in Member |-> [q \in Partition |->
                      IF owner[q] = m THEN "select" ELSE at[m][q]]]
          /\ next' = [m \in Member |-> [q \in Partition |->
                        IF owner[q] = m THEN Position(q) ELSE next[m][q]]]
    BY <1>2 DEF Rebalance
  <2>2. \A m \in Member : Current(m)' => loop[m] = "join"
    BY <1>2 DEF Rebalance
  <2>a. \A m \in Member : loop[m] = "join" => at[m] = [q \in Partition |-> "none"]
    BY DEF OwnerInv, Idle
  <2>3. \A m \in Member, q \in Partition :
          loop[m] = "join" => at'[m][q] = (IF owner[q] = m THEN "select" ELSE "none")
    BY <2>1, <2>a
  <2>4. \A m \in Member, q \in Partition : loop[m] = "join" => marked'[m][q] = NoOffset
    BY <1>2 DEF Rebalance, NoMark
  <2>5. Exclusive'
    BY <2>2, <2>3, <2>4 DEF Exclusive, Owns
  <2>6. \A q \in Partition : Position(q) >= committed[q] /\ Position(q) >= NoOffset
    BY DEF Position
  <2>7. \A m \in Member, q \in Partition : Current(m)' => Ahead(m, q)'
    BY <1>2, <2>1, <2>2, <2>3, <2>4, <2>6 DEF Rebalance, Ahead
  <2>8. Idle'
    BY <1>2, <2>1 DEF Rebalance, OwnerInv, Idle
  <2> QED
    BY <2>5, <2>7, <2>8 DEF OwnerInv
<1>3. ASSUME NEW m \in Member, CancelSession(m) PROVE OwnerInv'
  BY <1>3, <1>a DEF CancelSession
<1>4. ASSUME NEW m \in Member, BreakSession(m) PROVE OwnerInv'
  BY <1>4, <1>a DEF BreakSession
<1>5. ASSUME NEW m \in Member, AutoCommit(m) PROVE OwnerInv'
  <2>1. \A n \in Member, q \in Partition : Current(n)' => Ahead(n, q)'
    BY <1>5, CommitAhead DEF AutoCommit
  <2>2. Idle' /\ Exclusive'
    BY <1>5 DEF AutoCommit, OwnerInv, Idle, Exclusive, Owns
  <2> QED
    BY <2>1, <2>2 DEF OwnerInv
<1>6. ASSUME NEW m \in Member, Expire(m) PROVE OwnerInv'
  BY <1>6, <1>a DEF Expire
<1>7. ASSUME NEW m \in Member, Crash(m) PROVE OwnerInv'
  BY <1>7 DEF Crash, OwnerInv, Idle, Exclusive, Owns, Ahead
<1>8. ASSUME NEW m \in Member, Restart(m) PROVE OwnerInv'
  BY <1>8, <1>a DEF Restart
<1>9. ASSUME NEW m \in Member, Stop(m) PROVE OwnerInv'
  BY <1>9, <1>a DEF Stop
<1>10. ASSUME NEW m \in Member, EndSession(m) PROVE OwnerInv'
  <2>1. CASE UNCHANGED committed
    BY <1>10, <2>1, <1>a DEF EndSession
  <2>2. CASE Current(m) /\ committed' = Marks(m)
    <3>1. \A n \in Member, q \in Partition : Current(n)' => Ahead(n, q)'
      BY <1>10, <2>2, CommitAhead DEF EndSession
    <3>2. Idle' /\ Exclusive'
      BY <1>10 DEF EndSession, OwnerInv, Idle, Exclusive, Owns
    <3> QED
      BY <3>1, <3>2 DEF OwnerInv
  <2> QED
    BY <1>10, <2>1, <2>2 DEF EndSession
<1>11. ASSUME NEW m \in Member, EndLoop(m) PROVE OwnerInv'
  BY <1>11, <1>a DEF EndLoop
<1>12. ASSUME NEW m \in Member, NEW q \in Partition, TakeMessage(m, q) PROVE OwnerInv'
  <2>1. next[m][q] \in Int /\ committed[q] \in Int /\ marked[m][q] \in Int
    OBVIOUS
  <2>2. \A n \in Member : Current(n)' <=> Current(n)
    BY <1>12 DEF TakeMessage
  <2>3. \A n \in Member, r \in Partition : ~(n = m /\ r = q) =>
          at'[n][r] = at[n][r] /\ next'[n][r] = next[n][r]
    BY <1>12 DEF TakeMessage
  <2>4. marked' = marked /\ committed' = committed /\ loop' = loop
    BY <1>12 DEF TakeMessage
  <2>5. ASSUME NEW n \in Member, NEW r \in Partition, Current(n) PROVE Ahead(n, r)'
    <3>1. CASE n = m /\ r = q
      <4>1. Ahead(m, q)
        BY <2>5, <3>1 DEF OwnerInv
      <4> QED
        BY <1>12, <3>1, <4>1, <2>1, <2>4 DEF TakeMessage, Ahead
    <3>2. CASE ~(n = m /\ r = q)
      BY <2>5, <3>2, <2>3, <2>4 DEF OwnerInv, Ahead
    <3> QED
      BY <3>1, <3>2
  <2>6. Idle' /\ Exclusive'
    BY <1>12, <2>2, <2>3, <2>4 DEF TakeMessage, OwnerInv, Idle, Exclusive, Owns
  <2> QED
    BY <2>2, <2>5, <2>6 DEF OwnerInv
<1>13. ASSUME NEW m \in Member, NEW q \in Partition, HandleMessage(m, q) PROVE OwnerInv'
  <2>1. next[m][q] \in Int /\ committed[q] \in Int /\ marked[m][q] \in Int
    OBVIOUS
  <2>2. \A n \in Member : Current(n)' <=> Current(n)
    BY <1>13 DEF HandleMessage
  <2>3. \A n \in Member, r \in Partition : ~(n = m /\ r = q) =>
          at'[n][r] = at[n][r] /\ next'[n][r] = next[n][r]
    BY <1>13 DEF HandleMessage
  <2>4. marked' = marked /\ committed' = committed /\ loop' = loop
    BY <1>13 DEF HandleMessage
  <2>5. ASSUME NEW n \in Member, NEW r \in Partition, Current(n) PROVE Ahead(n, r)'
    <3>1. CASE n = m /\ r = q
      <4>1. Ahead(m, q)
        BY <2>5, <3>1 DEF OwnerInv
      <4> QED
        BY <1>13, <3>1, <4>1, <2>1, <2>4 DEF HandleMessage, Ahead
    <3>2. CASE ~(n = m /\ r = q)
      BY <2>5, <3>2, <2>3, <2>4 DEF OwnerInv, Ahead
    <3> QED
      BY <3>1, <3>2
  <2>6. Idle' /\ Exclusive'
    BY <1>13, <2>2, <2>3, <2>4 DEF HandleMessage, OwnerInv, Idle, Exclusive, Owns
  <2> QED
    BY <2>2, <2>5, <2>6 DEF OwnerInv
<1>14. ASSUME NEW m \in Member, NEW q \in Partition, MarkMessage(m, q) PROVE OwnerInv'
  BY <1>14 DEF MarkMessage, OwnerInv, Idle, Exclusive, Owns, Ahead
<1>15. ASSUME NEW m \in Member, NEW q \in Partition, ExitClaim(m, q) PROVE OwnerInv'
  BY <1>15 DEF ExitClaim, OwnerInv, Idle, Exclusive, Owns, Ahead
<1>16. CASE UNCHANGED vars
  BY <1>16, <1>a DEF vars
<1> QED
  BY <1>1, <1>2, <1>3, <1>4, <1>5, <1>6, <1>7, <1>8, <1>9, <1>10, <1>11,
     <1>12, <1>13, <1>14, <1>15, <1>16
     DEF Next, Claim

LEMMA AlwaysOwnerInv == Spec => []OwnerInv
BY InitTypeInv, StepTypeInv, InitOwnerInv, StepOwnerInv, PTL DEF Spec

\* Two members the coordinator counts never work on the same partition: neither
\* runs a claim of it, or holds a mark of it, while the other does.
THEOREM OneOwner == Spec => []Exclusive
<1>1. OwnerInv => Exclusive
  BY DEF OwnerInv
<1> QED BY <1>1, AlwaysOwnerInv, PTL

\* Only an expelled member that does not know it yet gives a handler a message
\* the group has already committed.
THEOREM CommittedNotRedelivered == Spec => []NoLateRedelivery
<1>1. TypeInv /\ OwnerInv => NoLateRedelivery
  <2> SUFFICES ASSUME TypeInv, OwnerInv, NEW m \in Member, NEW q \in Partition,
                      Current(m), at[m][q] = "handle"
               PROVE  next[m][q] - 1 >= committed[q]
    BY DEF NoLateRedelivery
  <2>1. next[m][q] \in Int /\ committed[q] \in Int
    BY BoundAssumption DEF TypeInv, TypeOK, Offset, NoOffset
  <2>2. next[m][q] > committed[q]
    BY DEF OwnerInv, Ahead
  <2> QED
    BY <2>1, <2>2
<1>2. Spec => []TypeInv
  BY InitTypeInv, StepTypeInv, PTL DEF Spec
<1> QED
  BY <1>1, <1>2, AlwaysOwnerInv, PTL

-----------------------------------------------------------------------------
(***************************************************************************)
(* The group implements KafkaDelivery.                                     *)
(***************************************************************************)
LEMMA StepDelivery ==
  TypeInv /\ SeenInv /\ SeenInv' /\ TypeInv' /\ OwnerInv /\ [Next]_vars => [Delivery!DNext]_(Delivery!dvars)
<1> SUFFICES ASSUME TypeInv, SeenInv, SeenInv', TypeInv', OwnerInv, [Next]_vars
             PROVE  Delivery!DNext \/ UNCHANGED Delivery!dvars
  OBVIOUS
<1> USE BoundAssumption
    DEF TypeInv, TypeOK, NoOffset, Delivery!NoOffset, Offset, Delivery!dvars, Delivery!DNext, given, history,
        groupVars, claimVars
<1>1. ASSUME NEW q \in Partition, Produce(q) PROVE Delivery!Append(q)
  BY <1>1 DEF Produce, Delivery!Append
<1>2. ASSUME Rebalance PROVE Delivery!DNext \/ UNCHANGED Delivery!dvars
  <2> DEFINE qs == {q \in Partition : committed[q] = NoOffset}
  <2>1. CASE Earliest
    <3>1. \A q \in qs : 0 .. Position(q) - 1 = {}
      BY <2>1 DEF Position
    <3>2. skipped' = skipped
      BY <1>2, <3>1 DEF Rebalance
    <3> QED
      BY <1>2, <3>2 DEF Rebalance
  <2>2. CASE ~Earliest
    <3>1. \A q \in qs : Position(q) = end[q]
      BY <2>2 DEF Position
    <3>2. skipped' = [q \in Partition |->
                        skipped[q] \cup (IF q \in qs THEN 0 .. end[q] - 1 ELSE {})]
      BY <1>2, <3>1 DEF Rebalance
    <3>3. Delivery!Begin(qs)
      BY <1>2, <2>2, <3>2 DEF Rebalance, Delivery!Begin
    <3> QED
      BY <3>3
  <2> QED
    BY <2>1, <2>2
<1>3. ASSUME NEW m \in Member, Current(m), committed' = Marks(m), UNCHANGED <<end, processed, failed, skipped>>
      PROVE  Delivery!CommitOffsets
  <2>1. committed' \in [Partition -> Int]
    OBVIOUS
  <2>2. ASSUME NEW q \in Partition, committed'[q] # committed[q]
        PROVE  /\ committed'[q] > committed[q]
               /\ committed'[q] <= end[q]
               /\ 0 .. committed'[q] - 1 \subseteq Delivery!Passed(q)
    <3>1. marked[m][q] # NoOffset /\ committed'[q] = marked[m][q]
      BY <1>3, <2>2 DEF Marks
    <3>2. Upto(marked[m][q], q) /\ marked[m][q] >= committed[q]
      BY <1>3, <3>1 DEF SeenInv, ClaimInv, OwnerInv, Ahead
    <3>3. marked[m][q] \in Int /\ committed[q] \in Int /\ end[q] \in Int
      OBVIOUS
    <3>4. committed'[q] > committed[q]
      <4>1. \A x, y \in Int : x # y /\ x >= y => x > y
        OBVIOUS
      <4>2. marked[m][q] # committed[q]
        BY <2>2, <3>1
      <4>3. marked[m][q] > committed[q]
        BY <4>1, <4>2, <3>2, <3>3
      <4> QED
        BY <4>3, <3>1
    <3>5. marked[m][q] <= end[q] /\ 0 .. marked[m][q] - 1 \subseteq Delivery!Passed(q)
      BY <3>2, <3>3 DEF Upto
    <3> QED
      BY <3>1, <3>4, <3>5
  <2> QED
    BY <1>3, <2>1, <2>2 DEF Delivery!CommitOffsets
<1>4. ASSUME NEW m \in Member, NEW q \in Partition, HandleMessage(m, q)
      PROVE  Delivery!Deliver(q, next[m][q] - 1) /\ next[m][q] - 1 \in 0 .. end[q] - 1
  <2>1. Upto(next[m][q] - 1, q) /\ next[m][q] \in 1 .. end[q]
    BY <1>4 DEF HandleMessage, SeenInv, ClaimInv, Taken
  <2>2. given' = [given EXCEPT ![q] = given[q] \cup {next[m][q] - 1}]
    <3>1. CASE processed' = [processed EXCEPT ![q] = processed[q] \cup {next[m][q] - 1}] /\ failed' = failed
      BY <3>1
    <3>2. CASE failed' = [failed EXCEPT ![q] = failed[q] \cup {next[m][q] - 1}] /\ processed' = processed
      BY <3>2
    <3> QED
      BY <1>4, <3>1, <3>2 DEF HandleMessage
  <2> QED
    BY <1>4, <2>1, <2>2 DEF HandleMessage, Delivery!Deliver, Upto
<1>5. ASSUME NEW m \in Member, AutoCommit(m) PROVE Delivery!CommitOffsets
  BY <1>5, <1>3 DEF AutoCommit
<1>6. ASSUME NEW m \in Member, EndSession(m) PROVE Delivery!CommitOffsets \/ UNCHANGED Delivery!dvars
  BY <1>6, <1>3 DEF EndSession
<1>7. ASSUME NEW m \in Member,
             \/ CancelSession(m) \/ BreakSession(m) \/ Expire(m) \/ Crash(m)
             \/ Restart(m) \/ Stop(m) \/ EndLoop(m)
             \/ \E q \in Partition : TakeMessage(m, q) \/ MarkMessage(m, q) \/ ExitClaim(m, q)
      PROVE  UNCHANGED Delivery!dvars
  BY <1>7 DEF CancelSession, BreakSession, Expire, Crash, Restart, Stop, EndLoop,
              TakeMessage, MarkMessage, ExitClaim
<1>8. CASE UNCHANGED vars
  BY <1>8 DEF vars
<1>9. ASSUME NEW m \in Member, NEW q \in Partition, HandleMessage(m, q) PROVE Delivery!DNext
  <2>1. Delivery!Deliver(q, next[m][q] - 1) /\ next[m][q] - 1 \in 0 .. end[q] - 1
    BY <1>4, <1>9
  <2> HIDE DEF TypeInv, TypeOK, Offset, Delivery!dvars, given
  <2>2. \E o \in 0 .. end[q] - 1 : Delivery!Deliver(q, o)
    BY <2>1
  <2> QED
    BY <2>2
<1>10. ASSUME NEW q \in Partition, Produce(q) PROVE Delivery!DNext
  BY <1>1, <1>10
<1>11. ASSUME NEW m \in Member, AutoCommit(m) PROVE Delivery!DNext
  BY <1>5, <1>11
<1>12. ASSUME NEW m \in Member, EndSession(m) PROVE Delivery!DNext \/ UNCHANGED Delivery!dvars
  BY <1>6, <1>12
<1> HIDE DEF Delivery!DNext, Delivery!dvars
<1> QED
  BY <1>2, <1>7, <1>8, <1>9, <1>10, <1>11, <1>12 DEF Next, Claim

\* Every behaviour of the group is one of the abstract delivery: in order, at
\* least once, with offsets that only grow.
THEOREM ConsumerImplementsDelivery == Spec => Delivered
<1>1. Init => Delivery!DInit
  BY DEF Init, Delivery!DInit, given, NoMark, NoOffset, Delivery!NoOffset
<1>2. Spec => []TypeInv
  BY InitTypeInv, StepTypeInv, PTL DEF Spec
<1> QED
  BY <1>1, <1>2, StepDelivery, AlwaysSeenInv, AlwaysOwnerInv, PTL DEF Spec, Delivered, Delivery!DSpec

-----------------------------------------------------------------------------
(***************************************************************************)
(* What KafkaDelivery implies, and so any program that implements it: the  *)
(* facts below are proved of the abstract specification, and hold of the   *)
(* group because it is one of its implementations.                         *)
(***************************************************************************)
\* What has been given to a handler or skipped is the beginning of the log: a
\* message has no chance to be delivered before an earlier one.
InOrder ==
  \A q \in Partition : \A o \in Delivery!Passed(q) :
    o \in 0 .. end[q] - 1 /\ 0 .. o \subseteq Delivery!Passed(q)

LogType ==
  /\ end \in [Partition -> Nat]
  /\ given \in [Partition -> SUBSET Int] /\ skipped \in [Partition -> SUBSET Int]

LEMMA DeliveryStep == LogType /\ InOrder /\ [Delivery!DNext]_(Delivery!dvars) => (LogType /\ InOrder)'
<1> SUFFICES ASSUME LogType, InOrder, [Delivery!DNext]_(Delivery!dvars)
             PROVE  LogType' /\ InOrder'
  OBVIOUS
<1>1. ASSUME NEW q \in Partition, Delivery!Append(q) PROVE LogType' /\ InOrder'
  <2>1. LogType' /\ \A p \in Partition : end'[p] >= end[p] /\ end[p] \in Nat
    BY <1>1 DEF Delivery!Append, LogType
  <2>2. \A p \in Partition : Delivery!Passed(p)' = Delivery!Passed(p)
    BY <1>1 DEF Delivery!Append, Delivery!Passed
  <2>3. ASSUME NEW p \in Partition, NEW o \in Delivery!Passed(p)'
        PROVE  o \in 0 .. end'[p] - 1 /\ 0 .. o \subseteq Delivery!Passed(p)'
    <3>1. o \in 0 .. end[p] - 1 /\ 0 .. o \subseteq Delivery!Passed(p)
      BY <2>2, <2>3 DEF InOrder
    <3> QED BY <2>1, <2>2, <3>1 DEF LogType
  <2> QED BY <2>1, <2>3 DEF InOrder
<1>2. ASSUME NEW q \in Partition, NEW o \in 0 .. end[q] - 1, Delivery!Deliver(q, o)
      PROVE  LogType' /\ InOrder'
  <2>1. LogType' /\ end' = end /\ end[q] \in Nat
    BY <1>2 DEF Delivery!Deliver, LogType
  <2>2. /\ Delivery!Passed(q)' = Delivery!Passed(q) \cup {o}
        /\ \A p \in Partition \ {q} : Delivery!Passed(p)' = Delivery!Passed(p)
        /\ 0 .. o - 1 \subseteq Delivery!Passed(q)
    BY <1>2 DEF Delivery!Deliver, Delivery!Passed, LogType
  <2>3. 0 .. o \subseteq Delivery!Passed(q)'
    BY <2>1, <2>2
  <2> QED BY <2>1, <2>2, <2>3 DEF InOrder
<1>3. ASSUME NEW qs \in SUBSET Partition, Delivery!Begin(qs) PROVE LogType' /\ InOrder'
  <2>1. end' = end /\ given' = given
        /\ skipped' = [q \in Partition |-> skipped[q] \cup (IF q \in qs THEN 0 .. end[q] - 1 ELSE {})]
    BY <1>3 DEF Delivery!Begin
  <2>2. LogType'
    BY <2>1 DEF LogType
  <2>3. ASSUME NEW p \in Partition, NEW o \in Delivery!Passed(p)'
        PROVE  o \in 0 .. end'[p] - 1 /\ 0 .. o \subseteq Delivery!Passed(p)'
    <3>1. Delivery!Passed(p)' = Delivery!Passed(p) \cup (IF p \in qs THEN 0 .. end[p] - 1 ELSE {})
      BY <2>1 DEF Delivery!Passed
    <3>2. end[p] \in Nat
      BY DEF LogType
    <3>3. CASE o \in Delivery!Passed(p)
      BY <2>1, <3>1, <3>3 DEF InOrder
    <3>4. CASE p \in qs /\ o \in 0 .. end[p] - 1
      BY <2>1, <3>1, <3>2, <3>4
    <3> QED BY <2>3, <3>1, <3>3, <3>4
  <2> QED BY <2>2, <2>3 DEF InOrder
<1>4. CASE Delivery!CommitOffsets \/ UNCHANGED Delivery!dvars
  <2>1. UNCHANGED <<end, given, skipped>>
    BY <1>4 DEF Delivery!CommitOffsets, Delivery!dvars
  <2> QED BY <2>1 DEF LogType, InOrder, Delivery!Passed
<1> QED
  BY <1>1, <1>2, <1>3, <1>4 DEF Delivery!DNext

\* Delivery has no gaps: whoever owns a partition and whatever crashes, no message
\* reaches a handler while an earlier one of its partition has not.
THEOREM DeliveredInOrder == Spec => []InOrder
<1>1. Delivery!DInit => LogType /\ InOrder
  BY DEF Delivery!DInit, LogType, InOrder, Delivery!Passed
<1>2. Delivery!DSpec => []InOrder
  BY <1>1, DeliveryStep, PTL DEF Delivery!DSpec
<1> QED
  BY <1>2, ConsumerImplementsDelivery, PTL DEF Delivered

\* The committed offset of a partition never moves back, so a message a member
\* has committed stays committed when others take the partition over.
CommitsGrow == [][\A q \in Partition : committed'[q] >= committed[q]]_committed

THEOREM CommitsNeverMoveBack == Spec => CommitsGrow
<1> DEFINE Grows == \A q \in Partition : committed'[q] >= committed[q]
<1>1. TypeInv /\ [Delivery!DNext]_(Delivery!dvars) => [Grows]_committed
  <2> SUFFICES ASSUME TypeInv, [Delivery!DNext]_(Delivery!dvars), committed' # committed PROVE Grows
    OBVIOUS
  <2>1. Delivery!CommitOffsets
    BY DEF Delivery!DNext, Delivery!Append, Delivery!Deliver, Delivery!Begin, Delivery!dvars
  <2>2. \A q \in Partition : committed[q] \in Int
    BY BoundAssumption DEF TypeInv, TypeOK, Offset, NoOffset
  <2> QED BY <2>1, <2>2 DEF Delivery!CommitOffsets
<1>2. Spec => []TypeInv
  BY InitTypeInv, StepTypeInv, PTL DEF Spec
<1> QED
  BY <1>1, <1>2, ConsumerImplementsDelivery, PTL DEF Delivered, Delivery!DSpec, CommitsGrow
=============================================================================
