--------------------------- MODULE KafkaConsumer ---------------------------
(***************************************************************************)
(* pkg/kafka: the goroutines that ConsumeMessages starts, one for each     *)
(* process (member) of a consumer group, and the claims of                 *)
(* consumerGroupHandler.ConsumeClaim in their sessions.                    *)
(*                                                                         *)
(* The group coordinator and sarama are external: they assign partitions,  *)
(* cancel sessions, commit marked offsets and ignore the commits of a      *)
(* member that is no longer in the group.                                  *)
(***************************************************************************)
EXTENDS Integers

CONSTANTS
  Member,        \* the processes of the group
  Partition,     \* the partitions of its topics
  Earliest,      \* AutoOffsetReset: "earliest", or else "latest"
  MaxOffset,     \* bound: messages in a partition
  MaxFailures    \* bound: crashes, expired members and broken sessions

ASSUME GroupAssumption == Earliest \in BOOLEAN
ASSUME BoundAssumption == MaxOffset \in Nat /\ MaxFailures \in Nat

VARIABLES
  end,           \* the number of messages in each partition
  committed,     \* the committed offset of each partition
  members,       \* the members the coordinator counts in the current generation
  stale,         \* a member has left since the partitions were assigned
  loop,          \* the goroutine of ConsumeMessages in each process
  stop,          \* the processes whose context has ended
  live,          \* the sessions whose context has not ended
  at,            \* where the ConsumeClaim of each process and partition is
  next,          \* the offset of the message after the last one it took
  marked,        \* the offset its session has marked
  processed,     \* history: messages whose handler returned nil
  failed,        \* history: messages whose handler returned an error
  skipped,       \* history: messages a reset to the latest offset jumped over
  failures       \* the number of failures so far

vars == <<end, committed, members, stale, loop, stop, live, at, next, marked,
          processed, failed, skipped, failures>>
groupVars == <<members, stale>>
claimVars == <<at, next, marked>>
history == <<processed, failed>>

NoOffset == -1
Offset == 0 .. MaxOffset

\* A session that the coordinator still counts; the others are fenced.
Current(m) == m \in members /\ loop[m] = "session"

\* The coordinator wants the members to join again.
Rebalancing == stale \/ \E m \in Member : loop[m] = "join"

NoClaim == [q \in Partition |-> "none"]
NoMark == [q \in Partition |-> NoOffset]

Init ==
  /\ end = [q \in Partition |-> 0]
  /\ committed = NoMark
  /\ members = {} /\ stale = FALSE
  /\ loop = [m \in Member |-> "join"]
  /\ stop = {} /\ live = {}
  /\ at = [m \in Member |-> NoClaim]
  /\ next = [m \in Member |-> [q \in Partition |-> 0]]
  /\ marked = [m \in Member |-> NoMark]
  /\ processed = [q \in Partition |-> {}]
  /\ failed = [q \in Partition |-> {}]
  /\ skipped = [q \in Partition |-> {}]
  /\ failures = 0

-----------------------------------------------------------------------------
(***************************************************************************)
(* The coordinator and sarama.                                             *)
(***************************************************************************)

Produce(q) ==
  /\ end[q] < MaxOffset
  /\ end' = [end EXCEPT ![q] = @ + 1]
  /\ UNCHANGED <<committed, groupVars, loop, stop, live, claimVars, history, skipped, failures>>

\* Where a claim begins: at the committed offset, or where AutoOffsetReset says.
Position(q) ==
  CASE committed[q] # NoOffset             -> committed[q]
    [] committed[q] = NoOffset /\ Earliest -> 0
    [] OTHER                               -> end[q]

\* All members have joined again: every partition goes to one of those that
\* wait in Consume, and ConsumeClaim starts for it.
Rebalance ==
  LET joined == {m \in Member : loop[m] = "join"} IN
  /\ joined # {}
  /\ members \subseteq joined
  /\ members' = joined /\ stale' = FALSE
  /\ loop' = [m \in Member |-> IF m \in joined THEN "session" ELSE loop[m]]
  /\ live' = live \cup joined
  /\ \E owner \in [Partition -> joined] :
       /\ at' = [m \in Member |-> [q \in Partition |->
                   IF owner[q] = m THEN "select" ELSE at[m][q]]]
       /\ next' = [m \in Member |-> [q \in Partition |->
                     IF owner[q] = m THEN Position(q) ELSE next[m][q]]]
  /\ marked' = [m \in Member |-> IF m \in joined THEN NoMark ELSE marked[m]]
  /\ skipped' = [q \in Partition |->
                   IF committed[q] = NoOffset THEN skipped[q] \cup 0 .. Position(q) - 1
                                              ELSE skipped[q]]
  /\ UNCHANGED <<end, committed, stop, history, failures>>

\* The context of a session ends with the member's own, when a rebalance is due
\* and when the coordinator no longer counts the member.
CancelSession(m) ==
  /\ loop[m] = "session" /\ m \in live
  /\ m \in stop \/ Rebalancing \/ m \notin members
  /\ live' = live \ {m}
  /\ UNCHANGED <<end, committed, groupVars, loop, stop, claimVars, history, skipped, failures>>

\* A connection breaks and takes the session with it.
BreakSession(m) ==
  /\ failures < MaxFailures
  /\ failures' = failures + 1
  /\ loop[m] = "session" /\ m \in live
  /\ live' = live \ {m}
  /\ UNCHANGED <<end, committed, groupVars, loop, stop, claimVars, history, skipped>>

\* Offsets marked in a session, committed in one request.
Marks(m) ==
  [q \in Partition |-> IF marked[m][q] # NoOffset THEN marked[m][q] ELSE committed[q]]

\* AutoCommit.Interval has passed.
AutoCommit(m) ==
  /\ Current(m)
  /\ committed' = Marks(m)
  /\ UNCHANGED <<end, groupVars, loop, stop, live, claimVars, history, skipped, failures>>

\* The coordinator has not heard of a member for too long: one that has gone,
\* or, as a failure, one that is only slow.
Expire(m) ==
  /\ m \in members
  /\ \/ loop[m] \in {"down", "ended"} /\ UNCHANGED failures
     \/ loop[m] = "session" /\ failures < MaxFailures /\ failures' = failures + 1
  /\ members' = members \ {m} /\ stale' = TRUE
  /\ UNCHANGED <<end, committed, loop, stop, live, claimVars, history, skipped>>

Crash(m) ==
  /\ failures < MaxFailures
  /\ failures' = failures + 1
  /\ loop[m] \in {"join", "session"}
  /\ loop' = [loop EXCEPT ![m] = "down"]
  /\ live' = live \ {m}
  /\ at' = [at EXCEPT ![m] = NoClaim]
  /\ UNCHANGED <<end, committed, groupVars, stop, next, marked, history, skipped>>

Restart(m) ==
  /\ loop[m] = "down"
  /\ loop' = [loop EXCEPT ![m] = "join"]
  /\ UNCHANGED <<end, committed, groupVars, stop, live, claimVars, history, skipped, failures>>

\* The context given to ConsumeMessages ends.
Stop(m) ==
  /\ m \notin stop
  /\ stop' = stop \cup {m}
  /\ UNCHANGED <<end, committed, groupVars, loop, live, claimVars, history, skipped, failures>>

-----------------------------------------------------------------------------
(***************************************************************************)
(* ConsumeClaim: one goroutine for each partition of a session.            *)
(***************************************************************************)
SetAt(m, q, label) == at' = [at EXCEPT ![m][q] = label]

\* Mutant: the message is marked as soon as it is taken.
TakeMessageMarked(m, q) ==
  /\ at[m][q] = "select"
  /\ next[m][q] < end[q]
  /\ next' = [next EXCEPT ![m][q] = @ + 1]
  /\ marked' = [marked EXCEPT ![m][q] = next[m][q] + 1]
  /\ SetAt(m, q, "handle")
  /\ UNCHANGED <<end, committed, groupVars, loop, stop, live, history, skipped, failures>>

\* The select has a message; it may also have one when the session is over.
TakeMessage(m, q) ==
  /\ at[m][q] = "select"
  /\ next[m][q] < end[q]
  /\ next' = [next EXCEPT ![m][q] = @ + 1]
  /\ SetAt(m, q, "handle")
  /\ UNCHANGED <<end, committed, groupVars, loop, stop, live, marked, history, skipped, failures>>

\* HandleMessage returns nil, or an error, which goes to HandleError.
HandleMessage(m, q) ==
  LET o == next[m][q] - 1 IN
  /\ at[m][q] = "handle"
  /\ \/ processed' = [processed EXCEPT ![q] = @ \cup {o}] /\ UNCHANGED failed
     \/ failed' = [failed EXCEPT ![q] = @ \cup {o}] /\ UNCHANGED processed
  /\ SetAt(m, q, "mark")
  /\ UNCHANGED <<end, committed, groupVars, loop, stop, live, next, marked, skipped, failures>>

\* Mutant: the offset of the message after the next one is marked.
MarkMessageBeyond(m, q) ==
  /\ at[m][q] = "mark"
  /\ marked' = [marked EXCEPT ![m][q] = next[m][q] + 1]
  /\ SetAt(m, q, "select")
  /\ UNCHANGED <<end, committed, groupVars, loop, stop, live, next, history, skipped, failures>>

\* Whatever the handler returned.
MarkMessage(m, q) ==
  /\ at[m][q] = "mark"
  /\ marked' = [marked EXCEPT ![m][q] = next[m][q]]
  /\ SetAt(m, q, "select")
  /\ UNCHANGED <<end, committed, groupVars, loop, stop, live, next, history, skipped, failures>>

\* Mutant: the claim looks only for messages, as if their channel stayed open.
ExitClaimNever(m, q) ==
  /\ at[m][q] = "select"
  /\ m \notin live /\ m \in stop
  /\ SetAt(m, q, "none")
  /\ UNCHANGED <<end, committed, groupVars, loop, stop, live, next, marked, history, skipped, failures>>

\* The session's context has ended, or the channel of messages is closed.
ExitClaim(m, q) ==
  /\ at[m][q] = "select"
  /\ m \notin live
  /\ SetAt(m, q, "none")
  /\ UNCHANGED <<end, committed, groupVars, loop, stop, live, next, marked, history, skipped, failures>>

\* Consume returns when the last claim has: what is marked is committed, unless
\* that fails or the member is fenced, and the loop looks at its context.
EndSession(m) ==
  /\ loop[m] = "session" /\ m \notin live
  /\ at[m] = NoClaim
  /\ \/ Current(m) /\ committed' = Marks(m)
     \/ UNCHANGED committed
  /\ loop' = [loop EXCEPT ![m] = IF m \in stop THEN "ended" ELSE "join"]
  /\ UNCHANGED <<end, groupVars, stop, live, claimVars, history, skipped, failures>>

\* The context ends while Consume waits, or after it has failed.
EndLoop(m) ==
  /\ loop[m] = "join" /\ m \in stop
  /\ loop' = [loop EXCEPT ![m] = "ended"]
  /\ UNCHANGED <<end, committed, groupVars, stop, live, claimVars, history, skipped, failures>>

-----------------------------------------------------------------------------
Claim(m, q) == TakeMessage(m, q) \/ HandleMessage(m, q) \/ MarkMessage(m, q) \/ ExitClaim(m, q)

Next ==
  \/ \E q \in Partition : Produce(q)
  \/ Rebalance
  \/ \E m \in Member :
       \/ CancelSession(m) \/ BreakSession(m) \/ AutoCommit(m) \/ Expire(m)
       \/ Crash(m) \/ Restart(m) \/ Stop(m)
       \/ EndSession(m) \/ EndLoop(m)
       \/ \E q \in Partition : Claim(m, q)

Spec == Init /\ [][Next]_vars

(***************************************************************************)
(* The goroutines run and the handlers return; the coordinator completes a *)
(* rebalance, notices members that have gone, and cancels the sessions     *)
(* that are in its way.  A session that is over gives no messages, in the  *)
(* end, so its claims leave.  Nobody has to restart a process, and no      *)
(* commit has to succeed.                                                  *)
(***************************************************************************)
Fairness ==
  /\ WF_vars(Rebalance)
  /\ \A m \in Member :
       /\ WF_vars(CancelSession(m))
       /\ WF_vars(Expire(m) /\ loop[m] # "session")
       /\ WF_vars(EndSession(m)) /\ WF_vars(EndLoop(m))
       /\ \A q \in Partition :
            /\ WF_vars(m \in live /\ TakeMessage(m, q))
            /\ WF_vars(HandleMessage(m, q) \/ MarkMessage(m, q))
            /\ WF_vars(ExitClaim(m, q))

FairSpec == Spec /\ Fairness

-----------------------------------------------------------------------------
\* Every variable has its type.
TypeOK ==
  /\ end \in [Partition -> Offset]
  /\ committed \in [Partition -> Offset \cup {NoOffset}]
  /\ members \subseteq Member /\ stale \in BOOLEAN
  /\ loop \in [Member -> {"join", "session", "ended", "down"}]
  /\ stop \subseteq Member /\ live \subseteq Member
  /\ at \in [Member -> [Partition -> {"none", "select", "handle", "mark"}]]
  /\ next \in [Member -> [Partition -> Offset]]
  /\ marked \in [Member -> [Partition -> Offset \cup {NoOffset}]]
  /\ processed \in [Partition -> SUBSET Offset]
  /\ failed \in [Partition -> SUBSET Offset]
  /\ skipped \in [Partition -> SUBSET Offset]
  /\ failures \in 0 .. MaxFailures

\* What has been given to a handler, whatever it returned.
given == [q \in Partition |-> processed[q] \cup failed[q]]
Delivery == INSTANCE KafkaDelivery
  WITH end <- end, committed <- committed, seen <- given, skipped <- skipped

\* The group delivers at least once and in order, and its committed offsets only
\* grow, through crashes, rebalances and members that do not know of them.
Delivered == Delivery!DSpec

\* Nobody loses a message that way.
NothingLost == Delivery!NothingLost

\* A message below the committed offset is never given to a handler again, but by
\* a member that the group has expelled and that does not know it yet.
NoLateRedelivery ==
  \A m \in Member, q \in Partition :
    Current(m) /\ at[m][q] = "handle" => next[m][q] - 1 >= committed[q]

\* AutoOffsetReset cannot jump over these: with "latest", the messages that have not
\* been jumped over when the group has its first committed offset.
Owed(q, o) == o < end[q] /\ (Earliest \/ (committed[q] # NoOffset /\ o \notin skipped[q]))

\* Every message is given to a handler as long as a process consumes, with "latest"
\* from the first commit on: nothing is jumped over after that, whatever fails.
EventuallySeen ==
  \A q \in Partition, o \in Offset :
    Owed(q, o) ~> (o \in given[q] \/ \A m \in Member : loop[m] \in {"down", "ended"})

\* The comment "Mark message as processed": what is committed was processed.
OnlyProcessedCommitted ==
  \A q \in Partition :
    0 .. committed[q] - 1 \subseteq processed[q] \cup skipped[q]
=============================================================================
