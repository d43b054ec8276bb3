--------------------------- MODULE KafkaDelivery ---------------------------
(***************************************************************************)
(* What a consumer group of pkg/kafka promises about each partition of its *)
(* topics, whoever owns it and whatever crashes: messages reach a handler  *)
(* in order, any number of times, and the committed offset only moves      *)
(* forward, past messages that have reached one.                           *)
(***************************************************************************)
EXTENDS Integers

CONSTANTS
  Partition,     \* the partitions of the topics
  Earliest       \* AutoOffsetReset: "earliest", or else "latest"

NoOffset == -1   \* nothing is committed

VARIABLES
  end,           \* the number of messages in each partition
  committed,     \* the committed offset: the next message to deliver
  seen,          \* messages that have been given to a handler
  skipped        \* messages a reset to the latest offset has jumped over

dvars == <<end, committed, seen, skipped>>

Passed(q) == seen[q] \cup skipped[q]

DInit ==
  /\ end = [q \in Partition |-> 0]
  /\ committed = [q \in Partition |-> NoOffset]
  /\ seen = [q \in Partition |-> {}]
  /\ skipped = [q \in Partition |-> {}]

Append(q) ==
  /\ end' = [end EXCEPT ![q] = @ + 1]
  /\ UNCHANGED <<committed, seen, skipped>>

Deliver(q, o) ==
  /\ 0 .. o - 1 \subseteq Passed(q)
  /\ seen' = [seen EXCEPT ![q] = @ \cup {o}]
  /\ UNCHANGED <<end, committed, skipped>>

\* Consumption begins, in the partitions qs, before anything is committed.
Begin(qs) ==
  /\ ~Earliest
  /\ \A q \in qs : committed[q] = NoOffset
  /\ skipped' = [q \in Partition |->
                   skipped[q] \cup (IF q \in qs THEN 0 .. end[q] - 1 ELSE {})]
  /\ UNCHANGED <<end, committed, seen>>

CommitOffsets ==
  /\ committed' \in [Partition -> Int]
  /\ \A q \in Partition :
       committed'[q] # committed[q] =>
         /\ committed'[q] > committed[q]
         /\ committed'[q] <= end[q]
         /\ 0 .. committed'[q] - 1 \subseteq Passed(q)
  /\ UNCHANGED <<end, seen, skipped>>

DNext ==
  \/ \E q \in Partition : Append(q) \/ \E o \in 0 .. end[q] - 1 : Deliver(q, o)
  \/ \E qs \in SUBSET Partition : Begin(qs)
  \/ CommitOffsets

DSpec == DInit /\ [][DNext]_dvars

\* Nothing is lost: a message below the committed offset has been given to a
\* handler, or lies before the point where consumption began.
NothingLost ==
  \A q \in Partition : 0 .. committed[q] - 1 \subseteq Passed(q)
=============================================================================
