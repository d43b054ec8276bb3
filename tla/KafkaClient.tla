---------------------------- MODULE KafkaClient ----------------------------
(***************************************************************************)
(* pkg/kafka: the parts of a Client that are made on first use, the        *)
(* goroutines it starts, and Close.  The fields are looked at without a    *)
(* lock; the init functions of the producers hold producerMutex, those of  *)
(* the consumers consumerMutex, and InitAdmin nothing.                     *)
(*                                                                         *)
(* sarama and the brokers are external: making a part or a request may     *)
(* fail, and an input that is closed panics.                               *)
(***************************************************************************)
EXTENDS Integers, FiniteSets

CONSTANTS
  Caller,        \* the goroutines that share the client
  Pipe,          \* messages and unread errors that an asynchronous producer holds
  BufferSize,    \* config.ChannelBufferSize
  MaxCalls,      \* bound: the number of calls
  None           \* no goroutine

ASSUME CallerAssumption == IsFiniteSet(Caller) /\ None \notin Caller
ASSUME BoundAssumption == Pipe \in Nat /\ BufferSize \in Nat /\ MaxCalls \in Nat

\* The parts in the order in which Close goes through them.
Part == {"producer", "async", "consumer", "group", "admin"}
Mutex == {"producerMutex", "consumerMutex"}
Guarded == Part \ {"admin"}
MutexOf(k) == IF k \in {"producer", "async"} THEN "producerMutex" ELSE "consumerMutex"

VARIABLES
  ref,           \* c.producer ... c.admin: "nil", "half" (the first word of the
                 \* interface is written), "set" or "closed"
  made,          \* history: how often sarama has made each part
  shut,          \* history: how many of them have been closed
  mutex,         \* who holds producerMutex and consumerMutex
  ctxDone,       \* c.ctx has ended
  ended,         \* the context the callers give has ended
  pc,            \* where each goroutine is
  op,            \* the operation it is in: the part it needs, or "close"
  worker,        \* the goroutine its ConsumeMessages or ConsumePartition started
  successes,     \* handleAsyncProducerMessages
  errors,        \* handleAsyncProducerErrors
  flying,        \* messages the asynchronous producer has not answered
  unread,        \* its errors nobody has read
  queued,        \* errors in c.errorChan
  closedChans,   \* c.messageChan and c.errorChan are closed
  panic,         \* why the program has ended: "closed" (a closed channel), "torn"
                 \* (half an interface), or "none"
  misuse,        \* history: Close was called during or before another operation
  calls          \* number of calls so far

vars == <<ref, made, shut, mutex, ctxDone, ended, pc, op, worker, successes, errors,
          flying, unread, queued, closedChans, panic, misuse, calls>>
partVars == <<ref, made, shut>>
ctxVars == <<ctxDone, ended>>
handlerVars == <<successes, errors, queued>>
pipeVars == <<flying, unread>>
endVars == <<closedChans, panic, misuse>>

Label == {"idle", "lock", "open", "store", "use", "wait", "chans"} \cup Part

Init ==
  /\ ref = [k \in Part |-> "nil"]
  /\ made = [k \in Part |-> 0] /\ shut = [k \in Part |-> 0]
  /\ mutex = [x \in Mutex |-> None]
  /\ ctxDone = FALSE /\ ended = FALSE
  /\ pc = [p \in Caller |-> "idle"]
  /\ op = [p \in Caller |-> "none"]
  /\ worker = [p \in Caller |-> "none"]
  /\ successes = "none" /\ errors = "none"
  /\ flying = 0 /\ unread = 0 /\ queued = 0
  /\ closedChans = FALSE /\ panic = "none" /\ misuse = FALSE
  /\ calls = 0

\* The next step of an operation; at "idle" it has returned.
Goto(p, label) ==
  /\ pc' = [pc EXCEPT ![p] = label]
  /\ op' = IF label = "idle" THEN [op EXCEPT ![p] = "none"] ELSE op

\* The part is there; an Init function that was called by itself has returned.
AfterInit(p) == Goto(p, "use") \/ Goto(p, "idle")
Closing(p) == op[p] = "close"

-----------------------------------------------------------------------------
\* Somebody calls Close, or has called it, when p comes.
Disturbs(p) == closedChans \/ \E q \in Caller \ {p} : Closing(q)

\* An operation begins with its nil check: an interface whose second word is not
\* written is not nil.  A guarded Init function begins with the lock.
Begin(p) ==
  /\ pc[p] = "idle"
  /\ calls < MaxCalls
  /\ calls' = calls + 1
  /\ \E k \in Part :
       /\ k \in {"consumer", "group"} => worker[p] = "none"
       /\ op' = [op EXCEPT ![p] = k]
       /\ \E label \in {"use", "lock", "open"} :
            /\ label = "use" => ref[k] # "nil"
            /\ label = "lock" => k \in Guarded
            /\ label = "open" => k = "admin" /\ ref[k] = "nil"
            /\ pc' = [pc EXCEPT ![p] = label]
  /\ misuse' = (misuse \/ Disturbs(p))
  /\ UNCHANGED <<partVars, mutex, ctxVars, worker, handlerVars, pipeVars, closedChans, panic>>

\* Mutant: the field is not looked at again under the lock.
LockOnly(p) ==
  LET k == op[p] IN
  /\ pc[p] = "lock"
  /\ mutex[MutexOf(k)] = None
  /\ mutex' = [mutex EXCEPT ![MutexOf(k)] = p]
  /\ Goto(p, "open")
  /\ UNCHANGED <<partVars, ctxVars, worker, handlerVars, pipeVars, endVars, calls>>

\* An Init function takes its lock and looks at the field again.
Lock(p) ==
  LET k == op[p] IN
  /\ pc[p] = "lock"
  /\ mutex[MutexOf(k)] = None
  /\ IF ref[k] # "nil"
       THEN AfterInit(p) /\ UNCHANGED mutex
       ELSE Goto(p, "open") /\ mutex' = [mutex EXCEPT ![MutexOf(k)] = p]
  /\ UNCHANGED <<partVars, ctxVars, worker, handlerVars, pipeVars, endVars, calls>>

Unlocked(k) == IF k \in Guarded THEN [mutex EXCEPT ![MutexOf(k)] = None] ELSE mutex

\* sarama makes the part, or cannot.  The interface is written in two words; over
\* another one, both words stay valid.
Open(p) ==
  LET k == op[p] IN
  /\ pc[p] = "open"
  /\ \/ /\ made' = [made EXCEPT ![k] = @ + 1]
        /\ ref' = [ref EXCEPT ![k] = IF @ = "nil" THEN "half" ELSE @]
        /\ Goto(p, "store") /\ UNCHANGED mutex
     \/ /\ mutex' = Unlocked(k)
        /\ Goto(p, "idle") /\ UNCHANGED <<ref, made>>
  /\ UNCHANGED <<shut, ctxVars, worker, handlerVars, pipeVars, endVars, calls>>

Store(p) ==
  LET k == op[p] IN
  /\ pc[p] = "store"
  /\ ref' = [ref EXCEPT ![k] = "set"]
  /\ mutex' = Unlocked(k)
  /\ IF k = "async" THEN successes' = "select" /\ errors' = "select"
                    ELSE UNCHANGED <<successes, errors>>
  /\ AfterInit(p)
  /\ UNCHANGED <<made, shut, ctxVars, worker, queued, pipeVars, endVars, calls>>

\* Half an interface, or the input of a producer that is closed.
Panic(reason) == panic' = reason

UseHalf(p) ==
  LET k == op[p] IN
  /\ pc[p] = "use"
  /\ k # "group" /\ ref[k] = "half"
  /\ Panic("torn")
  /\ UNCHANGED <<partVars, mutex, ctxVars, pc, op, worker, handlerVars, pipeVars,
                 closedChans, misuse, calls>>

UseClosedInput(p) ==
  LET k == op[p] IN
  /\ pc[p] = "use"
  /\ k \in {"producer", "async"} /\ ref[k] = "closed"
  /\ Panic("closed")
  /\ UNCHANGED <<partVars, mutex, ctxVars, pc, op, worker, handlerVars, pipeVars,
                 closedChans, misuse, calls>>

\* SendMessage and the admin operations return, with an error or without.
Use(p) ==
  LET k == op[p] IN
  /\ pc[p] = "use"
  /\ \/ k = "producer" /\ ref[k] = "set"
     \/ k = "admin" /\ ref[k] # "half"
  /\ Goto(p, "idle")
  /\ UNCHANGED <<partVars, mutex, ctxVars, worker, handlerVars, pipeVars, endVars, calls>>

\* The select of ProduceAsync: the producer takes the message, or the context
\* has ended.
Send(p) ==
  /\ pc[p] = "use" /\ op[p] = "async" /\ ref["async"] # "half"
  /\ \/ ref["async"] = "set" /\ flying + unread < Pipe /\ flying' = flying + 1
     \/ ended /\ UNCHANGED flying
  /\ Goto(p, "idle")
  /\ UNCHANGED <<partVars, mutex, ctxVars, worker, handlerVars, unread, endVars, calls>>

\* ConsumePartition fails, or starts its goroutine; ConsumeMessages starts one
\* that has not looked at c.consumerGroup yet.
StartWorker(p) ==
  LET k == op[p] IN
  /\ pc[p] = "use"
  /\ \/ k = "consumer" /\ ref[k] = "set" /\ worker' = [worker EXCEPT ![p] = "loop"]
     \/ k = "consumer" /\ ref[k] # "half" /\ UNCHANGED worker
     \/ k = "group" /\ worker' = [worker EXCEPT ![p] = "start"]
  /\ Goto(p, "idle")
  /\ UNCHANGED <<partVars, mutex, ctxVars, handlerVars, pipeVars, endVars, calls>>

-----------------------------------------------------------------------------
(***************************************************************************)
(* The goroutines of the client.                                           *)
(***************************************************************************)

\* The loop of ConsumeMessages calls Consume; what Consume then does is in
\* KafkaConsumer.
FirstConsume(p) ==
  /\ worker[p] = "start"
  /\ IF ref["group"] = "half"
       THEN Panic("torn") /\ UNCHANGED worker
       ELSE worker' = [worker EXCEPT ![p] = "loop"] /\ UNCHANGED panic
  /\ UNCHANGED <<partVars, mutex, ctxVars, pc, op, handlerVars, pipeVars, closedChans,
                 misuse, calls>>

\* Both loops end with the context the caller gave, not with the client's.
EndWorker(p) ==
  /\ worker[p] # "none" /\ ended
  /\ worker' = [worker EXCEPT ![p] = "none"]
  /\ UNCHANGED <<partVars, mutex, ctxVars, pc, op, handlerVars, pipeVars, endVars, calls>>

EndSuccesses ==
  /\ successes = "select" /\ ctxDone
  /\ successes' = "exited"
  /\ UNCHANGED <<partVars, mutex, ctxVars, pc, op, worker, errors, queued, pipeVars, endVars, calls>>

EndErrors ==
  /\ errors = "select" /\ ctxDone
  /\ errors' = "exited"
  /\ UNCHANGED <<partVars, mutex, ctxVars, pc, op, worker, successes, queued, pipeVars, endVars, calls>>

TakeError ==
  /\ errors = "select" /\ unread > 0
  /\ unread' = unread - 1
  /\ errors' = "send"
  /\ UNCHANGED <<partVars, mutex, ctxVars, pc, op, worker, successes, queued, flying, endVars, calls>>

\* Mutant: the goroutine waits for room in the channel.
ForwardErrorWaiting ==
  /\ errors = "send"
  /\ queued < BufferSize
  /\ queued' = queued + 1 /\ errors' = "select"
  /\ UNCHANGED <<partVars, mutex, ctxVars, pc, op, worker, successes, pipeVars, endVars, calls>>

\* Mutant: there is always room in the channel.
ForwardErrorAlways ==
  /\ errors = "send"
  /\ queued' = queued + 1 /\ errors' = "select"
  /\ UNCHANGED <<partVars, mutex, ctxVars, pc, op, worker, successes, pipeVars, endVars, calls>>

\* The error goes to c.errorChan, which nobody reads, and is dropped when that is
\* full.
ForwardError ==
  /\ errors = "send"
  /\ IF closedChans
       THEN Panic("closed") /\ UNCHANGED <<queued, errors>>
       ELSE /\ queued' = IF queued < BufferSize THEN queued + 1 ELSE queued
            /\ errors' = "select" /\ UNCHANGED panic
  /\ UNCHANGED <<partVars, mutex, ctxVars, pc, op, worker, successes, pipeVars, closedChans,
                 misuse, calls>>

\* A broker answers a message, or its retries are used up.
Answer ==
  /\ flying > 0
  /\ flying' = flying - 1
  /\ unread' \in {unread, unread + 1}
  /\ UNCHANGED <<partVars, mutex, ctxVars, pc, op, worker, handlerVars, endVars, calls>>

EndContext ==
  /\ ~ended
  /\ ended' = TRUE
  /\ UNCHANGED <<partVars, mutex, ctxDone, pc, op, worker, handlerVars, pipeVars, endVars, calls>>

\* The context given to New ends.
EndParent ==
  /\ ~ctxDone
  /\ ctxDone' = TRUE
  /\ UNCHANGED <<partVars, mutex, ended, pc, op, worker, handlerVars, pipeVars, endVars, calls>>

-----------------------------------------------------------------------------
(***************************************************************************)
(* Close.                                                                  *)
(***************************************************************************)
Cancel(p) ==
  /\ pc[p] = "idle"
  /\ calls < MaxCalls
  /\ calls' = calls + 1
  /\ ctxDone' = TRUE
  /\ op' = [op EXCEPT ![p] = "close"]
  /\ pc' = [pc EXCEPT ![p] = "producer"]
  /\ misuse' = (misuse \/ Disturbs(p) \/ \E q \in Caller : pc[q] # "idle")
  /\ UNCHANGED <<partVars, mutex, ended, worker, handlerVars, pipeVars, closedChans, panic>>

AfterPart(k) ==
  CASE k = "producer" -> "async" [] k = "async" -> "consumer" [] k = "consumer" -> "group"
    [] k = "group" -> "admin" [] k = "admin" -> "wait"

\* The first part behind a mutex takes it, the second one gives it back.
HandOver(p, k) ==
  CASE k \in {"producer", "consumer"} ->
         mutex[MutexOf(k)] = None /\ mutex' = [mutex EXCEPT ![MutexOf(k)] = p]
    [] k \in {"async", "group"} -> mutex' = [mutex EXCEPT ![MutexOf(k)] = None]
    [] k = "admin" -> UNCHANGED mutex

\* Mutant: Close does not know of the asynchronous producer.
ClosePartNotAsync(p, k) ==
  /\ pc[p] = k
  /\ HandOver(p, k)
  /\ ref' = [ref EXCEPT ![k] = IF @ = "set" /\ k # "async" THEN "closed" ELSE @]
  /\ shut' = IF ref[k] = "set" /\ k # "async" THEN [shut EXCEPT ![k] = @ + 1] ELSE shut
  /\ Goto(p, AfterPart(k))
  /\ UNCHANGED <<made, ctxVars, worker, handlerVars, pipeVars, endVars, calls>>

\* A part that was made is closed; the asynchronous producer answers what it
\* holds and its errors are read.
ClosePart(p, k) ==
  /\ pc[p] = k
  /\ ref[k] # "half"
  /\ k \in {"producer", "async"} => ref[k] # "closed"
  /\ HandOver(p, k)
  /\ ref' = [ref EXCEPT ![k] = IF @ = "set" THEN "closed" ELSE @]
  /\ shut' = IF ref[k] = "set" THEN [shut EXCEPT ![k] = @ + 1] ELSE shut
  /\ IF k = "async" THEN flying' = 0 /\ unread' = 0 ELSE UNCHANGED pipeVars
  /\ Goto(p, AfterPart(k))
  /\ UNCHANGED <<made, ctxVars, worker, handlerVars, endVars, calls>>

\* A producer is closed a second time, or half of the admin client.
ClosePanics(p, k) ==
  /\ pc[p] = k
  /\ k = "producer" => mutex[MutexOf(k)] = None
  /\ \/ k \in {"producer", "async"} /\ ref[k] = "closed" /\ Panic("closed")
     \/ k = "admin" /\ ref[k] = "half" /\ Panic("torn")
  /\ UNCHANGED <<partVars, mutex, ctxVars, pc, op, worker, handlerVars, pipeVars,
                 closedChans, misuse, calls>>

WaitGroup ==
  Cardinality({p \in Caller : worker[p] # "none"})
    + Cardinality({h \in {"successes", "errors"} :
                     IF h = "errors" THEN errors \in {"select", "send"} ELSE successes = "select"})

\* Mutant: Close does not wait.
WaitForNobody(p) ==
  /\ pc[p] = "wait"
  /\ Goto(p, "chans")
  /\ UNCHANGED <<partVars, mutex, ctxVars, worker, handlerVars, pipeVars, endVars, calls>>

Wait(p) ==
  /\ pc[p] = "wait"
  /\ WaitGroup = 0
  /\ Goto(p, "chans")
  /\ UNCHANGED <<partVars, mutex, ctxVars, worker, handlerVars, pipeVars, endVars, calls>>

CloseChans(p) ==
  /\ pc[p] = "chans"
  /\ IF closedChans
       THEN Panic("closed") /\ UNCHANGED <<closedChans, pc, op>>
       ELSE closedChans' = TRUE /\ Goto(p, "idle") /\ UNCHANGED panic
  /\ UNCHANGED <<partVars, mutex, ctxVars, worker, handlerVars, pipeVars, misuse, calls>>

-----------------------------------------------------------------------------
\* What a goroutine does on its own once it has been called.
Operate(p) ==
  \/ Lock(p) \/ Open(p) \/ Store(p)
  \/ UseHalf(p) \/ UseClosedInput(p) \/ Use(p) \/ Send(p) \/ StartWorker(p)

Close(p) ==
  \/ Wait(p) \/ CloseChans(p)
  \/ \E k \in Part : ClosePart(p, k) \/ ClosePanics(p, k)

Work(p) == FirstConsume(p) \/ EndWorker(p)

HandleErrors == TakeError \/ ForwardError

Next ==
  /\ panic = "none"
  /\ \/ \E p \in Caller : Begin(p) \/ Cancel(p) \/ Operate(p) \/ Close(p) \/ Work(p)
     \/ EndSuccesses \/ EndErrors \/ HandleErrors \/ Answer \/ EndContext \/ EndParent

Spec == Init /\ [][Next]_vars

(***************************************************************************)
(* Goroutines run; a request and the making of a part end, and the         *)
(* producer answers.  A mutex and the input of the producer are handed to  *)
(* waiters in turn, and a select picks a case that is ready again and      *)
(* again.  No context has to end.                                          *)
(***************************************************************************)
Fairness ==
  /\ \A p \in Caller :
       /\ SF_vars(panic = "none" /\ (Operate(p) \/ Close(p)))
       /\ WF_vars(panic = "none" /\ Work(p))
  /\ WF_vars(panic = "none" /\ EndSuccesses) /\ SF_vars(panic = "none" /\ EndErrors)
  /\ WF_vars(panic = "none" /\ HandleErrors) /\ WF_vars(panic = "none" /\ Answer)

FairSpec == Spec /\ Fairness

-----------------------------------------------------------------------------
\* Every variable has its type; the buffer of errorChan is bounded.
TypeOK ==
  /\ ref \in [Part -> {"nil", "half", "set", "closed"}]
  /\ made \in [Part -> Nat] /\ shut \in [Part -> Nat]
  /\ mutex \in [Mutex -> Caller \cup {None}]
  /\ ctxDone \in BOOLEAN /\ ended \in BOOLEAN
  /\ pc \in [Caller -> Label]
  /\ op \in [Caller -> Part \cup {"close", "none"}]
  /\ worker \in [Caller -> {"none", "start", "loop"}]
  /\ successes \in {"none", "select", "exited"}
  /\ errors \in {"none", "select", "send", "exited"}
  /\ flying \in Nat /\ unread \in Nat
  /\ queued \in 0 .. BufferSize
  /\ closedChans \in BOOLEAN /\ misuse \in BOOLEAN
  /\ panic \in {"none", "closed", "torn"}
  /\ calls \in 0 .. MaxCalls

\* However many goroutines come first, each part behind a mutex is made once.
OneOfEach == \A k \in Guarded : made[k] <= 1

\* The client never uses a closed channel when Close is called once, after all
\* operations: its own goroutines, and consumers that are still running, do not
\* get in the way.
NoPanicInOrder == panic = "closed" => misuse

\* Called that way, Close closes every part that was made, but for admin clients
\* that two first operations made at once.
AllClosed ==
  closedChans /\ ~misuse =>
    /\ \A k \in Guarded : shut[k] = made[k]
    /\ made["admin"] > 0 => shut["admin"] = 1

Over == panic # "none"

\* Close ends if the context of the callers does.
CloseEnds ==
  <>ended => \A p \in Caller : Closing(p) ~> ~Closing(p) \/ Over

\* ProduceAsync ends as long as the context of the client lives: the errors of
\* the producer are read, and there is room for the next message.
ProduceEnds ==
  \A p \in Caller :
    pc[p] = "use" /\ op[p] = "async" ~> pc[p] # "use" \/ ctxDone \/ Over

\* Neither a Close nor a ProduceAsync waits for ever for the client's own
\* goroutines, although nobody reads errorChan.
Ends == CloseEnds /\ ProduceEnds

\* "Close gracefully shuts down the client": it returns.
CloseReturns == \A p \in Caller : Closing(p) ~> ~Closing(p) \/ Over
=============================================================================
