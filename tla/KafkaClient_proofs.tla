------------------------- MODULE KafkaClient_proofs -------------------------
(***************************************************************************)
(* Proofs about KafkaClient, for any finite set of callers and any size of *)
(* the producer and of errorChan.                                          *)
(***************************************************************************)
EXTENDS KafkaClient, FiniteSetTheorems, TLAPS

USE DEF partVars, ctxVars, handlerVars, pipeVars, endVars

-----------------------------------------------------------------------------
(***************************************************************************)
(* Type correctness.                                                       *)
(***************************************************************************)

\* A step of an operation leads to a label, and to no operation at "idle".
LEMMA GotoType ==
  ASSUME TypeOK, NEW p \in Caller, NEW label \in Label, Goto(p, label)
  PROVE  pc' \in [Caller -> Label] /\ op' \in [Caller -> Part \cup {"close", "none"}]
BY DEF TypeOK, Goto

\* The mutexes are always held by a caller or by nobody.
LEMMA MutexType ==
  ASSUME TypeOK, NEW x \in Mutex, NEW h \in Caller \cup {None}
  PROVE  [mutex EXCEPT ![x] = h] \in [Mutex -> Caller \cup {None}]
BY DEF TypeOK

LEMMA MutexOfType == \A k : MutexOf(k) \in Mutex
BY DEF MutexOf, Mutex

LEMMA TypeStep == TypeOK /\ [Next]_vars => TypeOK'
<1> SUFFICES ASSUME TypeOK, [Next]_vars PROVE TypeOK'
  OBVIOUS
<1> USE GotoType, MutexType, MutexOfType, BoundAssumption
<1>1. ASSUME NEW p \in Caller, Begin(p) PROVE TypeOK'
  <2>1. pc' \in [Caller -> Label]
    BY <1>1 DEF Begin, TypeOK, Label, Part
  <2>2. op' \in [Caller -> Part \cup {"close", "none"}]
    BY <1>1 DEF Begin, TypeOK
  <2>3. misuse' \in BOOLEAN
    BY <1>1, Zenon DEF Begin
  <2>4. calls' \in 0 .. MaxCalls
    BY <1>1 DEF Begin, TypeOK
  <2> QED
    BY <1>1, <2>1, <2>2, <2>3, <2>4 DEF Begin, TypeOK
<1>2. ASSUME NEW p \in Caller, Cancel(p) PROVE TypeOK'
  <2>1. pc' \in [Caller -> Label]
    BY <1>2 DEF Cancel, TypeOK, Label, Part
  <2>2. op' \in [Caller -> Part \cup {"close", "none"}]
    BY <1>2 DEF Cancel, TypeOK
  <2>3. misuse' \in BOOLEAN
    BY <1>2, Zenon DEF Cancel
  <2>4. calls' \in 0 .. MaxCalls
    BY <1>2 DEF Cancel, TypeOK
  <2> QED
    BY <1>2, <2>1, <2>2, <2>3, <2>4 DEF Cancel, TypeOK
<1>3. ASSUME NEW p \in Caller, Lock(p) PROVE TypeOK'
  <2>1. pc' \in [Caller -> Label] /\ op' \in [Caller -> Part \cup {"close", "none"}]
    BY <1>3 DEF Lock, AfterInit, Label, Part
  <2>2. mutex' \in [Mutex -> Caller \cup {None}]
    BY <1>3 DEF TypeOK, Lock
  <2> QED
    BY <1>3, <2>1, <2>2 DEF Lock, TypeOK
<1>4. ASSUME NEW p \in Caller, Open(p) PROVE TypeOK'
  <2>1. pc' \in [Caller -> Label] /\ op' \in [Caller -> Part \cup {"close", "none"}]
    BY <1>4 DEF Open, Unlocked, Label, Part
  <2>2. mutex' \in [Mutex -> Caller \cup {None}]
    BY <1>4 DEF TypeOK, Open, Unlocked
  <2> QED
    BY <1>4, <2>1, <2>2 DEF Open, TypeOK
<1>5. ASSUME NEW p \in Caller, Store(p) PROVE TypeOK'
  <2>1. pc' \in [Caller -> Label] /\ op' \in [Caller -> Part \cup {"close", "none"}]
    BY <1>5 DEF Store, AfterInit, Unlocked, Label, Part
  <2>2. mutex' \in [Mutex -> Caller \cup {None}]
    BY <1>5 DEF TypeOK, Store, Unlocked
  <2> QED
    BY <1>5, <2>1, <2>2 DEF Store, TypeOK
<1>6. ASSUME NEW p \in Caller, UseHalf(p) PROVE TypeOK'
  BY <1>6 DEF UseHalf, Panic, TypeOK
<1>7. ASSUME NEW p \in Caller, UseClosedInput(p) PROVE TypeOK'
  BY <1>7 DEF UseClosedInput, Panic, TypeOK
<1>8. ASSUME NEW p \in Caller, Use(p) PROVE TypeOK'
  <2>1. pc' \in [Caller -> Label] /\ op' \in [Caller -> Part \cup {"close", "none"}]
    BY <1>8 DEF Use, Label, Part
  <2> QED
    BY <1>8, <2>1 DEF Use, TypeOK
<1>9. ASSUME NEW p \in Caller, Send(p) PROVE TypeOK'
  <2>1. pc' \in [Caller -> Label] /\ op' \in [Caller -> Part \cup {"close", "none"}]
    BY <1>9 DEF Send, Label, Part
  <2> QED
    BY <1>9, <2>1 DEF Send, TypeOK
<1>10. ASSUME NEW p \in Caller, StartWorker(p) PROVE TypeOK'
  <2>1. pc' \in [Caller -> Label] /\ op' \in [Caller -> Part \cup {"close", "none"}]
    BY <1>10 DEF StartWorker, Label, Part
  <2> QED
    BY <1>10, <2>1 DEF StartWorker, TypeOK
<1>11. ASSUME NEW p \in Caller, Wait(p) PROVE TypeOK'
  <2>1. pc' \in [Caller -> Label] /\ op' \in [Caller -> Part \cup {"close", "none"}]
    BY <1>11 DEF Wait, Label, Part
  <2> QED
    BY <1>11, <2>1 DEF Wait, TypeOK
<1>12. ASSUME NEW p \in Caller, CloseChans(p) PROVE TypeOK'
  <2>1. pc' \in [Caller -> Label] /\ op' \in [Caller -> Part \cup {"close", "none"}]
    BY <1>12 DEF CloseChans, Panic, Label, TypeOK
  <2> QED
    BY <1>12, <2>1 DEF CloseChans, TypeOK, Panic
<1>13. ASSUME NEW p \in Caller, NEW k \in Part, ClosePart(p, k) PROVE TypeOK'
  <2>1. pc' \in [Caller -> Label] /\ op' \in [Caller -> Part \cup {"close", "none"}]
    BY <1>13 DEF ClosePart, HandOver, AfterPart, Label, Part
  <2>2. mutex' \in [Mutex -> Caller \cup {None}]
    <3>1. mutex' = mutex \/ \E h \in Caller \cup {None} : mutex' = [mutex EXCEPT ![MutexOf(k)] = h]
      <4>1. k \in {"producer", "consumer"} => mutex' = [mutex EXCEPT ![MutexOf(k)] = p]
        BY <1>13 DEF ClosePart, HandOver
      <4>2. k \in {"async", "group"} => mutex' = [mutex EXCEPT ![MutexOf(k)] = None]
        BY <1>13 DEF ClosePart, HandOver
      <4>3. k = "admin" => mutex' = mutex
        BY <1>13 DEF ClosePart, HandOver
      <4> QED
        BY <4>1, <4>2, <4>3 DEF Part
    <3> QED
      BY <3>1 DEF TypeOK
  <2> QED
    BY <1>13, <2>1, <2>2 DEF ClosePart, TypeOK
<1>14. ASSUME NEW p \in Caller, NEW k \in Part, ClosePanics(p, k) PROVE TypeOK'
  BY <1>14 DEF ClosePanics, Panic, TypeOK
<1>15. ASSUME NEW p \in Caller, FirstConsume(p) PROVE TypeOK'
  BY <1>15 DEF FirstConsume, Panic, TypeOK
<1>16. ASSUME NEW p \in Caller, EndWorker(p) PROVE TypeOK'
  BY <1>16 DEF EndWorker, TypeOK
<1>17. ASSUME EndSuccesses PROVE TypeOK'
  BY <1>17 DEF EndSuccesses, TypeOK
<1>18. ASSUME EndErrors PROVE TypeOK'
  BY <1>18 DEF EndErrors, TypeOK
<1>19. ASSUME TakeError PROVE TypeOK'
  BY <1>19 DEF TakeError, TypeOK
<1>20. ASSUME ForwardError PROVE TypeOK'
  BY <1>20 DEF ForwardError, Panic, TypeOK
<1>21. ASSUME Answer PROVE TypeOK'
  BY <1>21 DEF Answer, TypeOK
<1>22. ASSUME EndContext PROVE TypeOK'
  BY <1>22 DEF EndContext, TypeOK
<1>23. ASSUME EndParent PROVE TypeOK'
  BY <1>23 DEF EndParent, TypeOK
<1>24. CASE UNCHANGED vars
  BY <1>24 DEF vars, TypeOK
<1> QED
  BY <1>1, <1>2, <1>3, <1>4, <1>5, <1>6, <1>7, <1>8, <1>9, <1>10, <1>11, <1>12, <1>13, <1>14, <1>15, <1>16, <1>17, <1>18, <1>19, <1>20, <1>21, <1>22, <1>23, <1>24 DEF Next, Operate, Close, Work, HandleErrors

\* The variables have their types.
THEOREM TypeCorrect == Spec => []TypeOK
<1>1. Init => TypeOK
  <2>1. Init => queued \in 0 .. BufferSize /\ calls \in 0 .. MaxCalls /\ flying \in Nat /\ unread \in Nat
    BY BoundAssumption DEF Init
  <2>2. Init => /\ made \in [Part -> Nat] /\ shut \in [Part -> Nat]
                /\ mutex \in [Mutex -> Caller \cup {None}]
    BY DEF Init
  <2> QED
    BY <2>1, <2>2 DEF Init, TypeOK, Label
<1> QED
  BY <1>1, TypeStep, PTL DEF Spec

-----------------------------------------------------------------------------
(***************************************************************************)
(* Each part behind a mutex is made once.  Its Init function finds nothing *)
(* under the mutex, and nobody else can make the part before it is stored: *)
(* the argument needs who owns the mutexes when.                           *)
(***************************************************************************)
Owns(p, x) ==
  \/ pc[p] \in {"open", "store"} /\ op[p] \in Guarded /\ MutexOf(op[p]) = x
  \/ pc[p] = "async" /\ x = "producerMutex"
  \/ pc[p] = "group" /\ x = "consumerMutex"

MutexInv == \A p \in Caller, x \in Mutex : Owns(p, x) => mutex[x] = p

\* What is in progress, and where.
OpInv ==
  \A p \in Caller :
    /\ pc[p] = "idle" <=> op[p] = "none"
    /\ pc[p] \in {"lock", "open", "store", "use"} <=> op[p] \in Part
    /\ pc[p] = "lock" => op[p] \in Guarded

MadeInv ==
  \A k \in Guarded :
    /\ made[k] = IF ref[k] = "nil" THEN 0 ELSE 1
    /\ \A p \in Caller : op[p] = k =>
         /\ pc[p] = "open" => ref[k] = "nil"
         /\ pc[p] = "store" => ref[k] = "half"

\* A step of p moves p alone.
LEMMA GotoMoves ==
  ASSUME TypeOK, NEW p \in Caller, NEW label, Goto(p, label)
  PROVE  /\ pc'[p] = label
         /\ op'[p] = IF label = "idle" THEN "none" ELSE op[p]
         /\ \A q \in Caller \ {p} : pc'[q] = pc[q] /\ op'[q] = op[q]
BY DEF TypeOK, Goto


\* Steps that do not touch the parts, the mutexes and where operations are.
Quiet == UNCHANGED <<ref, made, shut, mutex, pc, op>>

LEMMA QuietSteps ==
  /\ \A p \in Caller : UseHalf(p) \/ UseClosedInput(p) \/ Work(p) => Quiet
  /\ \A p \in Caller, k \in Part : ClosePanics(p, k) => Quiet
  /\ EndSuccesses \/ EndErrors \/ HandleErrors \/ Answer \/ EndContext \/ EndParent => Quiet
  /\ UNCHANGED vars => Quiet
BY DEF Quiet, UseHalf, UseClosedInput, Work, FirstConsume, EndWorker, ClosePanics, EndSuccesses,
       EndErrors, HandleErrors, TakeError, ForwardError, Answer, EndContext, EndParent, vars

\* Operations begin and end with their labels.
LEMMA OpInvStep == TypeOK /\ OpInv /\ [Next]_vars => OpInv'
<1> SUFFICES ASSUME TypeOK, OpInv, [Next]_vars PROVE OpInv'
  OBVIOUS
<1> USE GotoMoves
<1>1. ASSUME NEW p \in Caller, Begin(p) PROVE OpInv'
  BY <1>1 DEF Begin, OpInv, Part, Guarded, TypeOK
<1>2. ASSUME NEW p \in Caller, Cancel(p) PROVE OpInv'
  BY <1>2 DEF Cancel, OpInv, Part, Guarded, TypeOK
<1>3. ASSUME NEW p \in Caller, Lock(p) PROVE OpInv'
  BY <1>3 DEF Lock, AfterInit, OpInv, Part, Guarded, TypeOK
<1>4. ASSUME NEW p \in Caller, Open(p) PROVE OpInv'
  BY <1>4 DEF Open, Unlocked, OpInv, Part, Guarded, TypeOK
<1>5. ASSUME NEW p \in Caller, Store(p) PROVE OpInv'
  BY <1>5 DEF Store, AfterInit, Unlocked, OpInv, Part, Guarded, TypeOK
<1>6. ASSUME NEW p \in Caller, Use(p) PROVE OpInv'
  BY <1>6 DEF Use, OpInv, Part, Guarded, TypeOK
<1>7. ASSUME NEW p \in Caller, Send(p) PROVE OpInv'
  BY <1>7 DEF Send, OpInv, Part, Guarded, TypeOK
<1>8. ASSUME NEW p \in Caller, StartWorker(p) PROVE OpInv'
  BY <1>8 DEF StartWorker, OpInv, Part, Guarded, TypeOK
<1>9. ASSUME NEW p \in Caller, Wait(p) PROVE OpInv'
  BY <1>9 DEF Wait, OpInv, Part, Guarded, TypeOK
<1>10. ASSUME NEW p \in Caller, CloseChans(p) PROVE OpInv'
  BY <1>10 DEF CloseChans, Panic, OpInv, Part, Guarded, TypeOK
<1>11. ASSUME NEW p \in Caller, NEW k \in Part, ClosePart(p, k) PROVE OpInv'
  BY <1>11 DEF ClosePart, HandOver, AfterPart, OpInv, Part, Guarded, TypeOK
<1>12. CASE Quiet
  BY <1>12 DEF Quiet, OpInv, Part, Guarded, TypeOK
<1> QED
  BY <1>1, <1>2, <1>3, <1>4, <1>5, <1>6, <1>7, <1>8, <1>9, <1>10, <1>11, <1>12, QuietSteps DEF Next, Operate, Close

\* A mutex belongs to the goroutine that took it.
LEMMA MutexInvStep == TypeOK /\ OpInv /\ MutexInv /\ [Next]_vars => MutexInv'
<1> SUFFICES ASSUME TypeOK, OpInv, MutexInv, [Next]_vars PROVE MutexInv'
  OBVIOUS
<1> USE GotoMoves
<1>1. ASSUME NEW p \in Caller, Begin(p) PROVE MutexInv'
  BY <1>1 DEF Begin, MutexInv, Owns, OpInv, Part, Guarded, MutexOf, Mutex, TypeOK
<1>2. ASSUME NEW p \in Caller, Cancel(p) PROVE MutexInv'
  BY <1>2 DEF Cancel, MutexInv, Owns, OpInv, Part, Guarded, MutexOf, Mutex, TypeOK
<1>3. ASSUME NEW p \in Caller, Lock(p) PROVE MutexInv'
  <2> SUFFICES ASSUME NEW q \in Caller, NEW x \in Mutex, Owns(q, x)' PROVE mutex'[x] = q
    BY DEF MutexInv
  <2>1. CASE ref[op[p]] # "nil"
    <3>1. mutex' = mutex
      BY <1>3, <2>1 DEF Lock
    <3>2. Owns(q, x)
      BY <1>3, <2>1 DEF Lock, AfterInit, Owns, Part
    <3> QED
      BY <3>1, <3>2 DEF MutexInv
  <2>2. CASE ref[op[p]] = "nil"
    <3>1. /\ Goto(p, "open")
          /\ mutex[MutexOf(op[p])] = None /\ mutex' = [mutex EXCEPT ![MutexOf(op[p])] = p]
      BY <1>3, <2>2 DEF Lock
    <3>2. q # p => Owns(q, x) /\ mutex[x] = q
      BY <3>1 DEF Owns, MutexInv
    <3>3. q = p => x = MutexOf(op[p])
      BY <3>1 DEF Owns
    <3> QED
      BY <3>1, <3>2, <3>3, CallerAssumption DEF TypeOK
  <2> QED
    BY <2>1, <2>2
<1>4. ASSUME NEW p \in Caller, Open(p) PROVE MutexInv'
  BY <1>4 DEF Open, Unlocked, MutexInv, Owns, OpInv, Part, Guarded, MutexOf, Mutex, TypeOK
<1>5. ASSUME NEW p \in Caller, Store(p) PROVE MutexInv'
  BY <1>5 DEF Store, AfterInit, Unlocked, MutexInv, Owns, OpInv, Part, Guarded, MutexOf, Mutex, TypeOK
<1>6. ASSUME NEW p \in Caller, Use(p) PROVE MutexInv'
  BY <1>6 DEF Use, MutexInv, Owns, OpInv, Part, Guarded, MutexOf, Mutex, TypeOK
<1>7. ASSUME NEW p \in Caller, Send(p) PROVE MutexInv'
  BY <1>7 DEF Send, MutexInv, Owns, OpInv, Part, Guarded, MutexOf, Mutex, TypeOK
<1>8. ASSUME NEW p \in Caller, StartWorker(p) PROVE MutexInv'
  BY <1>8 DEF StartWorker, MutexInv, Owns, OpInv, Part, Guarded, MutexOf, Mutex, TypeOK
<1>9. ASSUME NEW p \in Caller, Wait(p) PROVE MutexInv'
  BY <1>9 DEF Wait, MutexInv, Owns, OpInv, Part, Guarded, MutexOf, Mutex, TypeOK
<1>10. ASSUME NEW p \in Caller, CloseChans(p) PROVE MutexInv'
  BY <1>10 DEF CloseChans, Panic, MutexInv, Owns, OpInv, Part, Guarded, MutexOf, Mutex, TypeOK
<1>11. ASSUME NEW p \in Caller, NEW k \in Part, ClosePart(p, k) PROVE MutexInv'
  <2> SUFFICES ASSUME NEW q \in Caller, NEW x \in Mutex, Owns(q, x)' PROVE mutex'[x] = q
    BY DEF MutexInv
  <2>1. pc[p] = k /\ Goto(p, AfterPart(k)) /\ HandOver(p, k)
    BY <1>11 DEF ClosePart
  <2>2. q # p => Owns(q, x) /\ mutex[x] = q
    BY <2>1 DEF Owns, MutexInv
  <2>3. CASE k \in {"producer", "consumer"}
    <3>1. mutex[MutexOf(k)] = None /\ mutex' = [mutex EXCEPT ![MutexOf(k)] = p]
      BY <2>1, <2>3 DEF HandOver
    <3>2. q = p => x = MutexOf(k)
      BY <2>1, <2>3 DEF AfterPart, Owns, MutexOf
    <3> QED
      BY <2>2, <3>1, <3>2, CallerAssumption DEF TypeOK
  <2>4. CASE k \in {"async", "group"}
    <3>1. mutex' = [mutex EXCEPT ![MutexOf(k)] = None] /\ mutex[MutexOf(k)] = p
      BY <2>1, <2>4 DEF HandOver, MutexInv, Owns, MutexOf, Mutex
    <3>2. q # p
      BY <2>1, <2>4 DEF AfterPart, Owns
    <3> QED
      BY <2>2, <3>1, <3>2 DEF TypeOK
  <2>5. CASE k = "admin"
    <3>1. mutex' = mutex
      BY <2>1, <2>5 DEF HandOver
    <3>2. q # p
      BY <2>1, <2>5 DEF AfterPart, Owns
    <3> QED
      BY <2>2, <3>1, <3>2
  <2> QED
    BY <2>3, <2>4, <2>5 DEF Part
<1>12. CASE Quiet
  BY <1>12 DEF Quiet, MutexInv, Owns, OpInv, Part, Guarded, MutexOf, Mutex, TypeOK
<1> QED
  BY <1>1, <1>2, <1>3, <1>4, <1>5, <1>6, <1>7, <1>8, <1>9, <1>10, <1>11, <1>12, QuietSteps DEF Next, Operate, Close

\* Nobody makes a part that is there.
LEMMA MadeInvStep == TypeOK /\ OpInv /\ MutexInv /\ MadeInv /\ [Next]_vars => MadeInv'
<1> SUFFICES ASSUME TypeOK, OpInv, MutexInv, MadeInv, [Next]_vars PROVE MadeInv'
  OBVIOUS
<1> USE GotoMoves
<1>1. ASSUME NEW p \in Caller, Begin(p) PROVE MadeInv'
  BY <1>1 DEF Begin, MadeInv, MutexInv, Owns, OpInv, Part, Guarded, MutexOf, Mutex, TypeOK
<1>2. ASSUME NEW p \in Caller, Cancel(p) PROVE MadeInv'
  BY <1>2 DEF Cancel, MadeInv, MutexInv, Owns, OpInv, Part, Guarded, MutexOf, Mutex, TypeOK
<1>3. ASSUME NEW p \in Caller, Lock(p) PROVE MadeInv'
  BY <1>3 DEF Lock, AfterInit, MadeInv, MutexInv, Owns, OpInv, Part, Guarded, MutexOf, Mutex, TypeOK
<1>4. ASSUME NEW p \in Caller, Open(p) PROVE MadeInv'
  BY <1>4 DEF Open, Unlocked, MadeInv, MutexInv, Owns, OpInv, Part, Guarded, MutexOf, Mutex, TypeOK
<1>5. ASSUME NEW p \in Caller, Store(p) PROVE MadeInv'
  <2>1. ref' = [ref EXCEPT ![op[p]] = "set"] /\ made' = made /\ AfterInit(p) /\ pc[p] = "store"
    BY <1>5 DEF Store
  <2>2. op[p] \in Guarded => ref[op[p]] = "half"
    BY <2>1 DEF MadeInv
  <2>3. ASSUME NEW j \in Guarded PROVE made'[j] = IF ref'[j] = "nil" THEN 0 ELSE 1
    BY <2>1, <2>2 DEF MadeInv, TypeOK, Guarded
  <2>4. ASSUME NEW j \in Guarded, NEW q \in Caller, op'[q] = j, pc'[q] \in {"open", "store"}
        PROVE  pc[q] = pc'[q] /\ op[q] = j /\ ref'[j] = ref[j]
    <3>1. q # p /\ pc[q] = pc'[q] /\ op[q] = j
      BY <2>1, <2>4 DEF AfterInit
    <3>2. j # op[p]
      BY <2>1, <2>4, <3>1 DEF MutexInv, Owns, Mutex, MutexOf
    <3> QED
      BY <2>1, <3>1, <3>2 DEF TypeOK, Guarded
  <2> QED
    BY <2>3, <2>4 DEF MadeInv
<1>6. ASSUME NEW p \in Caller, Use(p) PROVE MadeInv'
  BY <1>6 DEF Use, MadeInv, MutexInv, Owns, OpInv, Part, Guarded, MutexOf, Mutex, TypeOK
<1>7. ASSUME NEW p \in Caller, Send(p) PROVE MadeInv'
  BY <1>7 DEF Send, MadeInv, MutexInv, Owns, OpInv, Part, Guarded, MutexOf, Mutex, TypeOK
<1>8. ASSUME NEW p \in Caller, StartWorker(p) PROVE MadeInv'
  BY <1>8 DEF StartWorker, MadeInv, MutexInv, Owns, OpInv, Part, Guarded, MutexOf, Mutex, TypeOK
<1>9. ASSUME NEW p \in Caller, Wait(p) PROVE MadeInv'
  BY <1>9 DEF Wait, MadeInv, MutexInv, Owns, OpInv, Part, Guarded, MutexOf, Mutex, TypeOK
<1>10. ASSUME NEW p \in Caller, CloseChans(p) PROVE MadeInv'
  BY <1>10 DEF CloseChans, Panic, MadeInv, MutexInv, Owns, OpInv, Part, Guarded, MutexOf, Mutex, TypeOK
<1>11. ASSUME NEW p \in Caller, NEW k \in Part, ClosePart(p, k) PROVE MadeInv'
  BY <1>11 DEF ClosePart, HandOver, AfterPart, MadeInv, MutexInv, Owns, OpInv, Part, Guarded, MutexOf, Mutex, TypeOK
<1>12. CASE Quiet
  BY <1>12 DEF Quiet, MadeInv, MutexInv, Owns, OpInv, Part, Guarded, MutexOf, Mutex, TypeOK
<1> QED
  BY <1>1, <1>2, <1>3, <1>4, <1>5, <1>6, <1>7, <1>8, <1>9, <1>10, <1>11, <1>12, QuietSteps DEF Next, Operate, Close

\* Each part behind a mutex is made at most once.
THEOREM MadeOnce == Spec => []OneOfEach
<1>1. Init => OpInv /\ MutexInv /\ MadeInv
  BY DEF Init, OpInv, MutexInv, MadeInv, Owns, Part, Guarded, Mutex
<1>2. MadeInv => OneOfEach
  BY DEF MadeInv, OneOfEach
<1> QED
  BY <1>1, <1>2, TypeCorrect, OpInvStep, MutexInvStep, MadeInvStep, PTL DEF Spec

-----------------------------------------------------------------------------
(***************************************************************************)
(* Waiting.  A goroutine waits for a mutex, in ProduceAsync for room in    *)
(* the producer, or in Close for wg.Wait.  Whoever holds a mutex never     *)
(* waits for anything, so no two waits close a cycle; and the two others   *)
(* wait for goroutines of the client that have something to do.            *)
(***************************************************************************)
WaitsForMutex(p, x) ==
  /\ \/ pc[p] = "lock" /\ x = MutexOf(op[p])
     \/ pc[p] \in {"producer", "consumer"} /\ x = MutexOf(pc[p])
  /\ mutex[x] # None

WaitsForRoom(p) ==
  /\ pc[p] = "use" /\ op[p] = "async" /\ ref["async"] = "set"
  /\ flying + unread >= Pipe /\ ~ ended

WaitsForGroup(p) == pc[p] = "wait" /\ WaitGroup # 0

\* What the holder of a mutex does next cannot wait.
InCriticalSection(q) ==
  \/ pc[q] \in {"open", "store"}
  \/ pc[q] \in {"async", "group"} /\ ref[pc[q]] # "half"

WaitsEnd ==
  \A p \in Caller :
    /\ \A x \in Mutex : WaitsForMutex(p, x) =>
         mutex[x] \in Caller \ {p} /\ InCriticalSection(mutex[x])
    /\ WaitsForRoom(p) /\ Pipe > 0 =>
         flying > 0 \/ (unread > 0 /\ errors \in {"select", "send"}) \/ ctxDone
    /\ WaitsForGroup(p) =>
         ctxDone /\ \/ errors \in {"select", "send"} \/ successes = "select"
                    \/ \E q \in Caller : worker[q] # "none"

\* A mutex that is taken has an owner, and half an interface a writer.
OwnedInv ==
  /\ \A x \in Mutex : mutex[x] # None => Owns(mutex[x], x)
  /\ \A k \in Guarded : ref[k] = "half" => \E q \in Caller : pc[q] = "store" /\ op[q] = k

\* The goroutines of the asynchronous producer run until the context has ended,
\* and Close ends it first.
HandlerInv ==
  /\ ref["async"] = "set" => errors # "none"
  /\ errors = "exited" => ctxDone
  /\ \A p \in Caller : op[p] = "close" => ctxDone

LEMMA OwnedInvStep == TypeOK /\ OpInv /\ MutexInv /\ OwnedInv /\ [Next]_vars => OwnedInv'
<1> SUFFICES ASSUME TypeOK, OpInv, MutexInv, OwnedInv, [Next]_vars PROVE OwnedInv'
  OBVIOUS
<1> USE GotoMoves
<1>1. ASSUME NEW p \in Caller, Begin(p) PROVE OwnedInv'
  BY <1>1 DEF Begin, OwnedInv, MutexInv, Owns, OpInv, Part, Guarded, MutexOf, Mutex, TypeOK
<1>2. ASSUME NEW p \in Caller, Cancel(p) PROVE OwnedInv'
  BY <1>2 DEF Cancel, OwnedInv, MutexInv, Owns, OpInv, Part, Guarded, MutexOf, Mutex, TypeOK
<1>3. ASSUME NEW p \in Caller, Lock(p) PROVE OwnedInv'
  BY <1>3 DEF Lock, AfterInit, OwnedInv, MutexInv, Owns, OpInv, Part, Guarded, MutexOf, Mutex, TypeOK
<1>4. ASSUME NEW p \in Caller, Open(p) PROVE OwnedInv'
  BY <1>4 DEF Open, Unlocked, OwnedInv, MutexInv, Owns, OpInv, Part, Guarded, MutexOf, Mutex, TypeOK
<1>5. ASSUME NEW p \in Caller, Store(p) PROVE OwnedInv'
  BY <1>5 DEF Store, AfterInit, Unlocked, OwnedInv, MutexInv, Owns, OpInv, Part, Guarded, MutexOf, Mutex, TypeOK
<1>6. ASSUME NEW p \in Caller, Use(p) PROVE OwnedInv'
  BY <1>6 DEF Use, OwnedInv, MutexInv, Owns, OpInv, Part, Guarded, MutexOf, Mutex, TypeOK
<1>7. ASSUME NEW p \in Caller, Send(p) PROVE OwnedInv'
  BY <1>7 DEF Send, OwnedInv, MutexInv, Owns, OpInv, Part, Guarded, MutexOf, Mutex, TypeOK
<1>8. ASSUME NEW p \in Caller, StartWorker(p) PROVE OwnedInv'
  BY <1>8 DEF StartWorker, OwnedInv, MutexInv, Owns, OpInv, Part, Guarded, MutexOf, Mutex, TypeOK
<1>9. ASSUME NEW p \in Caller, Wait(p) PROVE OwnedInv'
  BY <1>9 DEF Wait, OwnedInv, MutexInv, Owns, OpInv, Part, Guarded, MutexOf, Mutex, TypeOK
<1>10. ASSUME NEW p \in Caller, CloseChans(p) PROVE OwnedInv'
  BY <1>10 DEF CloseChans, Panic, OwnedInv, MutexInv, Owns, OpInv, Part, Guarded, MutexOf, Mutex, TypeOK
<1>11. ASSUME NEW p \in Caller, NEW k \in Part, ClosePart(p, k) PROVE OwnedInv'
  <2>1. HandOver(p, k) /\ mutex \in [Mutex -> Caller \cup {None}]
    BY <1>11 DEF ClosePart, TypeOK
  <2>2. pc[p] = k /\ Goto(p, AfterPart(k))
    BY <1>11 DEF ClosePart
  <2>3. pc'[p] = AfterPart(k) /\ \A q \in Caller \ {p} : pc'[q] = pc[q] /\ op'[q] = op[q]
    BY <2>2
  <2>4. ASSUME NEW x \in Mutex, mutex'[x] # None PROVE Owns(mutex[x], x)'
    <3>1. CASE mutex'[x] = mutex[x]
      <4>0. mutex[x] # None /\ mutex[x] \in Caller \cup {None}
        BY <2>1, <2>4, <3>1
      <4>1. mutex[x] \in Caller /\ Owns(mutex[x], x)
        BY <4>0 DEF OwnedInv
      <4>2. CASE mutex[x] # p
        BY <2>3, <3>1, <4>1, <4>2 DEF Owns
      <4>3. CASE mutex[x] = p
        <5>1. k \in {"async", "group"} /\ x = MutexOf(k)
          BY <2>2, <4>1, <4>3 DEF Owns, Part, MutexOf
        <5>2. mutex'[x] = None
          BY <2>1, <5>1 DEF HandOver
        <5> QED BY <2>4, <5>2
      <4> QED BY <4>2, <4>3
    <3>2. CASE mutex'[x] # mutex[x]
      <4>1. k \in {"producer", "consumer"}
        <5>1. CASE k \in {"async", "group"}
          BY <2>1, <2>4, <3>2, <5>1 DEF HandOver
        <5>2. CASE k = "admin"
          BY <2>1, <3>2, <5>2 DEF HandOver
        <5> QED BY <5>1, <5>2 DEF Part
      <4>2. mutex' = [mutex EXCEPT ![MutexOf(k)] = p]
        BY <2>1, <4>1 DEF HandOver
      <4>3. x = MutexOf(k) /\ mutex'[x] = p
        BY <2>1, <3>2, <4>2
      <4> QED BY <2>3, <4>1, <4>3 DEF Owns, AfterPart, MutexOf
    <3> QED BY <3>1, <3>2
  <2>5. ASSUME NEW j \in Guarded, ref'[j] = "half"
        PROVE  \E q \in Caller : pc'[q] = "store" /\ op'[q] = j
    <3>1. ref[j] = "half"
      BY <1>11, <2>5 DEF ClosePart, TypeOK, Guarded
    <3>2. PICK q \in Caller : pc[q] = "store" /\ op[q] = j
      BY <3>1 DEF OwnedInv
    <3>3. q # p
      BY <2>2, <3>2 DEF Part
    <3> QED BY <2>3, <3>2, <3>3
  <2> QED BY <2>4, <2>5 DEF OwnedInv
<1>12. CASE Quiet
  BY <1>12 DEF Quiet, OwnedInv, MutexInv, Owns, OpInv, Part, Guarded, MutexOf, Mutex, TypeOK
<1> QED
  BY <1>1, <1>2, <1>3, <1>4, <1>5, <1>6, <1>7, <1>8, <1>9, <1>10, <1>11, <1>12, QuietSteps DEF Next, Operate, Close

LEMMA HandlerInvStep == TypeOK /\ HandlerInv /\ [Next]_vars => HandlerInv'
<1> SUFFICES ASSUME TypeOK, HandlerInv, [Next]_vars PROVE HandlerInv'
  OBVIOUS
<1> USE GotoMoves
<1>1. ASSUME NEW p \in Caller, Begin(p) PROVE HandlerInv'
  BY <1>1 DEF Begin, HandlerInv, Part, TypeOK
<1>2. ASSUME NEW p \in Caller, Cancel(p) PROVE HandlerInv'
  BY <1>2 DEF Cancel, HandlerInv, Part, TypeOK
<1>3. ASSUME NEW p \in Caller, Lock(p) PROVE HandlerInv'
  BY <1>3 DEF Lock, AfterInit, HandlerInv, Part, TypeOK
<1>4. ASSUME NEW p \in Caller, Open(p) PROVE HandlerInv'
  BY <1>4 DEF Open, Unlocked, HandlerInv, Part, TypeOK
<1>5. ASSUME NEW p \in Caller, Store(p) PROVE HandlerInv'
  BY <1>5 DEF Store, AfterInit, Unlocked, HandlerInv, Part, TypeOK
<1>6. ASSUME NEW p \in Caller, Use(p) PROVE HandlerInv'
  BY <1>6 DEF Use, HandlerInv, Part, TypeOK
<1>7. ASSUME NEW p \in Caller, Send(p) PROVE HandlerInv'
  BY <1>7 DEF Send, HandlerInv, Part, TypeOK
<1>8. ASSUME NEW p \in Caller, StartWorker(p) PROVE HandlerInv'
  BY <1>8 DEF StartWorker, HandlerInv, Part, TypeOK
<1>9. ASSUME NEW p \in Caller, Wait(p) PROVE HandlerInv'
  BY <1>9 DEF Wait, HandlerInv, Part, TypeOK
<1>10. ASSUME NEW p \in Caller, CloseChans(p) PROVE HandlerInv'
  BY <1>10 DEF CloseChans, Panic, HandlerInv, Part, TypeOK
<1>11. ASSUME NEW p \in Caller, NEW k \in Part, ClosePart(p, k) PROVE HandlerInv'
  BY <1>11 DEF ClosePart, HandOver, AfterPart, HandlerInv, Part, TypeOK
<1>12. CASE UNCHANGED <<ref, op>> /\ UNCHANGED <<errors, ctxDone>>
  BY <1>12 DEF HandlerInv
<1>13. CASE EndErrors \/ TakeError \/ ForwardError \/ EndParent
  BY <1>13 DEF EndErrors, TakeError, ForwardError, EndParent, HandlerInv
<1>14. ASSUME NEW p \in Caller,
              UseHalf(p) \/ UseClosedInput(p) \/ Work(p) \/ \E k \in Part : ClosePanics(p, k)
       PROVE  UNCHANGED <<ref, op>> /\ UNCHANGED <<errors, ctxDone>>
  BY <1>14 DEF UseHalf, UseClosedInput, Work, FirstConsume, EndWorker, ClosePanics
<1>15. EndSuccesses \/ Answer \/ EndContext \/ UNCHANGED vars
         => UNCHANGED <<ref, op>> /\ UNCHANGED <<errors, ctxDone>>
  BY DEF EndSuccesses, Answer, EndContext, vars
<1> QED
  BY <1>1, <1>2, <1>3, <1>4, <1>5, <1>6, <1>7, <1>8, <1>9, <1>10, <1>11, <1>12, <1>13, <1>14, <1>15
     DEF Next, Operate, Close, HandleErrors

\* Nobody waits for ever for another caller: the owner of a mutex waits for nothing,
\* and ProduceAsync and wg.Wait wait for goroutines of the client that go on.
THEOREM ClientNeverDeadlocks == Spec => []WaitsEnd
<1>1. TypeOK /\ OpInv /\ MutexInv /\ OwnedInv /\ HandlerInv => WaitsEnd
  <2> SUFFICES ASSUME TypeOK, OpInv, MutexInv, OwnedInv, HandlerInv, NEW p \in Caller
               PROVE  /\ \A x \in Mutex : WaitsForMutex(p, x) =>
                           mutex[x] \in Caller \ {p} /\ InCriticalSection(mutex[x])
                      /\ WaitsForRoom(p) /\ Pipe > 0 =>
                           flying > 0 \/ (unread > 0 /\ errors \in {"select", "send"}) \/ ctxDone
                      /\ WaitsForGroup(p) =>
                           ctxDone /\ \/ errors \in {"select", "send"} \/ successes = "select"
                                      \/ \E q \in Caller : worker[q] # "none"
    BY DEF WaitsEnd
  <2>1. ASSUME NEW x \in Mutex, WaitsForMutex(p, x)
        PROVE  mutex[x] \in Caller \ {p} /\ InCriticalSection(mutex[x])
    <3> DEFINE q == mutex[x]
    <3>1. q \in Caller /\ Owns(q, x)
      BY <2>1 DEF WaitsForMutex, OwnedInv, TypeOK
    <3>2. q # p
      BY <2>1, <3>1 DEF WaitsForMutex, Owns
    <3>3. ASSUME pc[q] \in {"async", "group"}, ref[pc[q]] = "half" PROVE FALSE
      <4>1. PICK r \in Caller : pc[r] = "store" /\ op[r] = pc[q]
        BY <3>3 DEF OwnedInv, Guarded, Part
      <4>2. Owns(r, x)
        BY <3>1, <3>3, <4>1 DEF Owns, Guarded, Part, MutexOf
      <4> QED BY <3>3, <4>1, <4>2 DEF MutexInv
    <3> QED BY <3>1, <3>2, <3>3 DEF Owns, InCriticalSection
  <2>2. ASSUME WaitsForRoom(p), Pipe > 0
        PROVE  flying > 0 \/ (unread > 0 /\ errors \in {"select", "send"}) \/ ctxDone
    BY <2>2, BoundAssumption DEF WaitsForRoom, HandlerInv, TypeOK
  <2>3. ASSUME WaitsForGroup(p)
        PROVE  ctxDone /\ \/ errors \in {"select", "send"} \/ successes = "select"
                          \/ \E q \in Caller : worker[q] # "none"
    <3>1. ctxDone
      BY <2>3 DEF WaitsForGroup, OpInv, HandlerInv, TypeOK
    <3>2. ASSUME errors \notin {"select", "send"}, successes # "select",
                 \A q \in Caller : worker[q] = "none"
          PROVE  WaitGroup = 0
      <4>1. {q \in Caller : worker[q] # "none"} = {}
        BY <3>2
      <4>2. {h \in {"successes", "errors"} :
               IF h = "errors" THEN errors \in {"select", "send"} ELSE successes = "select"} = {}
        BY <3>2
      <4> QED BY <4>1, <4>2, FS_EmptySet DEF WaitGroup
    <3> QED BY <2>3, <3>1, <3>2 DEF WaitsForGroup
  <2> QED BY <2>1, <2>2, <2>3
<1>2. Init => OpInv /\ MutexInv /\ OwnedInv /\ HandlerInv
  BY DEF Init, OpInv, MutexInv, OwnedInv, HandlerInv, Owns, Part, Guarded, Mutex
<1> QED
  BY <1>1, <1>2, TypeCorrect, OpInvStep, MutexInvStep, OwnedInvStep, HandlerInvStep, PTL DEF Spec

-----------------------------------------------------------------------------
(***************************************************************************)
(* A Close that comes last.  While it runs the other callers are idle, so  *)
(* nothing is closed but what it has passed, and after wg.Wait the handler *)
(* of errors has gone.                                                     *)
(***************************************************************************)
Later(k) ==
  {"wait", "chans"} \cup
  CASE k = "producer" -> {"async", "consumer", "group", "admin"}
    [] k = "async"    -> {"consumer", "group", "admin"}
    [] k = "consumer" -> {"group", "admin"}
    [] k = "group"    -> {"admin"}
    [] k = "admin"    -> {}

\* Close has dealt with part k.
Passed(k) == closedChans \/ \E p \in Caller : op[p] = "close" /\ pc[p] \in Later(k)

Alone ==
  /\ \A p, q \in Caller : op[p] = "close" /\ q # p => pc[q] = "idle"
  /\ closedChans => \A p \in Caller : pc[p] = "idle"

HandlerGone == closedChans \/ (\E p \in Caller : pc[p] = "chans") => errors \notin {"select", "send"}

OrderInv ==
  ~misuse =>
    /\ Alone
    /\ \A k \in Part : ref[k] = "closed" => Passed(k)
    /\ HandlerGone

\* WaitGroup = 0 says that the handler of errors has exited or never started.
LEMMA WaitGroupZero == ASSUME TypeOK, WaitGroup = 0 PROVE errors \notin {"select", "send"}
<1> DEFINE W == {p \in Caller : worker[p] # "none"}
           H == {h \in {"successes", "errors"} :
                   IF h = "errors" THEN errors \in {"select", "send"} ELSE successes = "select"}
<1>1. IsFiniteSet(W) /\ IsFiniteSet({"successes", "errors"})
  <2>1. IsFiniteSet(Caller) /\ W \subseteq Caller
    BY CallerAssumption
  <2>2. IsFiniteSet({"successes"} \cup {"errors"})
    BY FS_Singleton, FS_Union
  <2>3. {"successes"} \cup {"errors"} = {"successes", "errors"}
    OBVIOUS
  <2> QED
    BY <2>1, <2>2, <2>3, FS_Subset
<1>2. IsFiniteSet(H)
  BY <1>1, FS_Subset
<1>3. Cardinality(W) \in Nat /\ Cardinality(H) \in Nat
  BY <1>1, <1>2, FS_CardinalityType
<1>4. Cardinality(W) + Cardinality(H) = 0
  BY DEF WaitGroup
<1>5. H = {}
  <2>1. Cardinality(H) = 0
    BY <1>3, <1>4
  <2> QED
    BY <1>2, <2>1, FS_EmptySet
<1> QED
  BY <1>5

\* While Close runs or has returned, no other operation is under way.
LEMMA AloneFacts ==
  ASSUME TypeOK, OpInv, Alone, NEW p \in Caller, pc[p] # "idle"
  PROVE  /\ ~closedChans
         /\ \A q \in Caller : q # p /\ op[p] = "close" => pc[q] = "idle" /\ op[q] = "none"
         /\ \A q \in Caller : q # p => op[q] # "close"
         /\ op[p] # "close" => \A k \in Part : ~Passed(k)
BY DEF Alone, OpInv, Passed

LEMMA OrderInvStep == TypeOK /\ OpInv /\ OrderInv /\ [Next]_vars => OrderInv'
<1> SUFFICES ASSUME TypeOK, OpInv, OrderInv, [Next]_vars, ~misuse' PROVE OrderInv'
  BY DEF OrderInv
<1> USE GotoMoves
<1>0. ~misuse
  BY Zenon DEF Next, vars, Operate, Close, Work, HandleErrors, Begin, Cancel, Lock, Open, Store,
     UseHalf, UseClosedInput, Use, Send, StartWorker, FirstConsume, EndWorker, EndSuccesses, EndErrors,
     TakeError, ForwardError, Answer, EndContext, EndParent, ClosePart, ClosePanics, Wait, CloseChans
<1>1. Alone /\ HandlerGone /\ \A k \in Part : ref[k] = "closed" => Passed(k)
  BY <1>0 DEF OrderInv
\* An operation, or a Close, begins: nobody was closing, and nothing was closed.
<1>2. ASSUME NEW p \in Caller, Begin(p) \/ Cancel(p) PROVE OrderInv'
  <2>1. ~closedChans /\ \A q \in Caller : q # p => op[q] # "close"
    BY <1>2 DEF Begin, Cancel, Disturbs, Closing
  <2>2. \A q \in Caller : op[q] # "close"
    BY <1>2, <2>1 DEF OpInv, Begin, Cancel
  <2>3. \A k \in Part : ref[k] # "closed"
    BY <1>1, <2>1, <2>2 DEF Passed
  <2>4. ref' = ref /\ closedChans' = closedChans /\ errors' = errors
    BY <1>2 DEF Begin, Cancel
  <2>5. Alone'
    <3>1. CASE Begin(p)
      <4>1. \A q \in Caller : op'[q] # "close"
        BY <2>2, <3>1 DEF Begin, Part, TypeOK
      <4> QED
        BY <2>1, <2>4, <4>1 DEF Alone
    <3>2. CASE Cancel(p)
      <4>1. \A q \in Caller : pc[q] = "idle"
        BY <3>2, Zenon DEF Cancel
      <4>2. \A q \in Caller : q # p => pc'[q] = "idle" /\ op'[q] = op[q]
        BY <3>2, <4>1 DEF Cancel, TypeOK
      <4> QED
        BY <2>1, <2>2, <2>4, <4>2 DEF Alone
    <3> QED
      BY <1>2, <3>1, <3>2
  <2>6. HandlerGone'
    BY <1>1, <1>2, <2>1, <2>2, <2>4 DEF HandlerGone, Begin, Cancel, OpInv, TypeOK
  <2> QED
    BY <2>3, <2>4, <2>5, <2>6 DEF OrderInv
\* An operation goes on: nobody is closing, and nothing is closed.
<1>3. ASSUME NEW p \in Caller, Lock(p) \/ Open(p) \/ Store(p) \/ Use(p) \/ Send(p) \/ StartWorker(p)
      PROVE  OrderInv'
  <2>1. pc[p] \in {"lock", "open", "store", "use"} /\ op[p] \in Part
    BY <1>3 DEF Lock, Open, Store, Use, Send, StartWorker, OpInv
  <2>2. /\ ~closedChans
        /\ \A q \in Caller : op[q] # "close"
        /\ \A k \in Part : ref[k] # "closed"
    BY <1>1, <2>1, AloneFacts DEF Part
  <2>3. \E label \in {"idle", "open", "store", "use"} : Goto(p, label)
    BY <1>3 DEF Lock, Open, Store, Use, Send, StartWorker, AfterInit
  <2>4. closedChans' = closedChans /\ \A k \in Part : ref'[k] # "closed"
    BY <1>3, <2>1, <2>2 DEF Lock, Open, Store, Use, Send, StartWorker, TypeOK, Part
  <2>5. \A q \in Caller : op'[q] # "close" /\ pc'[q] # "chans"
    BY <2>2, <2>3 DEF OpInv, TypeOK
  <2> QED
    BY <2>2, <2>4, <2>5 DEF OrderInv, Alone, HandlerGone
\* Close goes on, alone.
<1>4. ASSUME NEW p \in Caller, NEW k \in Part, ClosePart(p, k) PROVE OrderInv'
  <2>1. pc[p] = k /\ op[p] = "close" /\ Goto(p, AfterPart(k))
    BY <1>4 DEF ClosePart, OpInv, Part, TypeOK
  <2>2. ~closedChans /\ \A q \in Caller : q # p => pc[q] = "idle" /\ op[q] = "none"
    BY <1>1, <2>1, AloneFacts DEF Part
  <2>3. closedChans' = closedChans /\ errors' = errors
    BY <1>4 DEF ClosePart
  <2>4. AfterPart(k) \notin {"idle", "chans"} /\ AfterPart(k) \in Later(k)
    BY DEF AfterPart, Later, Part
  <2>5. /\ op'[p] = "close" /\ pc'[p] = AfterPart(k)
        /\ \A q \in Caller : q # p => pc'[q] = "idle" /\ op'[q] = "none"
    BY <2>1, <2>2, <2>4
  <2>6. ASSUME NEW j \in Part, ref'[j] = "closed" PROVE Passed(j)'
    <3>1. j = k \/ k \in Later(j)
      <4>1. j # k => ref[j] = "closed"
        BY <1>4, <2>6 DEF ClosePart, TypeOK
      <4>2. ref[j] = "closed" => k \in Later(j)
        BY <1>1, <2>1, <2>2 DEF Passed
      <4> QED
        BY <4>1, <4>2
    <3>2. AfterPart(k) \in Later(j)
      BY <2>4, <3>1 DEF AfterPart, Later, Part
    <3> QED
      BY <2>5, <3>2 DEF Passed
  <2>7. Alone' /\ HandlerGone'
    BY <2>2, <2>3, <2>4, <2>5 DEF Alone, HandlerGone
  <2> QED
    BY <2>6, <2>7 DEF OrderInv
<1>5. ASSUME NEW p \in Caller, Wait(p) PROVE OrderInv'
  <2>1. pc[p] = "wait" /\ op[p] = "close" /\ Goto(p, "chans")
    BY <1>5 DEF Wait, OpInv, Part, TypeOK, Label
  <2>2. ~closedChans /\ \A q \in Caller : q # p => pc[q] = "idle" /\ op[q] = "none"
    BY <1>1, <2>1, AloneFacts
  <2>3. closedChans' = closedChans /\ errors' = errors /\ ref' = ref
    BY <1>5 DEF Wait
  <2>4. /\ op'[p] = "close" /\ pc'[p] = "chans"
        /\ \A q \in Caller : q # p => pc'[q] = "idle" /\ op'[q] = "none"
    BY <2>1, <2>2
  <2>5. errors \notin {"select", "send"}
    BY <1>5, WaitGroupZero DEF Wait
  <2>6. \A k \in Part : Passed(k)'
    BY <2>4 DEF Passed, Later
  <2> QED
    BY <2>2, <2>3, <2>4, <2>5, <2>6 DEF OrderInv, Alone, HandlerGone
<1>6. ASSUME NEW p \in Caller, CloseChans(p) PROVE OrderInv'
  <2>1. pc[p] = "chans" /\ op[p] = "close"
    BY <1>6 DEF CloseChans, OpInv, Part, TypeOK, Label
  <2>2. ~closedChans /\ \A q \in Caller : q # p => pc[q] = "idle" /\ op[q] = "none"
    BY <1>1, <2>1, AloneFacts
  <2>3. closedChans' /\ Goto(p, "idle") /\ errors' = errors
    BY <1>6, <2>2 DEF CloseChans
  <2>4. \A q \in Caller : pc'[q] = "idle" /\ op'[q] # "close"
    BY <2>2, <2>3
  <2>5. errors \notin {"select", "send"}
    BY <1>1, <2>1 DEF HandlerGone
  <2> QED
    BY <2>3, <2>4, <2>5 DEF OrderInv, Alone, HandlerGone, Passed
\* The other steps move no operation and start no handler.
<1>7. ASSUME Quiet, closedChans' = closedChans,
             errors' \in {"select", "send"} => errors \in {"select", "send"}
      PROVE  OrderInv'
  BY <1>1, <1>7 DEF Quiet, OrderInv, Alone, HandlerGone, Passed
<1>8. ASSUME NEW p \in Caller, UseHalf(p) \/ UseClosedInput(p) \/ Work(p) PROVE OrderInv'
  BY <1>7, <1>8, QuietSteps DEF UseHalf, UseClosedInput, Work, FirstConsume, EndWorker
<1>9. ASSUME NEW p \in Caller, NEW k \in Part, ClosePanics(p, k) PROVE OrderInv'
  BY <1>7, <1>9, QuietSteps DEF ClosePanics
<1>10. ASSUME EndSuccesses \/ EndErrors \/ HandleErrors \/ Answer \/ EndContext \/ EndParent PROVE OrderInv'
  BY <1>7, <1>10, QuietSteps
     DEF EndSuccesses, EndErrors, HandleErrors, TakeError, ForwardError, Answer, EndContext, EndParent
<1>11. CASE UNCHANGED vars
  BY <1>7, <1>11, QuietSteps DEF vars
<1> QED
  BY <1>2, <1>3, <1>4, <1>5, <1>6, <1>8, <1>9, <1>10, <1>11 DEF Next, Operate, Close

\* The steps that would use a closed channel are out of reach.
LEMMA PanicStep == TypeOK /\ OpInv /\ OrderInv /\ NoPanicInOrder /\ [Next]_vars => NoPanicInOrder'
<1> SUFFICES ASSUME TypeOK, OpInv, OrderInv, NoPanicInOrder, [Next]_vars, panic' = "closed", ~misuse'
             PROVE  FALSE
  BY DEF NoPanicInOrder
<1>0. misuse' = misuse \/ (panic' = panic /\ (misuse => misuse'))
  BY DEF Next, vars, Operate, Close, Work, HandleErrors, Begin, Cancel, Lock, Open, Store,
     UseHalf, UseClosedInput, Use, Send, StartWorker, FirstConsume, EndWorker, EndSuccesses, EndErrors,
     TakeError, ForwardError, Answer, EndContext, EndParent, ClosePart, ClosePanics, Wait, CloseChans
<1>1. ~misuse /\ panic # "closed"
  BY <1>0 DEF NoPanicInOrder
<1>2. Alone /\ HandlerGone /\ \A k \in Part : ref[k] = "closed" => Passed(k)
  BY <1>1 DEF OrderInv
<1>3. ASSUME NEW p \in Caller, UseClosedInput(p) PROVE FALSE
  <2>1. pc[p] = "use" /\ op[p] \in Part /\ ref[op[p]] = "closed"
    BY <1>3 DEF UseClosedInput, OpInv, Part
  <2> QED
    BY <1>2, <2>1, AloneFacts DEF Part
<1>4. ASSUME NEW p \in Caller, NEW k \in Part, ClosePanics(p, k) PROVE FALSE
  <2>1. pc[p] = k /\ op[p] = "close" /\ ref[k] = "closed"
    BY <1>4 DEF ClosePanics, Panic, OpInv, Part, TypeOK
  <2>2. k \in Later(k)
    BY <1>2, <2>1, AloneFacts DEF Passed, Part
  <2> QED
    BY <2>2 DEF Later, Part
<1>5. ASSUME NEW p \in Caller, CloseChans(p) PROVE FALSE
  BY <1>1, <1>2, <1>5, AloneFacts DEF CloseChans
<1>6. ASSUME ForwardError PROVE FALSE
  BY <1>1, <1>2, <1>6 DEF ForwardError, HandlerGone
<1> QED
  BY <1>1, <1>3, <1>4, <1>5, <1>6 DEF Next, vars, Operate, Close, Work, HandleErrors, Begin, Cancel, Lock,
     Open, Store, UseHalf, Use, Send, StartWorker, FirstConsume, EndWorker, EndSuccesses, EndErrors,
     TakeError, Answer, EndContext, EndParent, ClosePart, Wait, Panic

\* A Close that comes last never finds, and its goroutines never use, a channel
\* or a producer that is closed already.
THEOREM OrderlyCloseIsSafe == Spec => []NoPanicInOrder
<1>1. Init => OpInv /\ OrderInv /\ NoPanicInOrder
  BY DEF Init, OpInv, OrderInv, Alone, HandlerGone, NoPanicInOrder, Part, Guarded
<1> QED
  BY <1>1, TypeCorrect, OpInvStep, OrderInvStep, PanicStep, PTL DEF Spec

-----------------------------------------------------------------------------
(***************************************************************************)
(* What was made is closed: a part that Close has passed is closed or was  *)
(* never made, and what is closed was closed once.                         *)
(***************************************************************************)
ShutInv ==
  ~misuse =>
    \A k \in Part :
      /\ shut[k] = IF ref[k] = "closed" THEN 1 ELSE 0
      /\ made[k] > 0 => ref[k] # "nil"
      /\ Passed(k) => ref[k] \in {"nil", "closed"}

LEMMA ShutInvStep == TypeOK /\ OpInv /\ OrderInv /\ ShutInv /\ [Next]_vars => ShutInv'
<1> SUFFICES ASSUME TypeOK, OpInv, OrderInv, ShutInv, [Next]_vars, ~misuse' PROVE ShutInv'
  BY DEF ShutInv
<1> USE GotoMoves
<1>0. ~misuse
  BY Zenon DEF Next, vars, Operate, Close, Work, HandleErrors, Begin, Cancel, Lock, Open, Store,
     UseHalf, UseClosedInput, Use, Send, StartWorker, FirstConsume, EndWorker, EndSuccesses, EndErrors,
     TakeError, ForwardError, Answer, EndContext, EndParent, ClosePart, ClosePanics, Wait, CloseChans
<1>1. Alone /\ \A k \in Part : ref[k] = "closed" => Passed(k)
  BY <1>0 DEF OrderInv
<1>2. \A k \in Part : /\ shut[k] = IF ref[k] = "closed" THEN 1 ELSE 0
                      /\ made[k] > 0 => ref[k] # "nil"
                      /\ Passed(k) => ref[k] \in {"nil", "closed"}
  BY <1>0 DEF ShutInv
<1>3. ASSUME NEW p \in Caller, Begin(p) \/ Cancel(p) PROVE ShutInv'
  <2>1. ~closedChans /\ \A q \in Caller : q # p => op[q] # "close"
    BY <1>3 DEF Begin, Cancel, Disturbs, Closing
  <2>2. ref' = ref /\ made' = made /\ shut' = shut /\ closedChans' = closedChans
    BY <1>3 DEF Begin, Cancel
  <2>3. \A q \in Caller : op'[q] = "close" => pc'[q] = "producer"
    BY <1>3, <2>1 DEF Begin, Cancel, Part, TypeOK
  <2>4. \A k \in Part : ~Passed(k)'
    BY <2>1, <2>2, <2>3 DEF Passed, Later, Part
  <2> QED
    BY <1>2, <2>2, <2>4 DEF ShutInv
<1>4. ASSUME NEW p \in Caller, Lock(p) \/ Open(p) \/ Store(p) \/ Use(p) \/ Send(p) \/ StartWorker(p)
      PROVE  ShutInv'
  <2>1. pc[p] \in {"lock", "open", "store", "use"} /\ op[p] \in Part
    BY <1>4 DEF Lock, Open, Store, Use, Send, StartWorker, OpInv
  <2>2. /\ ~closedChans
        /\ \A q \in Caller : op[q] # "close"
        /\ \A k \in Part : ref[k] # "closed"
    BY <1>1, <2>1, AloneFacts DEF Part
  <2>3. \E label \in {"idle", "open", "store", "use"} : Goto(p, label)
    BY <1>4 DEF Lock, Open, Store, Use, Send, StartWorker, AfterInit
  <2>4. /\ closedChans' = closedChans /\ shut' = shut
        /\ \A k \in Part : ref'[k] # "closed" /\ (made'[k] > 0 => ref'[k] # "nil")
    <3>1. CASE Open(p)
      BY <1>2, <2>1, <2>2, <3>1 DEF Open, TypeOK
    <3>2. CASE Store(p)
      BY <1>2, <2>1, <2>2, <3>2 DEF Store, TypeOK
    <3> QED
      BY <1>2, <1>4, <2>2, <3>1, <3>2 DEF Lock, Use, Send, StartWorker
  <2>5. \A q \in Caller : op'[q] # "close"
    BY <2>2, <2>3 DEF TypeOK
  <2> QED
    BY <1>2, <2>2, <2>4, <2>5 DEF ShutInv, Passed
<1>5. ASSUME NEW p \in Caller, NEW k \in Part, ClosePart(p, k) PROVE ShutInv'
  <2>1. pc[p] = k /\ op[p] = "close" /\ Goto(p, AfterPart(k))
    BY <1>5 DEF ClosePart, OpInv, Part, TypeOK
  <2>2. ~closedChans /\ \A q \in Caller : q # p => pc[q] = "idle" /\ op[q] = "none"
    BY <1>1, <2>1, AloneFacts DEF Part
  <2>3. closedChans' = closedChans /\ made' = made
    BY <1>5 DEF ClosePart
  <2>4. AfterPart(k) # "idle"
    BY DEF AfterPart, Part
  <2>5. /\ op'[p] = "close" /\ pc'[p] = AfterPart(k)
        /\ \A q \in Caller : q # p => op'[q] = "none"
    BY <2>1, <2>2, <2>4
  <2>6. ASSUME NEW j \in Part, Passed(j)' PROVE j = k \/ Passed(j)
    <3>1. AfterPart(k) \in Later(j)
      BY <2>2, <2>3, <2>5, <2>6 DEF Passed
    <3>2. j = k \/ k \in Later(j)
      BY <3>1 DEF AfterPart, Later, Part
    <3> QED
      BY <2>1, <3>2 DEF Passed
  <2>7. ref[k] # "half" /\ ref'[k] = IF ref[k] = "set" THEN "closed" ELSE ref[k]
    BY <1>5 DEF ClosePart, TypeOK
  <2>8. \A j \in Part : j # k => ref'[j] = ref[j] /\ shut'[j] = shut[j]
    BY <1>5 DEF ClosePart, TypeOK
  <2>9. shut'[k] = IF ref[k] = "set" THEN shut[k] + 1 ELSE shut[k]
    BY <1>5 DEF ClosePart, TypeOK
  <2>10. ref'[k] \in {"nil", "closed"} /\ shut'[k] = IF ref'[k] = "closed" THEN 1 ELSE 0
    BY <1>2, <2>7, <2>9 DEF TypeOK
  <2> QED
    BY <1>2, <2>3, <2>6, <2>7, <2>8, <2>10 DEF ShutInv
<1>6. ASSUME NEW p \in Caller, Wait(p) \/ CloseChans(p) PROVE ShutInv'
  <2>1. pc[p] \in {"wait", "chans"} /\ op[p] = "close"
    BY <1>6 DEF Wait, CloseChans, OpInv, Part, TypeOK, Label
  <2>2. \A k \in Part : Passed(k)
    BY <2>1 DEF Passed, Later
  <2>3. ref' = ref /\ made' = made /\ shut' = shut
    BY <1>6 DEF Wait, CloseChans
  <2> QED
    BY <1>2, <2>2, <2>3 DEF ShutInv
<1>7. ASSUME Quiet, closedChans' = closedChans PROVE ShutInv'
  BY <1>2, <1>7 DEF Quiet, ShutInv, Passed
<1>8. ASSUME NEW p \in Caller, UseHalf(p) \/ UseClosedInput(p) \/ Work(p) PROVE ShutInv'
  BY <1>7, <1>8, QuietSteps DEF UseHalf, UseClosedInput, Work, FirstConsume, EndWorker
<1>9. ASSUME NEW p \in Caller, NEW k \in Part, ClosePanics(p, k) PROVE ShutInv'
  BY <1>7, <1>9, QuietSteps DEF ClosePanics
<1>10. ASSUME EndSuccesses \/ EndErrors \/ HandleErrors \/ Answer \/ EndContext \/ EndParent PROVE ShutInv'
  BY <1>7, <1>10, QuietSteps
     DEF EndSuccesses, EndErrors, HandleErrors, TakeError, ForwardError, Answer, EndContext, EndParent
<1>11. CASE UNCHANGED vars
  BY <1>7, <1>11, QuietSteps DEF vars
<1> QED
  BY <1>3, <1>4, <1>5, <1>6, <1>8, <1>9, <1>10, <1>11 DEF Next, Operate, Close

\* A Close that comes last leaves nothing open, but for admin clients that two
\* first operations made at once.
THEOREM OrderlyCloseIsComplete == Spec => []AllClosed
<1>1. Init => OpInv /\ MutexInv /\ MadeInv /\ OrderInv /\ ShutInv
  BY DEF Init, OpInv, MutexInv, MadeInv, Owns, OrderInv, ShutInv, Alone, HandlerGone, Passed,
         Part, Guarded, Mutex
<1>2. TypeOK /\ MadeInv /\ ShutInv => AllClosed
  <2> SUFFICES ASSUME TypeOK, MadeInv, ShutInv, closedChans, ~misuse
               PROVE  /\ \A k \in Guarded : shut[k] = made[k]
                      /\ made["admin"] > 0 => shut["admin"] = 1
    BY DEF AllClosed
  <2>1. \A k \in Part : ref[k] \in {"nil", "closed"}
    BY DEF ShutInv, Passed
  <2> QED
    BY <2>1 DEF ShutInv, MadeInv, Guarded, Part
<1> QED
  BY <1>1, <1>2, TypeCorrect, OpInvStep, MutexInvStep, MadeInvStep, OrderInvStep, ShutInvStep, PTL DEF Spec

=============================================================================
