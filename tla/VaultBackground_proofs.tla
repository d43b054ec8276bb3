----------------------- MODULE VaultBackground_proofs -----------------------
(***************************************************************************)
(* The client with its background goroutines implements VaultClient, so    *)
(* what is proved of the callers of a client holds with the monitor as one *)
(* of them; and its stop channels are closed once.                         *)
(***************************************************************************)
EXTENDS VaultBackground, VaultClient_proofs

\* One step of the composition is one step of VaultClient, or none.
LEMMA StepImplements == BNext => [Next]_vars
<1> SUFFICES ASSUME BNext PROVE [Next]_vars
  OBVIOUS
<1>1. ASSUME NEW p \in Caller, CallerStep(p) PROVE Next
  BY <1>1 DEF CallerStep, Next, Continue
<1>2. ASSUME NEW p \in Caller, CloseBackground(p) PROVE Next
  BY <1>2 DEF CloseBackground, Next, Continue
<1>3. ASSUME MonitorTick PROVE Next
  <2>1. PICK s \in Path : op' = [op EXCEPT ![Monitor] = [kind |-> "status", path |-> s]]
    BY <1>3 DEF MonitorTick
  <2>2. /\ "status" \in Kind
        /\ Goto(Monitor, CASE "status" = "get" /\ EnableCache -> "lookup"
                           [] "status" = "close"              -> "lock"
                           [] OTHER                           -> "rlock")
    BY <1>3 DEF MonitorTick, Kind
  <2>3. Begin(Monitor)
    BY <1>3, <2>1, <2>2 DEF MonitorTick, Begin
  <2> QED
    BY <2>3, MonitorAssumption DEF Next
<1>4. ASSUME VaultStep PROVE Next
  BY <1>4 DEF VaultStep, Next
<1>5. ASSUME New \/ CancelParent \/ TickerFires \/ MonitorExit \/ RenewToken
             \/ RenewerDone \/ RenewalStep
      PROVE  UNCHANGED vars
  BY <1>5 DEF New, Configure, Authenticate, LookupSelf, LogIn, StartTokenRenewal,
              StartHealthMonitoring, CancelParent, TickerFires, MonitorExit, RenewToken, RenewerDone, RenewalStep,
              RenewalUpdate, RenewalExit
<1> QED
  BY <1>1, <1>2, <1>3, <1>4, <1>5 DEF BNext, MonitorStep

\* The monitor, the renewal and New change nothing the callers can tell from
\* further callers: Health takes the same lock and makes the same check.
THEOREM BackgroundImplementsClient == BSpec => Spec
<1>1. BInit => Init
  BY DEF BInit
<1>2. [BNext]_bvars => [Next]_vars
  BY StepImplements DEF bvars
<1> QED
  BY <1>1, <1>2, PTL DEF BSpec, Spec

-----------------------------------------------------------------------------
(***************************************************************************)
(* Nobody calls the client before New returns, so Close finds the renewal  *)
(* and the monitoring started; it closes their channels in the step that   *)
(* sets closed.                                                            *)
(***************************************************************************)
StopInv ==
  /\ phase # "ready" => ~closed /\ (\A p \in Caller : pc[p] = "idle") /\ monitor # "select"
  /\ IF closed THEN healthStop \in 0 .. 1 /\ renewStop \in 0 .. 1 /\ renewer # "running"
               ELSE healthStop = 0 /\ renewStop = 0
  /\ phase \in {"config", "auth", "login", "renewal", "failed"} => renewer = "off"
  /\ RenewalOwned

LEMMA InitStopInv == BInit => StopInv
BY DEF BInit, Init, StopInv, RenewalOwned

LEMMA StepStopInv == TypeInv /\ StopInv /\ [BNext]_bvars => StopInv'
<1> SUFFICES ASSUME TypeInv, StopInv, [BNext]_bvars PROVE StopInv'
  OBVIOUS
<1> USE DEF TypeInv, TypeOK, StopInv, newVars, monitorVars, renewalVars, vars,
            RenewalOwned, lockVars, historyVars, Goto, Return, At
<1>1. ASSUME New PROVE StopInv'
  BY <1>1 DEF New, Configure, Authenticate, LookupSelf, LogIn, StartTokenRenewal,
              StartHealthMonitoring, ReadCredential
<1>2. CASE CancelParent \/ TickerFires \/ MonitorExit \/ RenewToken \/ RenewerDone \/ RenewalStep
  BY <1>2 DEF CancelParent, TickerFires, MonitorExit, RenewToken, RenewerDone,
              RenewalStep, RenewalUpdate, RenewalExit
<1>3. ASSUME MonitorTick PROVE StopInv'
  BY <1>3 DEF MonitorTick
<1>4. ASSUME NEW p \in Caller, CloseBackground(p) PROVE StopInv'
  BY <1>4 DEF CloseBackground, MarkClosed
<1>5. ASSUME NEW p \in Caller, CallerStep(p) PROVE StopInv'
  <2>1. phase = "ready"
    BY <1>5 DEF CallerStep, HitCache, MissCache, EnterShared, Request, ReadServer,
                WriteServer, WriteFails, QueryServer, FillCache, Invalidate, LeaveShared,
                AnnounceClose, AlreadyClosed, ClearCache
  <2>2. UNCHANGED <<closed, config, phase, authInfo, healthStop, renewStop, renewer>>
    BY <1>5 DEF CallerStep, Begin, HitCache, MissCache, EnterShared, Request, ReadServer,
                WriteServer, WriteFails, QueryServer, FillCache, Invalidate, LeaveShared,
                AnnounceClose, AlreadyClosed, ClearCache
  <2> QED
    BY <2>1, <2>2
<1>6. ASSUME VaultStep PROVE StopInv'
  BY <1>6 DEF VaultStep, Environment, Expire, DelayedWrite
<1>7. CASE UNCHANGED bvars
  BY <1>7 DEF bvars
<1> QED
  BY <1>1, <1>2, <1>3, <1>4, <1>5, <1>6, <1>7 DEF BNext, MonitorStep

LEMMA AlwaysStopInv == BSpec => []StopInv
<1>1. BSpec => []TypeInv
  BY BackgroundImplementsClient, InitTypeInv, StepTypeInv, PTL DEF Spec
<1> QED
  BY <1>1, InitStopInv, StepStopInv, PTL DEF BSpec

\* Close never closes a channel twice, so it never panics.
THEOREM CloseIsIdempotent == BSpec => []NoDoubleClose
<1>1. StopInv => NoDoubleClose
  BY DEF StopInv, NoDoubleClose
<1> QED
  BY <1>1, AlwaysStopInv, PTL

\* A renewal runs only for a client that is open, or that nobody was given because
\* New panicked; and only when the configuration and the token ask for it.
THEOREM RenewalIsOwned == BSpec => []RenewalOwned
<1>1. StopInv => RenewalOwned
  BY DEF StopInv, RenewalOwned
<1> QED
  BY <1>1, AlwaysStopInv, PTL

-----------------------------------------------------------------------------
(***************************************************************************)
(* Close and the goroutines.  What GoroutinesEnd and MonitorEndsWithContext*)
(* owe to the safety of the code: a goroutine that runs has the channel    *)
(* that Close closes, and the monitor waits, if at all, inside a Health    *)
(* that ends.                                                              *)
(***************************************************************************)
ChannelInv ==
  /\ monitor = "select" => ticker # "off"
  /\ renewal = "select" => renewer # "off"
  /\ closed => ctxDone
  /\ closed /\ ticker # "off" => healthStop > 0
  /\ closed /\ renewer # "off" => renewStop > 0

\* A closed client has told both goroutines to end: the select of each has a case
\* that is ready, unless the monitor is in the middle of a Health, and that does
\* not wait or waits for somebody who goes on.
CloseIsHeard ==
  closed =>
    /\ renewal = "select" => renewStop > 0
    /\ monitor = "select" /\ pc[Monitor] = "idle" => healthStop > 0 /\ ctxDone
    /\ Waiting(Monitor) => \E q \in Caller \ {Monitor} : GoesOn(q)

LEMMA StepChannelInv == TypeInv /\ StopInv /\ ChannelInv /\ [BNext]_bvars => ChannelInv'
<1> SUFFICES ASSUME TypeInv, StopInv, ChannelInv, [BNext]_bvars PROVE ChannelInv'
  OBVIOUS
<1> USE DEF ChannelInv, newVars, monitorVars, renewalVars
<1>1. ASSUME New PROVE ChannelInv'
  BY <1>1 DEF New, Configure, Authenticate, LookupSelf, LogIn, StartTokenRenewal,
              StartHealthMonitoring, StopInv, vars
<1>2. CASE CancelParent \/ TickerFires \/ MonitorExit \/ RenewToken \/ RenewerDone \/ RenewalStep
  BY <1>2 DEF CancelParent, TickerFires, MonitorExit, RenewToken, RenewerDone,
              RenewalStep, RenewalUpdate, RenewalExit, vars
<1>3. ASSUME MonitorTick PROVE ChannelInv'
  BY <1>3 DEF MonitorTick
<1>4. ASSUME NEW p \in Caller, CloseBackground(p) PROVE ChannelInv'
  BY <1>4 DEF CloseBackground, MarkClosed, StopInv
<1>5. ASSUME NEW p \in Caller, CallerStep(p) PROVE ChannelInv'
  BY <1>5 DEF CallerStep, Begin, HitCache, MissCache, EnterShared, Request, ReadServer,
              WriteServer, WriteFails, QueryServer, FillCache, Invalidate, LeaveShared,
              AnnounceClose, AlreadyClosed, ClearCache, historyVars, lockVars
<1>6. ASSUME VaultStep PROVE ChannelInv'
  BY <1>6 DEF VaultStep, Environment, Expire, DelayedWrite
<1>7. CASE UNCHANGED bvars
  BY <1>7 DEF bvars, vars
<1> QED
  BY <1>1, <1>2, <1>3, <1>4, <1>5, <1>6, <1>7 DEF BNext, MonitorStep

\* Close reaches both goroutines, whatever they are doing; the waits of the monitor
\* for c.mu are as short as those of any other caller.
THEOREM CloseReachesGoroutines == BSpec => []CloseIsHeard
<1>1. BSpec => []WaitsAreShort
  BY BackgroundImplementsClient, ClientNeverDeadlocks, PTL
<1>2. BSpec => []TypeInv
  BY BackgroundImplementsClient, InitTypeInv, StepTypeInv, PTL DEF Spec
<1>3. BInit => ChannelInv
  BY DEF BInit, Init, ChannelInv
<1>4. ChannelInv /\ WaitsAreShort => CloseIsHeard
  BY MonitorAssumption DEF ChannelInv, WaitsAreShort, CloseIsHeard
<1> QED
  BY <1>1, <1>2, <1>3, <1>4, AlwaysStopInv, StepChannelInv, PTL DEF BSpec
=============================================================================
