-------------------------- MODULE VaultBackground --------------------------
(***************************************************************************)
(* The life of a pkg/vault client: New with the authentication methods,    *)
(* the health-monitoring goroutine, the token-renewal goroutine with the   *)
(* Vault API's Renewer, cancellation of the context given to New, and what *)
(* Close does to all of them.                                              *)
(*                                                                         *)
(* It composes with VaultClient: the monitor is one of the callers of the  *)
(* client, and its calls of Health compete for c.mu with everybody else's. *)
(***************************************************************************)
EXTENDS VaultClient

CONSTANTS
  Monitor,            \* the goroutine of startHealthMonitoring
  Configs,            \* the configurations New may be given
  RenewBuffer         \* capacity of the Renewer's RenewCh

\* The methods that log in at a mount of Vault, those whose code is still to be
\* written, and those authenticate() has no case for.
Login == {"approle", "aws", "kubernetes"}
Placeholder == {"jwt", "oidc", "userpass", "ldap", "gcp", "azure", "github", "cert"}
Unsupported == {"radius", "okta"}

\* What New reads of a Config.  sane: Address, Timeout and MaxRetries are in
\* range.  section: the method's own section, if any, and whether it has its
\* RoleID or Role.  credential: the token, secret ID or JWT, in the
\* configuration or in a file it names.  interval: HealthCheckInterval > 0.
Config ==
  [method      : Login \cup {"token"} \cup Placeholder \cup Unsupported,
   sane        : BOOLEAN,
   section     : {"none", "without role", "with role"},
   credential  : {"none", "inline", "file"},
   tokenRenew  : BOOLEAN,
   healthCheck : BOOLEAN,
   interval    : BOOLEAN]

ASSUME MonitorAssumption == Monitor \in Caller
ASSUME BackgroundAssumption ==
  /\ Configs \subseteq Config
  /\ RenewBuffer \in Nat

VARIABLES
  config,       \* c.config
  phase,        \* progress of New
  authInfo,     \* c.authInfo: "none", or whether its token is "renewable" or "fixed"
  ctxDone,      \* c.ctx is cancelled, by Close or by the caller of New
  monitor,      \* the health goroutine: "off", "select" (in its loop) or "exited"
  ticker,       \* c.healthTicker: "off", "running" or "stopped"
  tick,         \* a tick waits in the ticker's channel (of capacity 1)
  healthStop,   \* number of times c.healthStop has been closed
  renewal,      \* the renewal goroutine: "off", "select" or "exited"
  renewer,      \* the Renewer: "off", "running", "stopped" or "done"
  renewCh,      \* number of renewals waiting in RenewCh
  renewStop     \* number of times c.renewStop has been closed

newVars == <<config, phase, authInfo>>
monitorVars == <<monitor, ticker, tick, healthStop>>
renewalVars == <<renewal, renewer, renewCh, renewStop>>
bvars == <<vars, newVars, ctxDone, monitorVars, renewalVars>>

BInit ==
  /\ Init
  /\ config \in Configs
  /\ phase = "config"
  /\ authInfo = "none"
  /\ ctxDone = FALSE
  /\ monitor = "off" /\ ticker = "off" /\ tick = FALSE /\ healthStop = 0
  /\ renewal = "off" /\ renewer = "off" /\ renewCh = 0 /\ renewStop = 0

-----------------------------------------------------------------------------
\* Config.Validate.  Of the methods it knows token, approle and kubernetes.
Validate(c) ==
  /\ c.sane
  /\ c.method = "token" => c.credential # "none"
  /\ c.method \in {"approle", "kubernetes"} => c.section = "with role"

\* ToAPIConfig reads certificates and parses the proxy's address, and may fail.
Configure ==
  /\ phase = "config"
  /\ phase' \in {"failed"} \cup (IF Validate(config) THEN {"auth"} ELSE {})
  /\ UNCHANGED <<vars, config, authInfo, ctxDone, monitorVars, renewalVars>>

\* What authenticate() makes of the configuration before it asks Vault: a login
\* method needs its section; a file may be unreadable, and the service account's
\* JWT must come from somewhere, while AppRole's secret ID is optional.
ReadCredential(c) ==
  IF \/ c.method \in Placeholder \cup Unsupported
     \/ c.method \in Login /\ c.section = "none"
     \/ c.method = "kubernetes" /\ c.credential = "none"
  THEN {"failed"}
  ELSE {"login"} \cup
       (IF c.credential = "file" /\ c.method # "aws" THEN {"failed"} ELSE {})

Authenticate ==
  /\ phase = "auth"
  /\ phase' \in ReadCredential(config)
  /\ UNCHANGED <<vars, config, authInfo, ctxDone, monitorVars, renewalVars>>

\* The token method looks its token up.  The policies of the answer are decoded
\* from JSON as []interface{}, so the assertion that they are []string panics.
LookupSelf ==
  /\ phase = "login" /\ config.method = "token"
  /\ phase' \in {"failed", "panicked"}
  /\ UNCHANGED <<vars, config, authInfo, ctxDone, monitorVars, renewalVars>>

\* The others write to their mount's login path: an error, an answer without a
\* token, or one whose token is renewable or not.  None of them uses the context.
LogIn ==
  /\ phase = "login" /\ config.method \in Login
  /\ \/ phase' = "failed" /\ UNCHANGED authInfo
     \/ phase' = "renewal" /\ authInfo' \in {"fixed", "renewable"}
  /\ UNCHANGED <<vars, config, ctxDone, monitorVars, renewalVars>>

\* startTokenRenewal: NewRenewer fails, or both goroutines of the renewal run.
StartTokenRenewal ==
  LET wanted == config.tokenRenew /\ authInfo = "renewable" IN
  /\ phase = "renewal"
  /\ \/ /\ wanted
        /\ phase' = "monitoring"
        /\ renewal' = "select"
        /\ renewer' = "running"
     \/ /\ phase' = IF wanted THEN "failed" ELSE "monitoring"
        /\ UNCHANGED <<renewal, renewer>>
  /\ UNCHANGED <<vars, config, authInfo, ctxDone, monitorVars, renewCh, renewStop>>

\* time.NewTicker panics without an interval, which Validate does not check: the
\* caller of New then has no client to close and the renewal goes on.
StartHealthMonitoring ==
  /\ phase = "monitoring"
  /\ \/ /\ config.healthCheck /\ config.interval
        /\ phase' = "ready" /\ monitor' = "select" /\ ticker' = "running"
     \/ /\ config.healthCheck => ~config.interval
        /\ phase' = IF config.healthCheck THEN "panicked" ELSE "ready"
        /\ UNCHANGED <<monitor, ticker>>
  /\ UNCHANGED <<vars, config, authInfo, ctxDone, tick, healthStop, renewalVars>>

New == Configure \/ Authenticate \/ LookupSelf \/ LogIn
       \/ StartTokenRenewal \/ StartHealthMonitoring

\* The context that New was given is cancelled.
CancelParent ==
  /\ ~ctxDone
  /\ ctxDone' = TRUE
  /\ UNCHANGED <<vars, newVars, monitorVars, renewalVars>>

-----------------------------------------------------------------------------
TickerFires ==
  /\ ticker = "running"
  /\ ~tick
  /\ tick' = TRUE
  /\ UNCHANGED <<vars, newVars, ctxDone, monitor, ticker, healthStop, renewalVars>>

\* Mutant: the monitor's health check goes to Vault without c.mu and the
\* closed check.
MonitorTickUnlocked ==
  /\ monitor = "select" /\ pc[Monitor] = "idle"
  /\ tick
  /\ tick' = FALSE
  /\ \E s \in Path : op' = [op EXCEPT ![Monitor] = [kind |-> "status", path |-> s]]
  /\ Goto(Monitor, "request")
  /\ UNCHANGED <<server, delayed, cache, closed, lockVars, got, historyVars>>
  /\ UNCHANGED <<newVars, ctxDone, monitor, ticker, healthStop, renewalVars>>

\* The monitor takes a tick and calls Health, which begins with c.mu.RLock().
MonitorTick ==
  /\ monitor = "select" /\ pc[Monitor] = "idle"
  /\ tick
  /\ tick' = FALSE
  /\ \E s \in Path : op' = [op EXCEPT ![Monitor] = [kind |-> "status", path |-> s]]
  /\ Goto(Monitor, "rlock")
  /\ UNCHANGED <<server, delayed, cache, closed, lockVars, got, historyVars>>
  /\ UNCHANGED <<newVars, ctxDone, monitor, ticker, healthStop, renewalVars>>

\* Its select takes healthStop or c.ctx.Done().
MonitorExit ==
  /\ monitor = "select" /\ pc[Monitor] = "idle"
  /\ healthStop > 0 \/ ctxDone
  /\ monitor' = "exited"
  /\ UNCHANGED <<vars, newVars, ctxDone, ticker, tick, healthStop, renewalVars>>

-----------------------------------------------------------------------------
\* The Renewer renews the token and offers the result, if there is room.
RenewToken ==
  /\ renewer = "running"
  /\ renewCh < RenewBuffer
  /\ renewCh' = renewCh + 1
  /\ UNCHANGED <<vars, newVars, ctxDone, monitorVars, renewal, renewer, renewStop>>

\* Renew() returns into DoneCh: after Stop, or because the token cannot be
\* renewed any further.
RenewerDone ==
  /\ renewer \in {"running", "stopped"}
  /\ renewer' = "done"
  /\ UNCHANGED <<vars, newVars, ctxDone, monitorVars, renewal, renewCh, renewStop>>

\* The renewal goroutine takes a renewal and updates authInfo.LeaseDuration
\* under authMutex.
RenewalUpdate ==
  /\ renewal = "select"
  /\ renewCh > 0
  /\ renewCh' = renewCh - 1
  /\ UNCHANGED <<vars, newVars, ctxDone, monitorVars, renewal, renewer, renewStop>>

\* It leaves its loop on DoneCh or renewStop; the deferred Stop stops the Renewer.
RenewalExit ==
  /\ renewal = "select"
  /\ renewStop > 0 \/ renewer = "done"
  /\ renewal' = "exited"
  /\ renewer' = IF renewer = "running" THEN "stopped" ELSE renewer
  /\ UNCHANGED <<vars, newVars, ctxDone, monitorVars, renewCh, renewStop>>

-----------------------------------------------------------------------------
\* Mutant: Close does not look at c.closed.
CloseBackgroundAgain(p) ==
  /\ pc[p] = "drain"
  /\ mu!Holds(p)
  /\ closed' = TRUE
  /\ Goto(p, "clear")
  /\ ctxDone' = TRUE
  /\ renewStop' = IF renewer # "off" THEN renewStop + 1 ELSE renewStop
  /\ renewer' = IF renewer = "running" THEN "stopped" ELSE renewer
  /\ ticker' = IF ticker = "off" THEN "off" ELSE "stopped"
  /\ healthStop' = IF ticker # "off" THEN healthStop + 1 ELSE healthStop
  /\ UNCHANGED <<server, delayed, cache, lockVars, op, got, historyVars>>
  /\ UNCHANGED <<newVars, monitor, tick, renewal, renewCh>>

\* Mutant: Close leaves the Renewer to the renewal goroutine's deferred Stop.
CloseBackgroundNoStop(p) ==
  /\ MarkClosed(p)
  /\ ctxDone' = TRUE
  /\ renewStop' = IF renewer # "off" THEN renewStop + 1 ELSE renewStop
  /\ ticker' = IF ticker = "off" THEN "off" ELSE "stopped"
  /\ healthStop' = IF ticker # "off" THEN healthStop + 1 ELSE healthStop
  /\ UNCHANGED <<newVars, monitor, tick, renewal, renewer, renewCh>>

\* Mutant: Close relies on the cancelled context to end the renewal.
CloseBackgroundContextOnly(p) ==
  /\ MarkClosed(p)
  /\ ctxDone' = TRUE
  /\ ticker' = IF ticker = "off" THEN "off" ELSE "stopped"
  /\ healthStop' = IF ticker # "off" THEN healthStop + 1 ELSE healthStop
  /\ UNCHANGED <<newVars, monitor, tick, renewalVars>>

\* Close, holding c.mu, with the first part of its work: cancel(), stop the
\* renewal and stop the monitoring.
CloseBackground(p) ==
  /\ MarkClosed(p)
  /\ ctxDone' = TRUE
  /\ renewStop' = IF renewer # "off" THEN renewStop + 1 ELSE renewStop
  /\ renewer' = IF renewer = "running" THEN "stopped" ELSE renewer
  /\ ticker' = IF ticker = "off" THEN "off" ELSE "stopped"
  /\ healthStop' = IF ticker # "off" THEN healthStop + 1 ELSE healthStop
  /\ UNCHANGED <<newVars, monitor, tick, renewal, renewCh>>

\* Every other step of a caller; the client is nobody's before New returns.
CallerStep(p) ==
  /\ \/ phase = "ready" /\ p # Monitor /\ Begin(p)
     \/ HitCache(p) \/ MissCache(p) \/ EnterShared(p) \/ Request(p)
     \/ FillCache(p) \/ Invalidate(p) \/ LeaveShared(p)
     \/ AnnounceClose(p) \/ AlreadyClosed(p) \/ ClearCache(p)
  /\ UNCHANGED <<newVars, ctxDone, monitorVars, renewalVars>>

MonitorStep == MonitorTick \/ MonitorExit
RenewalStep == RenewalUpdate \/ RenewalExit
VaultStep == Environment /\ UNCHANGED <<newVars, ctxDone, monitorVars, renewalVars>>

BNext ==
  \/ New \/ CancelParent
  \/ TickerFires \/ MonitorStep
  \/ RenewToken \/ RenewerDone \/ RenewalStep
  \/ \E p \in Caller : CallerStep(p) \/ CloseBackground(p)
  \/ VaultStep

(***************************************************************************)
(* The goroutines run, a request to Vault ends, and a waiter for c.mu is   *)
(* served.  A select with several ready cases picks one at random, so a    *)
(* case that is ready again and again is taken in the end: MonitorExit and *)
(* RenewalExit are strongly fair.  A Renewer that was stopped returns.     *)
(***************************************************************************)
BFairness ==
  /\ WF_bvars(MonitorStep) /\ SF_bvars(MonitorExit)
  /\ WF_bvars(RenewalStep) /\ SF_bvars(RenewalExit)
  /\ WF_bvars(RenewerDone /\ renewer = "stopped")
  /\ \A p \in Caller : SF_bvars(Continue(p) /\ (CallerStep(p) \/ CloseBackground(p)))

BSpec == BInit /\ [][BNext]_bvars
FairBSpec == BSpec /\ BFairness

-----------------------------------------------------------------------------
\* Closing a closed channel panics in Go: Close may be called any number of
\* times, by any number of goroutines, and closes each stop channel once.
NoDoubleClose == healthStop <= 1 /\ renewStop <= 1

\* Every renewal has an owner who asked for it: the configuration wants it, the
\* token of authInfo allows it, the client is not closed (the Renewer is stopped in
\* the same critical section that sets closed), and there is a client to close,
\* unless New panicked over the interval of the health checks.
RenewalOwned ==
  renewer = "running" =>
    /\ config.tokenRenew /\ authInfo = "renewable"
    /\ ~closed
    /\ phase # "failed"
    /\ phase = "panicked" => config.healthCheck /\ ~config.interval

\* Close ends both goroutines, whatever they were doing: Health may be waiting
\* for c.mu behind Close, ticks and renewals may still be buffered.
GoroutinesEnd == closed ~> (monitor # "select" /\ renewal # "select")

\* Cancelling the context given to New ends the monitor without any Close.
MonitorEndsWithContext == ctxDone /\ phase = "ready" ~> monitor # "select"

\* All of these, and of VaultClient's, under the fairness of the scheduler, the
\* lock and the select statements: operations and Close end although the monitor
\* and the renewal take c.mu too, and so do both goroutines.
Ends == CloseEnds /\ OperationEnds /\ GoroutinesEnd /\ MonitorEndsWithContext
=============================================================================
