------------------------- MODULE MCVaultBackground -------------------------
(***************************************************************************)
(* Instance of VaultBackground for TLC: one goroutine of the application   *)
(* and the monitor, without the cache and with one write.                  *)
(***************************************************************************)
EXTENDS VaultBackground

\* Every configuration that cannot give a client, and two that can: one with all
\* goroutines, whose JWT is in a file, and one with none and no credential.
Hopeless(c) ==
  \/ ~Validate(c)
  \/ "login" \notin ReadCredential(c)
  \/ c.method = "token"
  \/ c.healthCheck /\ ~c.interval

AllGoroutines ==
  [method |-> "kubernetes", sane |-> TRUE, section |-> "with role", credential |-> "file",
   tokenRenew |-> TRUE, healthCheck |-> TRUE, interval |-> TRUE]

NoGoroutine ==
  [AllGoroutines EXCEPT !.method = "approle", !.credential = "none",
                        !.tokenRenew = FALSE, !.healthCheck = FALSE]

MCConfigs == {c \in Config : Hopeless(c)} \cup {AllGoroutines, NoGoroutine}
=============================================================================
