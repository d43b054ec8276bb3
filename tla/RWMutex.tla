------------------------------ MODULE RWMutex ------------------------------
(***************************************************************************)
(* Go's sync.RWMutex, as the packages of this repository use it.  It is    *)
(* external to the repository; what matters here is its documented         *)
(* writer preference: once a goroutine has called Lock, later calls of     *)
(* RLock wait, so Lock is two steps (announce, then wait for the readers   *)
(* that were there first).                                                 *)
(***************************************************************************)
CONSTANT None     \* no goroutine

VARIABLES
  readers,        \* the goroutines that hold the read lock
  writer          \* the goroutine that has announced itself in Lock, or None

Init ==
  /\ readers = {}
  /\ writer = None

\* RLock(): only while no writer waits for the lock or holds it.
RLock(g) ==
  /\ writer = None
  /\ readers' = readers \cup {g}
  /\ UNCHANGED writer

RUnlock(g) ==
  /\ readers' = readers \ {g}
  /\ UNCHANGED writer

\* The first half of Lock(): from here on new readers wait.
Announce(g) ==
  /\ writer = None
  /\ writer' = g
  /\ UNCHANGED readers

\* Lock() returns when the readers that came before have left.
Holds(g) ==
  /\ writer = g
  /\ readers = {}

Unlock(g) ==
  /\ Holds(g)
  /\ writer' = None
  /\ UNCHANGED readers
=============================================================================
