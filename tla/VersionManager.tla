--------------------------- MODULE VersionManager ---------------------------
(***************************************************************************)
(* The registry of pkg/version (Manager): goroutines register components,  *)
(* attach constraints, unregister, update metadata, look a component up    *)
(* for a version and ask for its latest version.                           *)
(*                                                                         *)
(* A critical section of m.mu is one action.  What the code does after it  *)
(* has released m.mu is in steps of its own: the second half of            *)
(* RegisterWithConstraints, the scan of a component's versions in Get and  *)
(* the sort in GetLatestVersion.  Scan and sort work on the slice that     *)
(* SupportedVersions() returns, which is the component's own (as in the    *)
(* package's example components), and take no lock: each access to an      *)
(* element is a step.  An element is read and written whole: a Version torn *)
(* between two goroutines is left out.                                     *)
(***************************************************************************)
EXTENDS Integers

CONSTANTS
  Proc,          \* the goroutines that share the manager
  Sorter,        \* those of them that call GetLatestVersion
  Name,          \* component names
  Object,        \* component values
  NameOf,        \* Name() of each of them
  Length,        \* number of versions each of them supports
  Declared,      \* the versions they were built with, in their order
  None           \* no component, no constraints

Index == 1 .. Length
Version == {Declared[o][i] : o \in Object, i \in Index}
DeclaredSet(o) == {Declared[o][i] : i \in Index}
Meta == [object : Object, default : Version, constraints : Object \cup {None}]

ASSUME RegistryAssumption ==
  /\ NameOf \in [Object -> Name]
  /\ None \notin Object \cup Meta
  /\ Sorter \subseteq Proc
ASSUME VersionAssumption ==
  /\ Length \in Nat \ {0}
  /\ Declared \in [Object -> [Index -> Int]]

VARIABLES
  components,    \* m.components: the component registered under each name
  componentMeta, \* m.componentMeta
  constraints,   \* m.constraints: the component they were registered with
  slice,         \* the backing array of each component's supported versions
  pc,            \* where each goroutine is
  local,         \* its component, loop indices and element held in a swap
  overtaken,     \* history: names whose constraints came for another component
  refused,       \* history: versions a component was built with and Get refused
  contended      \* history: components that two goroutines have sorted at once

vars == <<components, componentMeta, constraints, slice, pc, local, overtaken, refused,
          contended>>
registry == <<components, componentMeta, constraints, overtaken>>
history == <<refused, contended>>

Label == {"idle", "attach", "panicked", "scan", "sort", "move", "write"}
Local == [object : Object \cup {None}, version : Version \cup {None},
          i : 1 .. Length + 1, j : 1 .. Length + 1]
NoLocal == [object |-> None, version |-> None, i |-> 1, j |-> 1]

Init ==
  /\ components = [n \in Name |-> None]
  /\ componentMeta = [n \in Name |-> None]
  /\ constraints = [n \in Name |-> None]
  /\ slice = Declared
  /\ pc = [p \in Proc |-> "idle"]
  /\ local = [p \in Proc |-> NoLocal]
  /\ overtaken = {}
  /\ refused = {}
  /\ contended = {}

Goto(p, label) == pc' = [pc EXCEPT ![p] = label]
Return(p) ==
  /\ Goto(p, "idle")
  /\ local' = [local EXCEPT ![p] = NoLocal]

NewMeta(o) == [object |-> o, default |-> slice[o][1], constraints |-> None]

-----------------------------------------------------------------------------
\* Mutant: no check for a name that is taken.
AddOver(o) ==
  /\ components' = [components EXCEPT ![NameOf[o]] = o]
  /\ componentMeta' = [componentMeta EXCEPT ![NameOf[o]] = NewMeta(o)]

\* Register under m.mu: a taken name is an error, which changes nothing.
Add(o) ==
  LET n == NameOf[o] IN
  /\ components[n] = None
  /\ components' = [components EXCEPT ![n] = o]
  /\ componentMeta' = [componentMeta EXCEPT ![n] = NewMeta(o)]

Register(p) ==
  /\ pc[p] = "idle"
  /\ \E o \in Object : Add(o)
  /\ UNCHANGED <<constraints, slice, pc, local, overtaken, history>>

\* RegisterWithConstraints calls Register, and has released m.mu when it returns.
RegisterWithConstraints(p) ==
  /\ pc[p] = "idle"
  /\ \E o \in Object : Add(o) /\ local' = [local EXCEPT ![p].object = o]
  /\ Goto(p, "attach")
  /\ UNCHANGED <<constraints, slice, overtaken, history>>

\* Mutant: missing metadata is made up from the constraints alone.
AttachToNothing(p) ==
  LET o == local[p].object
      n == NameOf[o]
  IN
  /\ pc[p] = "attach"
  /\ constraints' = [constraints EXCEPT ![n] = o]
  /\ componentMeta' =
       IF componentMeta[n] = None
         THEN [componentMeta EXCEPT ![n] = [object |-> None, default |-> 0, constraints |-> o]]
         ELSE [componentMeta EXCEPT ![n].constraints = o]
  /\ Return(p)
  /\ overtaken' = IF components[n] = o THEN overtaken ELSE overtaken \cup {n}
  /\ UNCHANGED <<components, slice, history>>

\* Then it takes m.mu again and stores the constraints under the name, whatever
\* is registered there by now; without metadata it dereferences nil and panics,
\* with the constraints stored and m.mu released by the deferred Unlock.
AttachConstraints(p) ==
  LET o == local[p].object
      n == NameOf[o]
  IN
  /\ pc[p] = "attach"
  /\ constraints' = [constraints EXCEPT ![n] = o]
  /\ IF componentMeta[n] = None
       THEN /\ Goto(p, "panicked")
            /\ UNCHANGED <<componentMeta, local>>
       ELSE /\ componentMeta' = [componentMeta EXCEPT ![n].constraints = o]
            /\ Return(p)
  /\ overtaken' = IF components[n] = o THEN overtaken ELSE overtaken \cup {n}
  /\ UNCHANGED <<components, slice, history>>

\* Mutant: the metadata of an unregistered component is kept.
UnregisterKeepsMeta(p) ==
  /\ pc[p] = "idle"
  /\ \E n \in Name :
       /\ components[n] # None
       /\ components' = [components EXCEPT ![n] = None]
       /\ constraints' = [constraints EXCEPT ![n] = None]
       /\ overtaken' = overtaken \ {n}
  /\ UNCHANGED <<componentMeta, slice, pc, local, history>>

\* An unknown name is an error, which changes nothing.
Unregister(p) ==
  /\ pc[p] = "idle"
  /\ \E n \in Name :
       /\ components[n] # None
       /\ components' = [components EXCEPT ![n] = None]
       /\ componentMeta' = [componentMeta EXCEPT ![n] = None]
       /\ constraints' = [constraints EXCEPT ![n] = None]
       /\ overtaken' = overtaken \ {n}
  /\ UNCHANGED <<slice, pc, local, history>>

\* UpdateComponentMeta with a function that changes the default version.
UpdateComponentMeta(p) ==
  /\ pc[p] = "idle"
  /\ \E n \in Name, v \in Version :
       /\ componentMeta[n] # None
       /\ componentMeta' = [componentMeta EXCEPT ![n].default = v]
  /\ UNCHANGED <<components, constraints, slice, pc, local, overtaken, history>>

-----------------------------------------------------------------------------
\* Get reads the component under m.mu and goes on without it.
Get(p) ==
  /\ pc[p] = "idle"
  /\ \E n \in Name, v \in Version :
       /\ components[n] # None
       /\ local' = [local EXCEPT ![p].object = components[n], ![p].version = v]
  /\ Goto(p, "scan")
  /\ UNCHANGED <<registry, slice, history>>

\* IsVersionSupported: one element of the slice is compared.
Scan(p) ==
  LET l == local[p] IN
  /\ pc[p] = "scan"
  /\ l.i <= Length
  /\ IF slice[l.object][l.i] = l.version
       THEN Return(p)
       ELSE local' = [local EXCEPT ![p].i = @ + 1] /\ UNCHANGED pc
  /\ UNCHANGED <<registry, slice, history>>

\* No element matched: Get answers "version not supported".
Refuse(p) ==
  LET l == local[p] IN
  /\ pc[p] = "scan"
  /\ l.i > Length
  /\ refused' = IF l.version \in DeclaredSet(l.object)
                  THEN refused \cup {<<l.object, l.version>>}
                  ELSE refused
  /\ Return(p)
  /\ UNCHANGED <<registry, slice, contended>>

-----------------------------------------------------------------------------
\* The goroutines inside a sort of a component's slice.
SortersOf(o) == {q \in Proc : pc[q] \in {"sort", "move", "write"} /\ local[q].object = o}

\* GetLatestVersion: sort.Slice on the component's slice, newest first.  Up to
\* twelve elements Go sorts by insertion: for i, for j from i down while element
\* j is newer than element j - 1, swap the two.
GetLatestVersion(p) ==
  /\ pc[p] = "idle"
  /\ p \in Sorter
  /\ \E n \in Name :
       /\ components[n] # None
       /\ local' = [local EXCEPT ![p].object = components[n], ![p].i = 2, ![p].j = 2]
       /\ contended' = IF SortersOf(components[n]) = {}
                         THEN contended
                         ELSE contended \cup {components[n]}
  /\ Goto(p, "sort")
  /\ UNCHANGED <<registry, slice, refused>>

Newer(l) == slice[l.object][l.j] > slice[l.object][l.j - 1]

\* One comparison; the first element of a swap is read into a temporary.
Sort(p) ==
  LET l == local[p] IN
  /\ pc[p] = "sort"
  /\ l.i <= Length
  /\ IF l.j > 1 /\ Newer(l)
       THEN /\ local' = [local EXCEPT ![p].version = slice[l.object][l.j]]
            /\ Goto(p, "move")
       ELSE /\ local' = [local EXCEPT ![p].i = @ + 1, ![p].j = l.i + 1]
            /\ UNCHANGED pc
  /\ UNCHANGED <<registry, slice, history>>

\* The older element moves down: it is in the slice twice, the other not at all.
Move(p) ==
  LET l == local[p] IN
  /\ pc[p] = "move"
  /\ slice' = [slice EXCEPT ![l.object][l.j] = slice[l.object][l.j - 1]]
  /\ Goto(p, "write")
  /\ UNCHANGED <<registry, local, history>>

\* Mutant: a swap without a temporary.
WriteBack(p) ==
  LET l == local[p] IN
  /\ pc[p] = "write"
  /\ slice' = [slice EXCEPT ![l.object][l.j - 1] = slice[l.object][l.j]]
  /\ local' = [local EXCEPT ![p].j = @ - 1, ![p].version = None]
  /\ Goto(p, "sort")
  /\ UNCHANGED <<registry, history>>

\* The newer element is written in its place.
Write(p) ==
  LET l == local[p] IN
  /\ pc[p] = "write"
  /\ slice' = [slice EXCEPT ![l.object][l.j - 1] = l.version]
  /\ local' = [local EXCEPT ![p].j = @ - 1, ![p].version = None]
  /\ Goto(p, "sort")
  /\ UNCHANGED <<registry, history>>

\* The slice is sorted and its first element returned.
Sorted(p) == pc[p] = "sort" /\ local[p].i > Length

ReturnLatest(p) ==
  /\ Sorted(p)
  /\ Return(p)
  /\ UNCHANGED <<registry, slice, history>>

-----------------------------------------------------------------------------
Next ==
  \E p \in Proc :
    \/ Register(p) \/ RegisterWithConstraints(p) \/ AttachConstraints(p)
    \/ Unregister(p) \/ UpdateComponentMeta(p)
    \/ Get(p) \/ Scan(p) \/ Refuse(p)
    \/ GetLatestVersion(p) \/ Sort(p) \/ Move(p) \/ Write(p) \/ ReturnLatest(p)

Spec == Init /\ [][Next]_vars

-----------------------------------------------------------------------------
\* Every variable has its type; a slice never holds a foreign version.
TypeOK ==
  /\ components \in [Name -> Object \cup {None}]
  /\ componentMeta \in [Name -> Meta \cup {None}]
  /\ constraints \in [Name -> Object \cup {None}]
  /\ slice \in [Object -> [Index -> Version]]
  /\ pc \in [Proc -> Label]
  /\ local \in [Proc -> Local]
  /\ overtaken \subseteq Name
  /\ refused \subseteq Object \X Version
  /\ contended \subseteq Object

\* Components and metadata never part: whatever interleaving of registrations
\* and removals, a name has both or neither, and the metadata is that of the
\* component registered now.
DomainsAgree ==
  \A n \in Name :
    IF components[n] = None
      THEN componentMeta[n] = None
      ELSE /\ componentMeta[n] # None
           /\ componentMeta[n].object = components[n]
           /\ NameOf[components[n]] = n

\* CheckCompatibility judges a component by constraints that were registered
\* with it, unless a RegisterWithConstraints was overtaken by an Unregister of
\* the same name between its two critical sections.
ConstraintsOwned ==
  \A n \in Name :
    constraints[n] # None /\ n \notin overtaken =>
      /\ components[n] = constraints[n]
      /\ componentMeta[n].constraints = constraints[n]

\* The three maps of the registry agree, under any interleaving of the critical
\* sections of registrations, removals and updates.
RegistrySound == DomainsAgree /\ ConstraintsOwned

\* Sorting in place loses no version of a component that two goroutines have
\* never sorted at the same time: what is missing from its slice is in the
\* temporary of a swap.
InFlight(o) == {local[p].version : p \in {q \in Proc : pc[q] = "write" /\ local[q].object = o}}

SupportedKept ==
  \A o \in Object \ contended :
    {slice[o][i] : i \in Index} \cup InFlight(o) = DeclaredSet(o)

\* GetLatestVersion then returns the newest version the component was built with.
LatestIsNewest ==
  \A p \in Proc : Sorted(p) /\ local[p].object \notin contended =>
    \A v \in DeclaredSet(local[p].object) : slice[local[p].object][1] >= v

\* The sort in place neither loses a version nor answers with an older one, while
\* other goroutines sort, scan and register.  The one cause of a loss is a second
\* GetLatestVersion of the same component that begins before the first has
\* returned: it takes no lock, and from then on nothing is claimed for that slice.
SortSound == SupportedKept /\ LatestIsNewest

\* A component is never replaced: its name is free again only after Unregister.
NeverReplaced ==
  [][\A n \in Name : components[n] # None => components'[n] \in {components[n], None}]_vars

\* What Get says of itself, "validates version support": it does not refuse a
\* version the component was built with.
NoFalseRefusal == refused = {}
=============================================================================
