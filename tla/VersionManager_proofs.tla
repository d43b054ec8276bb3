----------------------- MODULE VersionManager_proofs -----------------------
(***************************************************************************)
(* Proofs about VersionManager, for any goroutines, names, components and  *)
(* versions, and any number of goroutines that sort at the same time.      *)
(***************************************************************************)
EXTENDS VersionManager, TLAPS

-----------------------------------------------------------------------------
(***************************************************************************)
(* Type correctness.  A goroutine inside an operation holds a component;   *)
(* inside a swap it holds a version, and the index it writes to exists.    *)
(***************************************************************************)
LocalOK(label, l) ==
  /\ label # "idle" => l.object \in Object
  /\ label \in {"scan", "move", "write"} => l.version \in Version
  /\ label = "sort" => l.j <= l.i
  /\ label \in {"move", "write"} => l.j \in 2 .. Length /\ l.j <= l.i

LocalInv == \A p \in Proc : LocalOK(pc[p], local[p])

TypeInv == TypeOK /\ LocalInv

GoroutineTypes ==
  /\ pc \in [Proc -> Label]
  /\ local \in [Proc -> Local]
  /\ LocalInv

\* A step moves one goroutine to a label its variables are good for.
LEMMA GoroutineStep ==
  ASSUME GoroutineTypes,
         NEW p \in Proc, NEW label \in Label, NEW l \in Local,
         LocalOK(label, l),
         pc' = [pc EXCEPT ![p] = label],
         local' = [local EXCEPT ![p] = l]
  PROVE  GoroutineTypes'
BY DEF GoroutineTypes, LocalInv

\* A goroutine that returns has no variables left.
LEMMA GoroutineReturn ==
  ASSUME GoroutineTypes, NEW p \in Proc, Return(p)
  PROVE  GoroutineTypes'
<1>1. NoLocal \in Local
  BY VersionAssumption DEF NoLocal, Local
<1>2. LocalOK("idle", NoLocal) /\ "idle" \in Label
  BY DEF LocalOK, Label
<1> QED
  BY <1>1, <1>2, GoroutineStep DEF Return, Goto

LEMMA InitTypeInv == Init => TypeInv
<1> SUFFICES ASSUME Init PROVE TypeInv
  OBVIOUS
<1>1. slice \in [Object -> [Index -> Version]]
  BY VersionAssumption DEF Init, Version
<1>2. NoLocal \in Local
  BY VersionAssumption DEF NoLocal, Local
<1> QED
  BY <1>1, <1>2 DEF Init, TypeInv, TypeOK, LocalInv, LocalOK, Label

LEMMA StepTypeInv == TypeInv /\ [Next]_vars => TypeInv'
<1> SUFFICES ASSUME TypeInv, [Next]_vars PROVE TypeInv'
  OBVIOUS
<1> USE RegistryAssumption, VersionAssumption DEF registry, history
<1> DEFINE RegistryTypes ==
             /\ components \in [Name -> Object \cup {None}]
             /\ componentMeta \in [Name -> Meta \cup {None}]
             /\ constraints \in [Name -> Object \cup {None}]
             /\ overtaken \subseteq Name
           ScanTypes ==
             /\ slice \in [Object -> [Index -> Version]]
             /\ refused \subseteq Object \X Version
             /\ contended \subseteq Object
<1>a. TypeInv <=> RegistryTypes /\ ScanTypes /\ GoroutineTypes
  BY DEF TypeInv, TypeOK, GoroutineTypes
<1>b. TypeInv' <=> RegistryTypes' /\ ScanTypes' /\ GoroutineTypes'
  BY DEF TypeInv, TypeOK, GoroutineTypes
<1>c. UNCHANGED registry => RegistryTypes'
  BY <1>a
<1>d. UNCHANGED <<slice, history>> => ScanTypes'
  BY <1>a
<1>e. UNCHANGED <<pc, local>> => GoroutineTypes'
  BY <1>a DEF GoroutineTypes, LocalInv
<1>f. 1 \in Index
  BY DEF Index
<1>g. ASSUME NEW o \in Object, Add(o) PROVE /\ components' \in [Name -> Object \cup {None}]
                                           /\ componentMeta' \in [Name -> Meta \cup {None}]
  <2>1. NewMeta(o) \in Meta
    BY <1>a, <1>f DEF NewMeta, Meta
  <2> QED
    BY <1>a, <1>g, <2>1 DEF Add
<1>h. \A p \in Proc : local[p] \in Local /\ LocalOK(pc[p], local[p])
  BY <1>a DEF GoroutineTypes, LocalInv
<1>1. ASSUME NEW p \in Proc, Register(p) PROVE TypeInv'
  BY <1>1, <1>a, <1>b, <1>d, <1>e, <1>g DEF Register
<1>2. ASSUME NEW p \in Proc, RegisterWithConstraints(p) PROVE TypeInv'
  <2>1. PICK o \in Object : Add(o) /\ local' = [local EXCEPT ![p].object = o]
    BY <1>2 DEF RegisterWithConstraints
  <2> DEFINE l == [local[p] EXCEPT !.object = o]
  <2>2. l \in Local /\ LocalOK("attach", l) /\ "attach" \in Label
    BY <1>h DEF Local, LocalOK, Label
  <2>3. pc' = [pc EXCEPT ![p] = "attach"] /\ local' = [local EXCEPT ![p] = l]
    BY <1>2, <2>1 DEF RegisterWithConstraints, Goto
  <2>4. GoroutineTypes'
    BY <1>a, <2>2, <2>3, GoroutineStep
  <2> QED
    BY <1>2, <1>a, <1>b, <1>d, <1>g, <2>1, <2>4 DEF RegisterWithConstraints
<1>3. ASSUME NEW p \in Proc, AttachConstraints(p) PROVE TypeInv'
  <2> DEFINE o == local[p].object
             n == NameOf[o]
  <2>1. o \in Object /\ n \in Name
    BY <1>3, <1>h DEF AttachConstraints, LocalOK
  <2>2. CASE componentMeta[n] = None
    <3>1. pc' = [pc EXCEPT ![p] = "panicked"] /\ UNCHANGED <<componentMeta, local>>
      BY <1>3, <2>2 DEF AttachConstraints, Goto
    <3>2. LocalOK("panicked", local[p]) /\ "panicked" \in Label
      BY <2>1 DEF LocalOK, Label
    <3>3. local' = [local EXCEPT ![p] = local[p]]
      BY <3>1, <1>a DEF GoroutineTypes
    <3>4. GoroutineTypes'
      BY <1>a, <1>h, <3>1, <3>2, <3>3, GoroutineStep
    <3> QED
      BY <1>3, <1>a, <1>b, <1>d, <2>1, <3>1, <3>4 DEF AttachConstraints
  <2>3. CASE componentMeta[n] # None
    <3>1. componentMeta' = [componentMeta EXCEPT ![n].constraints = o] /\ Return(p)
      BY <1>3, <2>3 DEF AttachConstraints
    <3>2. [componentMeta[n] EXCEPT !.constraints = o] \in Meta
      <4>1. componentMeta[n] \in Meta
        BY <1>a, <2>1, <2>3
      <4> QED
        BY <2>1, <4>1 DEF Meta
    <3>3. componentMeta' \in [Name -> Meta \cup {None}]
      BY <1>a, <2>1, <3>1, <3>2
    <3>4. GoroutineTypes'
      BY <1>a, <3>1, GoroutineReturn
    <3> QED
      BY <1>3, <1>a, <1>b, <1>d, <2>1, <3>3, <3>4 DEF AttachConstraints
  <2> QED
    BY <2>2, <2>3
<1>4. ASSUME NEW p \in Proc, Unregister(p) PROVE TypeInv'
  BY <1>4, <1>a, <1>b, <1>d, <1>e DEF Unregister
<1>5. ASSUME NEW p \in Proc, UpdateComponentMeta(p) PROVE TypeInv'
  <2>1. PICK n \in Name, v \in Version :
          /\ componentMeta[n] # None
          /\ componentMeta' = [componentMeta EXCEPT ![n].default = v]
    BY <1>5 DEF UpdateComponentMeta
  <2>2. [componentMeta[n] EXCEPT !.default = v] \in Meta
    BY <1>a, <2>1 DEF Meta
  <2>3. componentMeta' \in [Name -> Meta \cup {None}]
    BY <1>a, <2>1, <2>2
  <2> QED
    BY <1>5, <1>a, <1>b, <1>d, <1>e, <2>3 DEF UpdateComponentMeta
<1>6. ASSUME NEW p \in Proc, Get(p) PROVE TypeInv'
  <2>1. PICK n \in Name, v \in Version :
          /\ components[n] # None
          /\ local' = [local EXCEPT ![p].object = components[n], ![p].version = v]
    BY <1>6 DEF Get
  <2> DEFINE l == [local[p] EXCEPT !.object = components[n], !.version = v]
  <2>2. l \in Local /\ LocalOK("scan", l) /\ "scan" \in Label
    BY <1>a, <1>h, <2>1 DEF Local, LocalOK, Label
  <2>3. pc' = [pc EXCEPT ![p] = "scan"] /\ local' = [local EXCEPT ![p] = l]
    BY <1>6, <1>a, <2>1 DEF Get, Goto, GoroutineTypes
  <2>4. GoroutineTypes'
    BY <1>a, <2>2, <2>3, GoroutineStep
  <2> QED
    BY <1>6, <1>b, <1>c, <1>d, <2>4 DEF Get
<1>7. ASSUME NEW p \in Proc, Scan(p) PROVE TypeInv'
  <2>1. CASE Return(p)
    BY <1>7, <1>a, <1>b, <1>c, <1>d, <2>1, GoroutineReturn DEF Scan
  <2>2. CASE local' = [local EXCEPT ![p].i = @ + 1] /\ UNCHANGED pc
    <3> DEFINE l == [local[p] EXCEPT !.i = @ + 1]
    <3>1. l \in Local /\ LocalOK(pc[p], l) /\ pc[p] \in Label
      BY <1>7, <1>h DEF Scan, Local, LocalOK, Label
    <3>2. pc' = [pc EXCEPT ![p] = pc[p]] /\ local' = [local EXCEPT ![p] = l]
      BY <1>a, <2>2 DEF GoroutineTypes
    <3>3. GoroutineTypes'
      BY <1>a, <3>1, <3>2, GoroutineStep
    <3> QED
      BY <1>7, <1>b, <1>c, <1>d, <3>3 DEF Scan
  <2> QED
    BY <1>7, <2>1, <2>2 DEF Scan
<1>8. ASSUME NEW p \in Proc, Refuse(p) PROVE TypeInv'
  <2>1. local[p].object \in Object /\ local[p].version \in Version
    BY <1>8, <1>h DEF Refuse, LocalOK
  <2>2. ScanTypes'
    BY <1>8, <1>a, <2>1 DEF Refuse
  <2> QED
    BY <1>8, <1>a, <1>b, <1>c, <2>2, GoroutineReturn DEF Refuse
<1>9. ASSUME NEW p \in Proc, GetLatestVersion(p) PROVE TypeInv'
  <2>1. PICK n \in Name :
          /\ components[n] # None
          /\ local' = [local EXCEPT ![p].object = components[n], ![p].i = 2, ![p].j = 2]
          /\ contended' \in {contended, contended \cup {components[n]}}
    BY <1>9 DEF GetLatestVersion
  <2> DEFINE l == [local[p] EXCEPT !.object = components[n], !.i = 2, !.j = 2]
  <2>2. components[n] \in Object /\ 2 \in 1 .. Length + 1 /\ local[p] \in Local
    BY <1>a, <1>h, <2>1
  <2>3. l \in Local /\ LocalOK("sort", l) /\ "sort" \in Label
    <3>1. l \in Local
      BY <2>2 DEF Local
    <3>2. l.object \in Object /\ l.i = 2 /\ l.j = 2
      BY <2>2 DEF Local
    <3> HIDE DEF l
    <3> QED
      BY <3>1, <3>2 DEF LocalOK, Label
  <2>4. pc' = [pc EXCEPT ![p] = "sort"] /\ local' = [local EXCEPT ![p] = l]
    BY <1>9, <1>a, <2>1 DEF GetLatestVersion, Goto, GoroutineTypes
  <2>5. GoroutineTypes'
    BY <1>a, <2>3, <2>4, GoroutineStep
  <2>6. slice' = slice /\ refused' = refused
    BY <1>9 DEF GetLatestVersion
  <2>7. ScanTypes'
    BY <1>a, <2>1, <2>2, <2>6
  <2> QED
    BY <1>9, <1>b, <1>c, <2>5, <2>7 DEF GetLatestVersion
<1>10. ASSUME NEW p \in Proc, Sort(p) PROVE TypeInv'
  <2> DEFINE o == local[p].object
             i == local[p].i
             j == local[p].j
  <2>1. o \in Object /\ i \in 1 .. Length /\ j \in 1 .. Length /\ j <= i
    BY <1>10, <1>h DEF Sort, Local, LocalOK
  <2>2. CASE /\ j > 1
             /\ local' = [local EXCEPT ![p].version = slice[o][j]]
             /\ Goto(p, "move")
    <3> DEFINE l == [local[p] EXCEPT !.version = slice[o][j]]
    <3>1. slice[o][j] \in Version
      BY <1>a, <2>1 DEF Index
    <3>2. l \in Local /\ LocalOK("move", l) /\ "move" \in Label
      BY <1>h, <2>1, <2>2, <3>1 DEF Local, LocalOK, Label
    <3>3. pc' = [pc EXCEPT ![p] = "move"] /\ local' = [local EXCEPT ![p] = l]
      BY <2>2 DEF Goto
    <3>4. GoroutineTypes'
      BY <1>a, <3>2, <3>3, GoroutineStep
    <3> QED
      BY <1>10, <1>b, <1>c, <1>d, <3>4 DEF Sort
  <2>3. CASE local' = [local EXCEPT ![p].i = @ + 1, ![p].j = i + 1] /\ UNCHANGED pc
    <3> DEFINE l == [local[p] EXCEPT !.i = i + 1, !.j = i + 1]
    <3>a. i + 1 \in 1 .. Length + 1 /\ local[p] \in Local
      BY <1>h, <2>1
    <3>1. l \in Local /\ LocalOK("sort", l) /\ "sort" \in Label
      <4>1. l \in Local
        BY <3>a DEF Local
      <4>2. l.object = o /\ l.i = i + 1 /\ l.j = i + 1
        BY <3>a DEF Local
      <4> HIDE DEF l
      <4> QED
        BY <2>1, <4>1, <4>2 DEF LocalOK, Label
    <3>2. pc' = [pc EXCEPT ![p] = "sort"] /\ local' = [local EXCEPT ![p] = l]
      BY <1>10, <1>a, <2>3 DEF Sort, GoroutineTypes
    <3>3. GoroutineTypes'
      BY <1>a, <3>1, <3>2, GoroutineStep
    <3> QED
      BY <1>10, <1>b, <1>c, <1>d, <3>3 DEF Sort
  <2> QED
    BY <1>10, <2>2, <2>3 DEF Sort
<1>11. ASSUME NEW p \in Proc, Move(p) PROVE TypeInv'
  <2> DEFINE o == local[p].object
             j == local[p].j
  <2>1. o \in Object /\ j \in Index /\ j - 1 \in Index
    BY <1>11, <1>h DEF Move, LocalOK, Index
  <2>2. ScanTypes'
    BY <1>11, <1>a, <2>1 DEF Move
  <2>3. LocalOK("write", local[p]) /\ "write" \in Label
    BY <1>11, <1>h DEF Move, LocalOK, Label
  <2>4. pc' = [pc EXCEPT ![p] = "write"] /\ local' = [local EXCEPT ![p] = local[p]]
    BY <1>11, <1>a DEF Move, Goto, GoroutineTypes
  <2>5. GoroutineTypes'
    BY <1>a, <1>h, <2>3, <2>4, GoroutineStep
  <2> QED
    BY <1>11, <1>b, <1>c, <2>2, <2>5 DEF Move
<1>12. ASSUME NEW p \in Proc, Write(p) PROVE TypeInv'
  <2> DEFINE o == local[p].object
             j == local[p].j
             l == [local[p] EXCEPT !.j = j - 1, !.version = None]
  <2>1. o \in Object /\ j \in 2 .. Length /\ j - 1 \in Index /\ local[p].version \in Version
    BY <1>12, <1>h DEF Write, LocalOK, Index
  <2>2. ScanTypes'
    BY <1>12, <1>a, <2>1 DEF Write
  <2>a. /\ local[p] \in Local /\ local[p].i \in 1 .. Length + 1
        /\ j - 1 \in 1 .. Length + 1 /\ j - 1 <= local[p].i
    BY <1>12, <1>h, <2>1 DEF Write, LocalOK, Local
  <2>3. l \in Local /\ LocalOK("sort", l) /\ "sort" \in Label
    <3>1. l \in Local
      BY <2>a DEF Local
    <3>2. l.object = o /\ l.i = local[p].i /\ l.j = j - 1
      BY <2>a DEF Local
    <3> HIDE DEF l
    <3> QED
      BY <2>1, <2>a, <3>1, <3>2 DEF LocalOK, Label
  <2>4. pc' = [pc EXCEPT ![p] = "sort"] /\ local' = [local EXCEPT ![p] = l]
    BY <1>12, <1>a DEF Write, Goto, GoroutineTypes
  <2>5. GoroutineTypes'
    BY <1>a, <2>3, <2>4, GoroutineStep
  <2> QED
    BY <1>12, <1>b, <1>c, <2>2, <2>5 DEF Write
<1>13. ASSUME NEW p \in Proc, ReturnLatest(p) PROVE TypeInv'
  BY <1>13, <1>a, <1>b, <1>c, <1>d, GoroutineReturn DEF ReturnLatest
<1>14. CASE UNCHANGED vars
  BY <1>14, <1>b, <1>c, <1>d, <1>e DEF vars
<1> QED
  BY <1>1, <1>2, <1>3, <1>4, <1>5, <1>6, <1>7, <1>8, <1>9, <1>10, <1>11, <1>12, <1>13, <1>14 DEF Next

\* The registry, the slices and the goroutines' variables are well typed, even
\* when several goroutines sort the same slice at once.
THEOREM TypeCorrect == Spec => []TypeOK
<1>1. TypeInv => TypeOK
  BY DEF TypeInv
<1> QED
  BY <1>1, InitTypeInv, StepTypeInv, PTL DEF Spec

-----------------------------------------------------------------------------
(***************************************************************************)
(* The registry.  Only the five writers of m.components, m.componentMeta   *)
(* and m.constraints can disturb its invariant, and each in one critical   *)
(* section.                                                                *)
(***************************************************************************)
RegistryInv == TypeInv /\ DomainsAgree /\ ConstraintsOwned

\* Whatever a registration, with or without constraints, does to the registry.
LEMMA AddKeepsRegistry ==
  ASSUME RegistryInv, NEW o \in Object, Add(o), UNCHANGED <<constraints, overtaken>>
  PROVE  DomainsAgree' /\ ConstraintsOwned'
<1> DEFINE n == NameOf[o]
<1> USE RegistryAssumption
<1>1. n \in Name /\ components[n] = None
  BY DEF Add
<1>2. /\ components' = [components EXCEPT ![n] = o]
      /\ componentMeta' = [componentMeta EXCEPT ![n] = NewMeta(o)]
  BY DEF Add
<1>3. /\ components \in [Name -> Object \cup {None}]
      /\ componentMeta \in [Name -> Meta \cup {None}]
  BY DEF RegistryInv, TypeInv, TypeOK
<1>4. NewMeta(o).object = o /\ NewMeta(o) # None
  <2>1. slice[o][1] \in Version
    BY VersionAssumption DEF RegistryInv, TypeInv, TypeOK, Index
  <2> QED
    BY <2>1 DEF NewMeta, Meta
<1>5. DomainsAgree'
  BY <1>1, <1>2, <1>3, <1>4 DEF RegistryInv, DomainsAgree
<1>6. constraints[n] = None \/ n \in overtaken
  BY <1>1 DEF RegistryInv, ConstraintsOwned
<1>7. ConstraintsOwned'
  BY <1>1, <1>2, <1>3, <1>6 DEF RegistryInv, ConstraintsOwned
<1> QED
  BY <1>5, <1>7

\* The constraints a goroutine attaches come with its component, or the name is
\* overtaken.
LEMMA AttachKeepsRegistry ==
  ASSUME RegistryInv, NEW p \in Proc, AttachConstraints(p)
  PROVE  DomainsAgree' /\ ConstraintsOwned'
<1> DEFINE o == local[p].object
           n == NameOf[o]
<1>1. o \in Object /\ n \in Name
  BY RegistryAssumption DEF RegistryInv, TypeInv, LocalInv, LocalOK, AttachConstraints
<1>2. /\ components \in [Name -> Object \cup {None}]
      /\ componentMeta \in [Name -> Meta \cup {None}]
      /\ constraints \in [Name -> Object \cup {None}]
  BY DEF RegistryInv, TypeInv, TypeOK
<1>3. /\ constraints' = [constraints EXCEPT ![n] = o]
      /\ overtaken' = IF components[n] = o THEN overtaken ELSE overtaken \cup {n}
      /\ UNCHANGED components
  BY DEF AttachConstraints
<1>4. CASE componentMeta[n] = None
  <2>1. UNCHANGED componentMeta
    BY <1>4 DEF AttachConstraints
  <2>2. components[n] = None
    BY <1>1, <1>4 DEF RegistryInv, DomainsAgree
  <2>3. n \in overtaken'
    BY <1>1, <1>3, <2>2, RegistryAssumption
  <2> QED
    BY <1>1, <1>2, <1>3, <2>1, <2>3 DEF RegistryInv, DomainsAgree, ConstraintsOwned
<1>5. CASE componentMeta[n] # None
  <2> DEFINE m == [componentMeta[n] EXCEPT !.constraints = o]
  <2>1. componentMeta' = [componentMeta EXCEPT ![n] = m]
    BY <1>2, <1>5 DEF AttachConstraints
  <2>2. componentMeta[n] \in Meta
    BY <1>1, <1>2, <1>5
  <2>3. m \in Meta /\ m.object = componentMeta[n].object /\ m.constraints = o
    BY <1>1, <2>2 DEF Meta
  <2> HIDE DEF m
  <2>4. DomainsAgree'
    BY <1>1, <1>2, <1>3, <1>5, <2>1, <2>3, RegistryAssumption DEF RegistryInv, DomainsAgree
  <2>5. ConstraintsOwned'
    BY <1>1, <1>2, <1>3, <2>1, <2>3 DEF RegistryInv, ConstraintsOwned
  <2> QED
    BY <2>4, <2>5
<1> QED
  BY <1>4, <1>5

LEMMA StepRegistryInv == RegistryInv /\ [Next]_vars => RegistryInv'
<1> SUFFICES ASSUME RegistryInv, [Next]_vars PROVE RegistryInv'
  OBVIOUS
<1>a. TypeInv'
  BY StepTypeInv DEF RegistryInv
<1>b. UNCHANGED registry => DomainsAgree' /\ ConstraintsOwned'
  BY DEF registry, history, RegistryInv, DomainsAgree, ConstraintsOwned
<1>c. /\ components \in [Name -> Object \cup {None}]
      /\ componentMeta \in [Name -> Meta \cup {None}]
      /\ constraints \in [Name -> Object \cup {None}]
  BY DEF RegistryInv, TypeInv, TypeOK
<1>1. ASSUME NEW p \in Proc, Register(p) \/ RegisterWithConstraints(p) PROVE RegistryInv'
  BY <1>1, <1>a, AddKeepsRegistry DEF Register, RegisterWithConstraints, RegistryInv
<1>2. ASSUME NEW p \in Proc, AttachConstraints(p) PROVE RegistryInv'
  BY <1>2, <1>a, AttachKeepsRegistry DEF RegistryInv
<1>3. ASSUME NEW p \in Proc, Unregister(p) PROVE RegistryInv'
  BY <1>3, <1>a, <1>c DEF Unregister, RegistryInv, DomainsAgree, ConstraintsOwned
<1>4. ASSUME NEW p \in Proc, UpdateComponentMeta(p) PROVE RegistryInv'
  <2>1. PICK n \in Name, v \in Version :
          /\ componentMeta[n] # None
          /\ componentMeta' = [componentMeta EXCEPT ![n].default = v]
    BY <1>4 DEF UpdateComponentMeta
  <2> DEFINE m == [componentMeta[n] EXCEPT !.default = v]
  <2>2. componentMeta' = [componentMeta EXCEPT ![n] = m]
    BY <1>c, <2>1
  <2>3. /\ m \in Meta
        /\ m.object = componentMeta[n].object
        /\ m.constraints = componentMeta[n].constraints
    BY <1>c, <2>1 DEF Meta
  <2> HIDE DEF m
  <2>4. UNCHANGED <<components, constraints, overtaken>>
    BY <1>4 DEF UpdateComponentMeta
  <2>5. DomainsAgree'
    BY <1>c, <2>1, <2>2, <2>3, <2>4, RegistryAssumption DEF RegistryInv, DomainsAgree
  <2>6. ConstraintsOwned'
    BY <1>c, <2>1, <2>2, <2>3, <2>4 DEF RegistryInv, ConstraintsOwned
  <2> QED
    BY <1>a, <2>5, <2>6 DEF RegistryInv
<1>5. ASSUME NEW p \in Proc,
             \/ Get(p) \/ Scan(p) \/ Refuse(p) \/ GetLatestVersion(p)
             \/ Sort(p) \/ Move(p) \/ Write(p) \/ ReturnLatest(p)
      PROVE  RegistryInv'
  BY <1>5, <1>a, <1>b DEF RegistryInv, Get, Scan, Refuse, GetLatestVersion,
                          Sort, Move, Write, ReturnLatest
<1>6. CASE UNCHANGED vars
  BY <1>6, <1>a, <1>b DEF RegistryInv, vars, registry, history
<1> QED
  BY <1>1, <1>2, <1>3, <1>4, <1>5, <1>6 DEF Next

LEMMA InitRegistryInv == Init => RegistryInv
BY InitTypeInv DEF RegistryInv, Init, DomainsAgree, ConstraintsOwned

\* However registrations and removals interleave, a name has a component and its
\* metadata, or neither.
THEOREM RegistryIsConsistent == Spec => []DomainsAgree
<1>1. RegistryInv => DomainsAgree
  BY DEF RegistryInv
<1> QED
  BY <1>1, InitRegistryInv, StepRegistryInv, PTL DEF Spec

\* The gap between the two critical sections of RegisterWithConstraints is the
\* only way a component comes to be judged by another's constraints.
THEOREM ConstraintsHaveOneOwner == Spec => []ConstraintsOwned
<1>1. RegistryInv => ConstraintsOwned
  BY DEF RegistryInv
<1> QED
  BY <1>1, InitRegistryInv, StepRegistryInv, PTL DEF Spec

\* The maps of the registry agree, for any goroutines, components and names.
THEOREM RegistryIsSound == Spec => []RegistrySound
BY RegistryIsConsistent, ConstraintsHaveOneOwner, PTL DEF RegistrySound

\* No registration replaces a component, however many goroutines register it.
THEOREM RegistrationsNeverReplace == Spec => NeverReplaced
<1> DEFINE Kept == \A n \in Name :
             components[n] # None => components'[n] \in {components[n], None}
<1>1. RegistryInv /\ [Next]_vars => [Kept]_vars
  <2> SUFFICES ASSUME RegistryInv, Next PROVE Kept
    OBVIOUS
  <2>1. components \in [Name -> Object \cup {None}]
    BY DEF RegistryInv, TypeInv, TypeOK
  <2>2. ASSUME NEW o \in Object, Add(o) PROVE Kept
    BY <2>1, <2>2, RegistryAssumption DEF Add
  <2>3. ASSUME NEW p \in Proc, Unregister(p) PROVE Kept
    BY <2>1, <2>3 DEF Unregister
  <2>4. UNCHANGED components => Kept
    OBVIOUS
  <2> QED
    BY <2>2, <2>3, <2>4 DEF Next, Register, RegisterWithConstraints, AttachConstraints,
       UpdateComponentMeta, Get, Scan, Refuse, GetLatestVersion, Sort, Move, Write,
       ReturnLatest, registry, history
<1> QED
  BY <1>1, InitRegistryInv, StepRegistryInv, PTL DEF Spec, NeverReplaced

-----------------------------------------------------------------------------
(***************************************************************************)
(* The sort of GetLatestVersion, of a component that two goroutines have   *)
(* never sorted at once, while the others do anything else: the invariants *)
(* of an insertion sort whose swap is two writes.  The element at j is     *)
(* being moved down the sorted rest of the first i; between the two writes *)
(* it is in the temporary only.                                            *)
(***************************************************************************)
Sorts(p) == pc[p] \in {"sort", "move", "write"}

Elements(f) == {f[k] : k \in Index}

InOrder(f, i, j) ==
  /\ \A a, b \in Index : a < b /\ b <= i /\ a # j /\ b # j => f[a] >= f[b]
  /\ \A b \in Index : j < b /\ b <= i => f[j] >= f[b]

\* The element is in its place: the first i are sorted, and the next one follows.
LEMMA Inserted ==
  ASSUME NEW f \in [Index -> Int], NEW i \in Index, NEW j \in 1 .. i,
         InOrder(f, i, j), j > 1 => f[j] <= f[j - 1]
  PROVE  InOrder(f, i + 1, i + 1)
<1> USE VersionAssumption DEF Index
<1>1. ASSUME NEW a \in Index, NEW b \in Index, a < b, b <= i
      PROVE  f[a] >= f[b]
  <2>1. CASE a # j /\ b # j
    BY <1>1, <2>1 DEF InOrder
  <2>2. CASE a = j
    BY <1>1, <2>2 DEF InOrder
  <2>3. CASE b = j
    <3>1. j - 1 \in Index /\ f[j] <= f[j - 1] /\ f[a] \in Int /\ f[j] \in Int /\ f[j - 1] \in Int
      BY <1>1, <2>3
    <3>2. a # j - 1 => f[a] >= f[j - 1]
      BY <1>1, <2>3, <3>1 DEF InOrder
    <3> QED BY <2>3, <3>1, <3>2
  <2> QED BY <2>1, <2>2, <2>3
<1> QED BY <1>1 DEF InOrder

\* A swap keeps the elements and the order, and moves the element down.
LEMMA Swapped ==
  ASSUME NEW f \in [Index -> Int], NEW i \in Int, NEW j \in 2 .. Length, j <= i,
         InOrder(f, i, j), f[j] > f[j - 1],
         NEW h, h = [f EXCEPT ![j] = f[j - 1], ![j - 1] = f[j]]
  PROVE  InOrder(h, i, j - 1) /\ Elements(h) = Elements(f)
<1> USE VersionAssumption DEF Index
<1>1. j \in Index /\ j - 1 \in Index /\ j - 1 < j
  OBVIOUS
<1>2. /\ h[j] = f[j - 1] /\ h[j - 1] = f[j]
      /\ \A k \in Index : k # j /\ k # j - 1 => h[k] = f[k]
  BY <1>1
<1>3. ASSUME NEW a \in Index, NEW b \in Index, a < b, b <= i, a # j - 1, b # j - 1
      PROVE  h[a] >= h[b]
  <2>1. CASE a # j /\ b # j
    BY <1>2, <1>3, <2>1 DEF InOrder
  <2>2. CASE a = j
    <3>1. h[a] = f[j - 1] /\ h[b] = f[b] /\ j - 1 < b /\ b # j
      BY <1>2, <1>3, <2>2
    <3> QED BY <1>1, <1>3, <3>1 DEF InOrder
  <2>3. CASE b = j
    <3>1. h[a] = f[a] /\ h[b] = f[j - 1] /\ a < j - 1 /\ j - 1 <= i
      BY <1>2, <1>3, <2>3
    <3> QED BY <1>1, <1>3, <3>1 DEF InOrder
  <2> QED BY <2>1, <2>2, <2>3
<1>4. ASSUME NEW b \in Index, j - 1 < b, b <= i
      PROVE  h[j - 1] >= h[b]
  <2>1. CASE b = j
    BY <1>1, <1>2, <2>1
  <2>2. CASE b # j
    <3>1. h[j - 1] = f[j] /\ h[b] = f[b] /\ j < b
      BY <1>1, <1>2, <1>4, <2>2
    <3> QED BY <1>4, <3>1 DEF InOrder
  <2> QED BY <2>1, <2>2
<1>5. Elements(h) = Elements(f)
  <2>1. \A k \in Index : \E m \in Index : h[k] = f[m]
    BY <1>1, <1>2
  <2>2. \A k \in Index : \E m \in Index : f[k] = h[m]
    BY <1>1, <1>2
  <2>3. ASSUME NEW x \in Elements(h) PROVE x \in Elements(f)
    <3>1. PICK k \in Index : x = h[k]
      BY DEF Elements
    <3>2. PICK m \in Index : h[k] = f[m]
      BY <2>1
    <3> QED BY <3>1, <3>2 DEF Elements
  <2>4. ASSUME NEW x \in Elements(f) PROVE x \in Elements(h)
    <3>1. PICK k \in Index : x = f[k]
      BY DEF Elements
    <3>2. PICK m \in Index : f[k] = h[m]
      BY <2>2
    <3> QED BY <3>1, <3>2 DEF Elements
  <2> QED BY <2>3, <2>4
<1> QED BY <1>3, <1>4, <1>5 DEF InOrder

\* Between its two writes the swap's temporary holds what the slice is missing.
LEMMA HalfSwapped ==
  ASSUME NEW f \in [Index -> Int], NEW j \in 2 .. Length, f[j] = f[j - 1], NEW v \in Int
  PROVE  Elements(f) \cup {v} = Elements([f EXCEPT ![j - 1] = v])
<1> USE VersionAssumption DEF Index
<1> DEFINE h == [f EXCEPT ![j - 1] = v]
<1>1. /\ j \in Index /\ j - 1 \in Index
      /\ h[j - 1] = v /\ h[j] = f[j - 1]
      /\ \A k \in Index : k # j - 1 => h[k] = f[k]
  OBVIOUS
<1> HIDE DEF h
<1>2. \A k \in Index : h[k] = v \/ \E m \in Index : h[k] = f[m]
  BY <1>1
<1>3. \A k \in Index : \E m \in Index : f[k] = h[m]
  BY <1>1
<1> QED BY <1>1, <1>2, <1>3 DEF Elements, h

\* What a goroutine that sorts knows of the slice it sorts.
Sorting(p) ==
  LET l == local[p]
      s == slice[l.object]
      swapped == [s EXCEPT ![l.j - 1] = l.version]
  IN
  /\ pc[p] \in {"sort", "move"} => InOrder(s, l.i, l.j)
  /\ pc[p] = "sort" /\ l.i > Length => l.j > Length
  /\ pc[p] \in {"move", "write"} => l.i <= Length
  /\ pc[p] = "move" => l.version = s[l.j] /\ s[l.j] > s[l.j - 1]
  /\ pc[p] = "write" => /\ s[l.j] = s[l.j - 1]
                        /\ InOrder(swapped, l.i, l.j - 1)
                        /\ Elements(swapped) = DeclaredSet(l.object)

SortInv ==
  /\ \A p \in Proc : Sorts(p) /\ local[p].object \notin contended => Sorting(p)
  /\ \A p, q \in Proc :
       Sorts(p) /\ Sorts(q) /\ local[p].object = local[q].object /\ p # q
         => local[p].object \in contended
  /\ \A o \in Object \ contended :
       (\A p \in Proc : pc[p] = "write" => local[p].object # o)
         => Elements(slice[o]) = DeclaredSet(o)

\* A step of one goroutine that begins no sort, leaves the slices alone and is not
\* between the two writes of a swap.
LEMMA NotSorting ==
  ASSUME SortInv, NEW p \in Proc, slice' = slice, contended' = contended,
         \A q \in Proc \ {p} : pc'[q] = pc[q] /\ local'[q] = local[q],
         pc[p] # "write", ~Sorts(p)'
  PROVE  SortInv'
<1>1. ASSUME NEW q \in Proc, Sorts(q)', local'[q].object \notin contended
      PROVE  Sorting(q)'
  BY <1>1 DEF SortInv, Sorting, Sorts
<1>2. ASSUME NEW q \in Proc, NEW r \in Proc, Sorts(q)', Sorts(r)', q # r,
             local'[q].object = local'[r].object
      PROVE  local'[q].object \in contended
  BY <1>2 DEF SortInv, Sorts
<1>3. ASSUME NEW o \in Object \ contended, \A q \in Proc : pc'[q] = "write" => local'[q].object # o
      PROVE  Elements(slice'[o]) = DeclaredSet(o)
  BY <1>3 DEF SortInv
<1> QED BY <1>1, <1>2, <1>3 DEF SortInv

\* A step of the one goroutine that sorts a component: it has to show what that
\* goroutine knows of the slice afterwards, and that the slice is whole again if
\* it is not between two writes.
LEMMA SorterStep ==
  ASSUME TypeInv, SortInv, NEW p \in Proc, Sorts(p), Sorts(p)', contended' = contended,
         NEW o \in Object, o = local[p].object, local'[p].object = o,
         \A q \in Proc \ {p} : pc'[q] = pc[q] /\ local'[q] = local[q],
         \A e \in Object \ {o} : slice'[e] = slice[e],
         o \notin contended => Sorting(p)',
         o \notin contended /\ pc'[p] # "write" => Elements(slice'[o]) = DeclaredSet(o)
  PROVE  SortInv'
<1>1. ASSUME NEW q \in Proc, Sorts(q)', local'[q].object \notin contended
      PROVE  Sorting(q)'
  <2>1. CASE q = p
    BY <1>1, <2>1
  <2>2. CASE q # p
    <3>1. pc'[q] = pc[q] /\ local'[q] = local[q] /\ Sorts(q) /\ local[q].object # o
      BY <1>1, <2>2 DEF SortInv, Sorts
    <3>2. Sorting(q)
      BY <1>1, <3>1 DEF SortInv
    <3>3. local[q].object \in Object
      BY <3>1 DEF TypeInv, LocalInv, LocalOK, Sorts
    <3> QED BY <3>1, <3>2, <3>3 DEF Sorting
  <2> QED BY <2>1, <2>2
<1>2. ASSUME NEW q \in Proc, NEW r \in Proc, Sorts(q)', Sorts(r)', q # r,
             local'[q].object = local'[r].object
      PROVE  local'[q].object \in contended
  <2>1. Sorts(q) /\ Sorts(r) /\ local'[q].object = local[q].object /\ local'[r].object = local[r].object
    BY <1>2 DEF Sorts
  <2> QED BY <1>2, <2>1 DEF SortInv
<1>3. ASSUME NEW e \in Object \ contended, \A q \in Proc : pc'[q] = "write" => local'[q].object # e
      PROVE  Elements(slice'[e]) = DeclaredSet(e)
  BY <1>3 DEF SortInv
<1> QED BY <1>1, <1>2, <1>3 DEF SortInv

LEMMA StepSortInv ==
  ASSUME TypeInv, TypeInv', SortInv, [Next]_vars PROVE SortInv'
<1>t. /\ pc \in [Proc -> Label] /\ local \in [Proc -> Local]
      /\ slice \in [Object -> [Index -> Int]]
      /\ \A p \in Proc : LocalOK(pc[p], local[p])
  <2>1. Version \subseteq Int
    BY VersionAssumption DEF Version
  <2>2. \A f \in [Index -> Version] : f \in [Index -> Int]
    BY <2>1
  <2> QED BY <2>2 DEF TypeInv, TypeOK, LocalInv
<1>k. ASSUME NEW p \in Proc, Sorts(p)
      PROVE  /\ local[p].object \in Object /\ slice[local[p].object] \in [Index -> Int]
             /\ local[p].i \in 1 .. Length + 1 /\ local[p].j \in 1 .. local[p].i
             /\ pc[p] \in {"move", "write"} => local[p].j \in 2 .. Length
             /\ local[p].object \notin contended => Sorting(p)
  <2>1. local[p] \in Local /\ LocalOK(pc[p], local[p]) /\ pc[p] \in {"sort", "move", "write"}
    BY <1>t, <1>k DEF Sorts
  <2>2. local[p].i \in 1 .. Length + 1 /\ local[p].j \in 1 .. Length + 1
    BY <2>1 DEF Local
  <2>3. local[p].object \in Object /\ local[p].j \in 1 .. local[p].i
    BY <2>1, <2>2, VersionAssumption DEF LocalOK
  <2>4. pc[p] \in {"move", "write"} => local[p].j \in 2 .. Length
    BY <2>1 DEF LocalOK
  <2> QED BY <1>t, <1>k, <2>2, <2>3, <2>4 DEF SortInv
<1>1. ASSUME NEW p \in Proc,
             \/ Register(p) \/ RegisterWithConstraints(p) \/ AttachConstraints(p)
             \/ Unregister(p) \/ UpdateComponentMeta(p)
             \/ Get(p) \/ Scan(p) \/ Refuse(p) \/ ReturnLatest(p)
      PROVE  SortInv'
  <2>1. /\ slice' = slice /\ contended' = contended
        /\ \A q \in Proc \ {p} : pc'[q] = pc[q] /\ local'[q] = local[q]
        /\ pc[p] # "write"
    BY <1>1, <1>t DEF Register, RegisterWithConstraints, AttachConstraints, Unregister,
       UpdateComponentMeta, Get, Scan, Refuse, ReturnLatest, Sorted, Goto, Return, registry, history
  <2>2. ~Sorts(p)'
    BY <1>1, <1>t DEF Sorts, Register, RegisterWithConstraints, AttachConstraints, Unregister,
       UpdateComponentMeta, Get, Scan, Refuse, ReturnLatest, Sorted, Goto, Return
  <2> QED BY <2>1, <2>2, NotSorting
<1>2. ASSUME NEW p \in Proc, GetLatestVersion(p) PROVE SortInv'
  <2>1. PICK n \in Name :
          /\ components[n] # None
          /\ local' = [local EXCEPT ![p].object = components[n], ![p].i = 2, ![p].j = 2]
          /\ contended' = IF SortersOf(components[n]) = {}
                            THEN contended
                            ELSE contended \cup {components[n]}
    BY <1>2 DEF GetLatestVersion
  <2> DEFINE o == components[n]
  <2>2. /\ slice' = slice /\ pc[p] = "idle" /\ pc'[p] = "sort"
        /\ local'[p].object = o /\ local'[p].i = 2 /\ local'[p].j = 2
        /\ \A q \in Proc \ {p} : pc'[q] = pc[q] /\ local'[q] = local[q]
    BY <1>2, <1>t, <2>1 DEF GetLatestVersion, Goto, Local
  <2>3. contended \subseteq contended' /\ (SortersOf(o) # {} => o \in contended')
    BY <2>1
  <2>4. Sorting(p)'
    <3>1. InOrder(slice'[local'[p].object], 2, 2)
      BY VersionAssumption DEF InOrder, Index
    <3> QED BY <2>2, <3>1 DEF Sorting
  <2>5. ASSUME NEW q \in Proc, Sorts(q)', local'[q].object \notin contended'
        PROVE  Sorting(q)'
    <3>1. CASE q = p
      BY <2>4, <3>1
    <3>2. CASE q # p
      <4>1. Sorts(q) /\ local[q].object \notin contended
        BY <2>2, <2>3, <2>5, <3>2 DEF Sorts
      <4> QED BY <2>2, <3>2, <4>1 DEF SortInv, Sorting
    <3> QED BY <3>1, <3>2
  <2>6. ASSUME NEW q \in Proc, NEW r \in Proc, Sorts(q)', Sorts(r)', q # r,
               local'[q].object = local'[r].object
        PROVE  local'[q].object \in contended'
    <3>1. \A u \in Proc \ {p} : Sorts(u)' => Sorts(u) /\ local'[u].object = local[u].object
      BY <2>2 DEF Sorts
    <3>2. \A u \in Proc \ {p} : Sorts(u)' /\ local'[u].object = o => u \in SortersOf(o)
      BY <3>1 DEF SortersOf, Sorts
    <3>3. CASE q = p \/ r = p
      BY <2>2, <2>3, <2>6, <3>2, <3>3
    <3>4. CASE q # p /\ r # p
      BY <2>3, <2>6, <3>1, <3>4 DEF SortInv
    <3> QED BY <3>3, <3>4
  <2>7. ASSUME NEW e \in Object \ contended', \A q \in Proc : pc'[q] = "write" => local'[q].object # e
        PROVE  Elements(slice'[e]) = DeclaredSet(e)
    <3>1. e \in Object \ contended /\ \A q \in Proc : pc[q] = "write" => local[q].object # e
      BY <2>2, <2>3, <2>7
    <3> QED BY <2>2, <3>1 DEF SortInv
  <2> QED BY <2>5, <2>6, <2>7 DEF SortInv
<1>3. ASSUME NEW p \in Proc, Sort(p) PROVE SortInv'
  <2> DEFINE l == local[p]
             s == slice[l.object]
  <2>1. /\ pc[p] = "sort" /\ l.i \in Index /\ l.j \in 1 .. l.i /\ l.object \in Object
        /\ s \in [Index -> Int] /\ slice' = slice /\ contended' = contended
        /\ l.object \notin contended => InOrder(s, l.i, l.j)
    <3>1. pc[p] = "sort" /\ l.i <= Length /\ slice' = slice /\ contended' = contended
      BY <1>3 DEF Sort, history
    <3>2. /\ l.object \in Object /\ s \in [Index -> Int]
          /\ l.i \in 1 .. Length + 1 /\ l.j \in 1 .. l.i
          /\ l.object \notin contended => Sorting(p)
      BY <3>1, <1>k DEF Sorts
    <3>3. l.i \in Index
      BY <3>1, <3>2, VersionAssumption DEF Index
    <3> QED BY <3>1, <3>2, <3>3 DEF Sorting
  <2>2. \A q \in Proc \ {p} : pc'[q] = pc[q] /\ local'[q] = local[q]
    BY <1>3, <1>t DEF Sort, Goto
  <2>3. l.object \notin contended => Elements(slice[l.object]) = DeclaredSet(l.object)
    <3> SUFFICES ASSUME l.object \notin contended
                 PROVE  \A q \in Proc : pc[q] = "write" => local[q].object # l.object
      BY <2>1 DEF SortInv
    <3> QED BY <2>1 DEF SortInv, Sorts
  <2>5. CASE l.j > 1 /\ Newer(l)
    <3>1. /\ pc'[p] = "move"
          /\ local'[p] = [l EXCEPT !.version = s[l.j]]
      BY <1>3, <1>t, <2>5 DEF Sort, Goto
    <3>2. /\ local'[p].object = l.object /\ local'[p].i = l.i /\ local'[p].j = l.j
          /\ local'[p].version = s[l.j]
      BY <3>1, <1>t DEF Local
    <3>3. l.object \notin contended => Sorting(p)'
      BY <2>1, <2>5, <3>1, <3>2, VersionAssumption DEF Sorting, Newer, Index
    <3>4. Sorts(p) /\ Sorts(p)'
      BY <2>1, <3>1 DEF Sorts
    <3> QED BY <2>1, <2>2, <2>3, <3>2, <3>3, <3>4, SorterStep
  <2>6. CASE ~(l.j > 1 /\ Newer(l))
    <3>1. /\ pc'[p] = "sort"
          /\ local'[p] = [l EXCEPT !.i = @ + 1, !.j = l.i + 1]
      BY <1>3, <1>t, <2>6 DEF Sort, Goto
    <3>2. /\ local'[p].object = l.object /\ local'[p].i = l.i + 1 /\ local'[p].j = l.i + 1
      BY <3>1, <1>t DEF Local
    <3>3. l.j > 1 => s[l.j] <= s[l.j - 1]
      <4>1. l.j > 1 => s[l.j] \in Int /\ s[l.j - 1] \in Int
        <5>0. l.i \in 1 .. Length /\ l.j \in 1 .. l.i
          BY <2>1 DEF Index
        <5>1. l.j \in Index /\ (l.j > 1 => l.j - 1 \in Index)
          BY <5>0, VersionAssumption DEF Index
        <5> QED BY <2>1, <5>1
      <4> QED BY <2>6, <4>1 DEF Newer
    <3>4. l.object \notin contended => InOrder(s, l.i + 1, l.i + 1)
      BY <2>1, <3>3, Inserted
    <3>5. l.object \notin contended => Sorting(p)'
      BY <2>1, <3>1, <3>2, <3>4 DEF Sorting
    <3>6. Sorts(p) /\ Sorts(p)'
      BY <2>1, <3>1 DEF Sorts
    <3> QED BY <2>1, <2>2, <2>3, <3>2, <3>5, <3>6, SorterStep
  <2> QED BY <2>5, <2>6
<1>4. ASSUME NEW p \in Proc, Move(p) PROVE SortInv'
  <2> DEFINE l == local[p]
             s == slice[l.object]
             g == [s EXCEPT ![l.j] = s[l.j - 1]]
             h == [g EXCEPT ![l.j - 1] = s[l.j]]
  <2>1. /\ pc[p] = "move" /\ l.i \in 1 .. Length + 1 /\ l.j \in 2 .. Length /\ l.j <= l.i
        /\ l.object \in Object /\ s \in [Index -> Int]
    <3>1. pc[p] = "move"
      BY <1>4 DEF Move
    <3>2. /\ l.object \in Object /\ s \in [Index -> Int]
          /\ l.i \in 1 .. Length + 1 /\ l.j \in 2 .. Length /\ l.j \in 1 .. l.i
      BY <3>1, <1>k DEF Sorts
    <3>3. l.j <= l.i
      BY <3>2, VersionAssumption
    <3> QED BY <3>1, <3>2, <3>3
  <2>2. /\ pc'[p] = "write" /\ local' = local /\ slice'[l.object] = g /\ contended' = contended
        /\ \A o \in Object \ {l.object} : slice'[o] = slice[o]
        /\ \A q \in Proc \ {p} : pc'[q] = pc[q] /\ local'[q] = local[q]
    BY <1>4, <1>t, <2>1 DEF Move, Goto, history
  <2>3. ASSUME l.object \notin contended
        PROVE  /\ l.i \in Index /\ InOrder(s, l.i, l.j) /\ l.version = s[l.j]
               /\ s[l.j] > s[l.j - 1] /\ Elements(s) = DeclaredSet(l.object)
    <3>1. Sorting(p)
      BY <1>k, <2>1, <2>3 DEF Sorts
    <3>2. \A q \in Proc : pc[q] = "write" => local[q].object # l.object
      BY <2>1, <2>3 DEF SortInv, Sorts
    <3>3. l.i \in Index
      BY <2>1, <3>1, VersionAssumption DEF Sorting, Index
    <3> QED BY <2>1, <2>3, <3>1, <3>2, <3>3 DEF SortInv, Sorting
  <2>4. g[l.j] = g[l.j - 1] /\ h = [s EXCEPT ![l.j] = s[l.j - 1], ![l.j - 1] = s[l.j]]
    <3>0. l.j \in 2 .. Length /\ s \in [Index -> Int]
      BY <2>1
    <3>1. l.j \in Index /\ l.j - 1 \in Index /\ l.j # l.j - 1
      <4>1. \A j \in 2 .. Length : j \in Index /\ j - 1 \in Index /\ j # j - 1
        BY VersionAssumption DEF Index
      <4> QED BY <3>0, <4>1
    <3> HIDE DEF l, s
    <3> QED BY <3>0, <3>1 DEF g, h
  <2>5. ASSUME l.object \notin contended
        PROVE  InOrder(h, l.i, l.j - 1) /\ Elements(h) = Elements(s)
    <3>0. /\ l.j \in 2 .. Length /\ l.j <= l.i /\ s \in [Index -> Int] /\ l.i \in Index
          /\ InOrder(s, l.i, l.j) /\ s[l.j] > s[l.j - 1]
          /\ h = [s EXCEPT ![l.j] = s[l.j - 1], ![l.j - 1] = s[l.j]]
      BY <2>1, <2>3, <2>4, <2>5
    <3>1. l.i \in Int
      BY <3>0, VersionAssumption DEF Index
    <3> DEFINE i == l.i
               j == l.j
    <3>2. /\ j \in 2 .. Length /\ j <= i /\ s \in [Index -> Int] /\ i \in Int
          /\ InOrder(s, i, j) /\ s[j] > s[j - 1]
          /\ h = [s EXCEPT ![j] = s[j - 1], ![j - 1] = s[j]]
      BY <3>0, <3>1
    <3> HIDE DEF l, s, h, i, j
    <3>3. InOrder(h, i, j - 1) /\ Elements(h) = Elements(s)
      BY <3>2, Swapped
    <3> QED BY <3>3 DEF i, j
  <2>6. l.object \notin contended => Sorting(p)'
    <3> SUFFICES ASSUME l.object \notin contended PROVE Sorting(p)'
      OBVIOUS
    <3>1. /\ local'[p] = l /\ slice'[local'[p].object] = g
          /\ [g EXCEPT ![l.j - 1] = l.version] = h
          /\ l.i <= Length
      <4>1. l.i \in Index /\ l.version = s[l.j] /\ local' = local /\ slice'[l.object] = g
        BY <2>2, <2>3
      <4>2. l.i <= Length
        BY <4>1, VersionAssumption DEF Index
      <4> QED BY <4>1, <4>2
    <3>2. DeclaredSet(l.object)' = DeclaredSet(l.object)
      BY <2>2 DEF DeclaredSet
    <3>3. InOrder(h, l.i, l.j - 1) /\ Elements(h) = DeclaredSet(l.object)
      BY <2>3, <2>5
    <3> QED BY <2>2, <2>4, <3>1, <3>2, <3>3 DEF Sorting
  <2>7. Sorts(p) /\ Sorts(p)'
    BY <2>1, <2>2 DEF Sorts
  <2> QED BY <2>1, <2>2, <2>6, <2>7, SorterStep
<1>5. ASSUME NEW p \in Proc, Write(p) PROVE SortInv'
  <2> DEFINE l == local[p]
             s == slice[l.object]
             h == [s EXCEPT ![l.j - 1] = l.version]
  <2>1. /\ pc[p] = "write" /\ l.j \in 2 .. Length /\ l.i \in 1 .. Length + 1
        /\ l.object \in Object /\ Sorts(p)
        /\ l.object \notin contended => Sorting(p)
    BY <1>5, <1>k DEF Write, Sorts
  <2>2. /\ pc'[p] = "sort" /\ slice'[l.object] = h /\ contended' = contended
        /\ local'[p] = [l EXCEPT !.j = @ - 1, !.version = None]
        /\ \A o \in Object \ {l.object} : slice'[o] = slice[o]
        /\ \A q \in Proc \ {p} : pc'[q] = pc[q] /\ local'[q] = local[q]
    BY <1>5, <1>t, <2>1 DEF Write, Goto, history
  <2>3. local'[p].object = l.object /\ local'[p].i = l.i /\ local'[p].j = l.j - 1
    BY <2>1, <2>2, <1>t DEF Local
  <2>4. ASSUME l.object \notin contended
        PROVE  /\ InOrder(h, l.i, l.j - 1) /\ Elements(h) = DeclaredSet(l.object)
               /\ l.i <= Length
    BY <2>1, <2>4 DEF Sorting
  <2>5. ASSUME l.object \notin contended PROVE Sorting(p)'
    <3>1. slice'[local'[p].object] = h
      BY <2>2, <2>3
    <3>2. InOrder(slice'[local'[p].object], local'[p].i, local'[p].j)
      BY <2>3, <2>4, <2>5, <3>1
    <3>3. ~(local'[p].i > Length)
      BY <2>1, <2>3, <2>4, <2>5, VersionAssumption
    <3> QED BY <2>2, <3>2, <3>3 DEF Sorting
  <2>6. Sorts(p)'
    BY <2>2 DEF Sorts
  <2>7. l.object \notin contended /\ pc'[p] # "write"
          => Elements(slice'[l.object]) = DeclaredSet(l.object)
    BY <2>2, <2>4
  <2> HIDE DEF h
  <2> QED BY <2>1, <2>2, <2>3, <2>5, <2>6, <2>7, SorterStep
<1>6. CASE UNCHANGED vars
  BY <1>6 DEF vars, SortInv, Sorting, Sorts
<1> QED BY <1>1, <1>2, <1>3, <1>4, <1>5, <1>6 DEF Next

\* However many goroutines sort, whatever the others do: no version is lost of a
\* component that two of them have never sorted at once, and what GetLatestVersion
\* returns of it is the newest one.
THEOREM SortIsSound == Spec => []SortSound
<1>1. Init => SortInv
  <2>1. \A o \in Object : Elements(Declared[o]) = DeclaredSet(o)
    BY DEF Elements, DeclaredSet
  <2> QED BY <2>1 DEF Init, SortInv, Sorts
<1>2. TypeInv /\ SortInv => SortSound
  <2> SUFFICES ASSUME TypeInv, SortInv PROVE SortSound
    OBVIOUS
  <2>t. /\ slice \in [Object -> [Index -> Int]]
        /\ \A p \in Proc : local[p] \in Local /\ LocalOK(pc[p], local[p])
    <3>1. Version \subseteq Int
      BY VersionAssumption DEF Version
    <3>2. \A f \in [Index -> Version] : f \in [Index -> Int]
      BY <3>1
    <3> QED BY <3>1, <3>2 DEF TypeInv, TypeOK, LocalInv
  <2>1. ASSUME NEW o \in Object \ contended
        PROVE  Elements(slice[o]) \cup InFlight(o) = DeclaredSet(o)
    <3>1. CASE \A p \in Proc : pc[p] = "write" => local[p].object # o
      <4>1. InFlight(o) = {}
        BY <3>1 DEF InFlight
      <4> QED BY <3>1, <4>1 DEF SortInv
    <3>2. ASSUME NEW p \in Proc, pc[p] = "write", local[p].object = o
          PROVE  Elements(slice[o]) \cup InFlight(o) = DeclaredSet(o)
      <4>1. \A q \in Proc : pc[q] = "write" /\ local[q].object = o => q = p
        BY <3>2 DEF SortInv, Sorts
      <4>2. InFlight(o) = {local[p].version}
        BY <3>2, <4>1 DEF InFlight
      <4>3. /\ slice[o][local[p].j] = slice[o][local[p].j - 1]
            /\ Elements([slice[o] EXCEPT ![local[p].j - 1] = local[p].version]) = DeclaredSet(o)
        BY <3>2 DEF SortInv, Sorting, Sorts
      <4>4. local[p].j \in 2 .. Length /\ local[p].version \in Int
        BY <3>2, <2>t, VersionAssumption DEF LocalOK, Version
      <4> QED BY <2>t, <4>2, <4>3, <4>4, HalfSwapped
    <3> QED BY <3>1, <3>2
  <2>2. SupportedKept
    BY <2>1 DEF SupportedKept, Elements
  <2>3. ASSUME NEW p \in Proc, Sorted(p), local[p].object \notin contended, NEW v \in DeclaredSet(local[p].object)
        PROVE  slice[local[p].object][1] >= v
    <3> DEFINE o == local[p].object
    <3>1. pc[p] = "sort" /\ local[p].i > Length /\ o \in Object
      BY <2>3, <2>t DEF Sorted, LocalOK
    <3>2. Sorting(p) /\ \A q \in Proc : pc[q] = "write" => local[q].object # o
      BY <2>3, <3>1 DEF SortInv, Sorts
    <3>3. PICK k \in Index : v = slice[o][k]
      BY <2>3, <3>1, <3>2 DEF SortInv, Elements
    <3>4. InOrder(slice[o], local[p].i, local[p].j) /\ local[p].j > Length
      BY <3>1, <3>2 DEF Sorting
    <3>5. 1 \in Index /\ k \in Nat /\ k <= Length /\ local[p].i \in Nat /\ local[p].j \in Nat
      BY <2>t, VersionAssumption DEF Index, Local
    <3>6. CASE k = 1
      BY <2>t, <3>1, <3>3, <3>5, <3>6
    <3>7. CASE k # 1
      <4>1. 1 < k /\ k <= local[p].i /\ 1 # local[p].j /\ k # local[p].j
        BY <3>1, <3>4, <3>5, <3>7, VersionAssumption DEF Index
      <4> QED BY <3>3, <3>4, <3>5, <4>1 DEF InOrder
    <3> QED BY <3>6, <3>7
  <2> QED BY <2>2, <2>3 DEF SortSound, LatestIsNewest
<1>3. Spec => []TypeInv
  BY InitTypeInv, StepTypeInv, PTL DEF Spec
<1>4. TypeInv /\ TypeInv' /\ SortInv /\ [Next]_vars => SortInv'
  BY StepSortInv
<1> QED
  BY <1>1, <1>2, <1>3, <1>4, PTL DEF Spec
-----------------------------------------------------------------------------
(***************************************************************************)
(* Components whose versions are declared newest first.  Sorting them only *)
(* compares: no swap begins, so nothing a scan reads is missing, however   *)
(* many goroutines sort and scan at once.                                  *)
(***************************************************************************)
NewestFirst(o) == \A i, j \in Index : i <= j => Declared[o][i] >= Declared[o][j]

\* The slice of the component is never written: it is in order, or nobody sorts.
Settled(o) == NewestFirst(o) \/ Sorter = {}

Undisturbed ==
  \A o \in Object : Settled(o) =>
    /\ slice[o] = Declared[o]
    /\ \A v \in Version : <<o, v>> \notin refused
    /\ \A p \in Proc : Sorted(p) /\ local[p].object = o =>
         \A v \in DeclaredSet(o) : slice[o][1] >= v

\* What makes it inductive: nobody is in a swap on such a component, and a scan
\* has compared all the declared versions it has passed.
SettledInv ==
  /\ \A o \in Object : Settled(o) => slice[o] = Declared[o]
  /\ \A p \in Proc : pc[p] \in {"sort", "move", "write"} => p \in Sorter
  /\ \A p \in Proc : pc[p] \in {"move", "write"} => ~ Settled(local[p].object)
  /\ \A p \in Proc : pc[p] = "scan" /\ Settled(local[p].object) =>
       \A k \in Index : k < local[p].i => Declared[local[p].object][k] # local[p].version
  /\ \A p \in Proc : pc[p] = "idle" => local[p].i = 1
  /\ \A r \in refused : ~ Settled(r[1])

\* A step of one goroutine that leaves the slices and the refusals alone.
LEMMA StaysSettled ==
  ASSUME SettledInv, NEW p \in Proc, slice' = slice, refused' = refused,
         \A q \in Proc \ {p} : pc'[q] = pc[q] /\ local'[q] = local[q],
         pc'[p] = "idle" => local'[p].i = 1,
         pc'[p] \in {"sort", "move", "write"} => p \in Sorter,
         pc'[p] \in {"move", "write"} => ~ Settled(local'[p].object),
         pc'[p] = "scan" /\ Settled(local'[p].object) =>
           \A k \in Index : k < local'[p].i => Declared[local'[p].object][k] # local'[p].version
  PROVE  SettledInv'
<1>1. \A o \in Object : Settled(o) => slice'[o] = Declared[o]
  BY DEF SettledInv
<1>2. \A q \in Proc : pc'[q] \in {"sort", "move", "write"} => q \in Sorter
  BY DEF SettledInv
<1>3. \A q \in Proc : pc'[q] \in {"move", "write"} => ~ Settled(local'[q].object)
  BY DEF SettledInv
<1>4. ASSUME NEW q \in Proc, pc'[q] = "scan", Settled(local'[q].object)
      PROVE  \A k \in Index : k < local'[q].i => Declared[local'[q].object][k] # local'[q].version
  BY <1>4 DEF SettledInv
<1>5. \A r \in refused' : ~ Settled(r[1])
  BY DEF SettledInv
<1>6. \A q \in Proc : pc'[q] = "idle" => local'[q].i = 1
  BY DEF SettledInv
<1> QED BY <1>1, <1>2, <1>3, <1>4, <1>5, <1>6 DEF SettledInv, Settled, NewestFirst

LEMMA StepSettledInv ==
  ASSUME TypeInv, SettledInv, [Next]_vars PROVE SettledInv'
<1>t. /\ pc \in [Proc -> Label] /\ local \in [Proc -> Local]
      /\ slice \in [Object -> [Index -> Version]]
      /\ \A p \in Proc : LocalOK(pc[p], local[p])
  BY DEF TypeInv, TypeOK, LocalInv
<1>i. \A p \in Proc : local[p].i \in 1 .. Length + 1 /\ local[p].j \in 1 .. Length + 1
  BY <1>t DEF Local
<1>1. ASSUME NEW p \in Proc,
             \/ Register(p) \/ RegisterWithConstraints(p) \/ AttachConstraints(p)
             \/ Unregister(p) \/ UpdateComponentMeta(p) \/ ReturnLatest(p)
      PROVE  SettledInv'
  <2>1. /\ slice' = slice /\ refused' = refused
        /\ \A q \in Proc \ {p} : pc'[q] = pc[q] /\ local'[q] = local[q]
        /\ pc'[p] \notin {"scan", "sort", "move", "write"}
        /\ pc'[p] = "idle" => local'[p].i = 1
    BY <1>1, <1>t DEF SettledInv, NoLocal, Register, RegisterWithConstraints, AttachConstraints, Unregister,
       UpdateComponentMeta, ReturnLatest, Sorted, Goto, Return, history
  <2> QED BY <2>1, StaysSettled
<1>2. ASSUME NEW p \in Proc, Get(p) PROVE SettledInv'
  <2>1. PICK n \in Name, v \in Version :
          local' = [local EXCEPT ![p].object = components[n], ![p].version = v]
    BY <1>2 DEF Get
  <2>2. /\ slice' = slice /\ refused' = refused /\ pc[p] = "idle" /\ pc'[p] = "scan"
        /\ \A q \in Proc \ {p} : pc'[q] = pc[q] /\ local'[q] = local[q]
        /\ local'[p].i = 1
    BY <1>2, <1>t, <2>1 DEF SettledInv, Get, Goto, Local, history
  <2>3. \A k \in Index : ~ (k < 1)
    BY VersionAssumption DEF Index
  <2> QED BY <2>2, <2>3, StaysSettled
<1>3. ASSUME NEW p \in Proc, Scan(p) PROVE SettledInv'
  <2> DEFINE l == local[p]
  <2>1. /\ slice' = slice /\ refused' = refused /\ pc[p] = "scan" /\ l.i \in Index
        /\ \A q \in Proc \ {p} : pc'[q] = pc[q] /\ local'[q] = local[q]
        /\ l.object \in Object
    BY <1>3, <1>t, <1>i DEF Scan, Goto, Return, LocalOK, Index, history
  <2>2. CASE slice[l.object][l.i] = l.version
    <3>1. pc'[p] = "idle" /\ local'[p].i = 1
      BY <1>3, <1>t, <2>2 DEF Scan, Return, Goto, NoLocal
    <3> QED BY <2>1, <3>1, StaysSettled
  <2>3. CASE slice[l.object][l.i] # l.version
    <3>1. /\ pc'[p] = "scan" /\ local'[p].i = l.i + 1
          /\ local'[p].object = l.object /\ local'[p].version = l.version
      BY <1>3, <1>t, <2>1, <2>3 DEF Scan, Local
    <3>2. ASSUME Settled(l.object), NEW k \in Index, k < l.i + 1
          PROVE  Declared[l.object][k] # l.version
      <4>1. CASE k = l.i
        BY <2>1, <2>3, <3>2, <4>1 DEF SettledInv
      <4>2. CASE k < l.i
        BY <2>1, <3>2, <4>2 DEF SettledInv
      <4> QED BY <1>i, <3>2, <4>1, <4>2 DEF Index
    <3> QED BY <2>1, <3>1, <3>2, StaysSettled
  <2> QED BY <2>2, <2>3
<1>4. ASSUME NEW p \in Proc, Refuse(p) PROVE SettledInv'
  <2> DEFINE l == local[p]
  <2>1. /\ slice' = slice /\ pc[p] = "scan" /\ pc'[p] = "idle"
        /\ \A q \in Proc \ {p} : pc'[q] = pc[q] /\ local'[q] = local[q]
        /\ l.object \in Object /\ l.i > Length /\ local'[p].i = 1
    BY <1>4, <1>t DEF Refuse, Goto, Return, LocalOK, NoLocal
  <2>2. ASSUME NEW r \in refused', Settled(r[1])
        PROVE  FALSE
    <3>1. CASE r \in refused
      BY <2>2, <3>1 DEF SettledInv
    <3>2. CASE r \notin refused
      <4>1. r = <<l.object, l.version>> /\ l.version \in DeclaredSet(l.object)
        BY <1>4, <2>2, <3>2 DEF Refuse
      <4>2. PICK k \in Index : l.version = Declared[l.object][k]
        BY <4>1 DEF DeclaredSet
      <4>3. k < l.i
        BY <1>i, <2>1, VersionAssumption DEF Index
      <4> QED BY <2>1, <2>2, <4>1, <4>2, <4>3 DEF SettledInv
    <3> QED BY <3>1, <3>2
  <2> QED BY <2>1, <2>2 DEF SettledInv, Settled, NewestFirst
<1>5. ASSUME NEW p \in Proc, GetLatestVersion(p) PROVE SettledInv'
  <2>1. /\ slice' = slice /\ refused' = refused /\ pc'[p] = "sort" /\ p \in Sorter
        /\ \A q \in Proc \ {p} : pc'[q] = pc[q] /\ local'[q] = local[q]
    BY <1>5, <1>t DEF GetLatestVersion, Goto
  <2> QED BY <2>1, StaysSettled
<1>6. ASSUME NEW p \in Proc, Sort(p) PROVE SettledInv'
  <2> DEFINE l == local[p]
  <2>1. /\ slice' = slice /\ refused' = refused /\ pc[p] = "sort" /\ l.i \in Index
        /\ \A q \in Proc \ {p} : pc'[q] = pc[q] /\ local'[q] = local[q]
        /\ l.object \in Object /\ l.j <= l.i /\ p \in Sorter /\ pc'[p] \in {"sort", "move"}
    BY <1>6, <1>t, <1>i DEF Sort, Goto, LocalOK, Index, SettledInv, history
  <2>2. ASSUME pc'[p] = "move" PROVE ~ Settled(local'[p].object)
    <3>1. l.j > 1 /\ Newer(l) /\ local'[p].object = l.object
      BY <1>6, <1>t, <2>1, <2>2 DEF Sort, Goto, Local
    <3>2. l.j \in Index /\ l.j - 1 \in Index /\ l.j - 1 <= l.j
      BY <1>i, <2>1, <3>1, VersionAssumption DEF Index
    <3>3. Declared[l.object][l.j] \in Int /\ Declared[l.object][l.j - 1] \in Int
      BY <2>1, <3>2, VersionAssumption
    <3>4. ASSUME Settled(l.object) PROVE FALSE
      <4>1. Declared[l.object][l.j] > Declared[l.object][l.j - 1]
        BY <2>1, <3>1, <3>4 DEF SettledInv, Newer
      <4>2. NewestFirst(l.object)
        BY <2>1, <3>4 DEF Settled
      <4>3. Declared[l.object][l.j - 1] >= Declared[l.object][l.j]
        BY <3>2, <4>2 DEF NewestFirst
      <4> QED BY <3>3, <4>1, <4>3
    <3> QED BY <3>1, <3>4
  <2> QED BY <2>1, <2>2, StaysSettled
<1>7. ASSUME NEW p \in Proc, Move(p) \/ Write(p) PROVE SettledInv'
  <2> DEFINE l == local[p]
  <2>1. /\ refused' = refused /\ pc[p] \in {"move", "write"}
        /\ \A q \in Proc \ {p} : pc'[q] = pc[q] /\ local'[q] = local[q]
        /\ pc'[p] \in {"write", "sort"} /\ (pc'[p] = "write" => local'[p] = l)
        /\ \A o \in Object \ {l.object} : slice'[o] = slice[o]
    BY <1>7, <1>t DEF Move, Write, Goto, history
  <2>2. ~ Settled(l.object) /\ p \in Sorter
    BY <2>1 DEF SettledInv
  <2>3. \A o \in Object : Settled(o) => slice'[o] = Declared[o]
    BY <2>1, <2>2 DEF SettledInv
  <2>4. \A q \in Proc : pc'[q] \in {"sort", "move", "write"} => q \in Sorter
    BY <2>1, <2>2 DEF SettledInv
  <2>5. \A q \in Proc : pc'[q] \in {"move", "write"} => ~ Settled(local'[q].object)
    BY <2>1, <2>2 DEF SettledInv
  <2>6. ASSUME NEW q \in Proc, pc'[q] = "scan", Settled(local'[q].object)
        PROVE  \A k \in Index : k < local'[q].i => Declared[local'[q].object][k] # local'[q].version
    BY <2>1, <2>6 DEF SettledInv
  <2> QED BY <2>1, <2>3, <2>4, <2>5, <2>6 DEF SettledInv, Settled, NewestFirst
<1>8. CASE UNCHANGED vars
  BY <1>8 DEF vars, SettledInv, Settled, NewestFirst
<1> QED BY <1>1, <1>2, <1>3, <1>4, <1>5, <1>6, <1>7, <1>8 DEF Next

\* A component that lists its versions newest first is safe from the sort in
\* place: its versions stay where they are, Get refuses none of them, and
\* GetLatestVersion answers with the newest, for any number of sorters.
THEOREM NewestFirstIsUndisturbed == Spec => []Undisturbed
<1>1. Init => SettledInv
  <2> SUFFICES ASSUME Init PROVE SettledInv
    OBVIOUS
  <2>1. slice = Declared /\ refused = {} /\ \A p \in Proc : pc[p] = "idle" /\ local[p].i = 1
    BY DEF Init, NoLocal
  <2> QED BY <2>1 DEF SettledInv
<1>2. TypeInv /\ SettledInv => Undisturbed
  <2> SUFFICES ASSUME SettledInv, NEW o \in Object, Settled(o)
               PROVE  /\ slice[o] = Declared[o]
                      /\ \A v \in Version : <<o, v>> \notin refused
                      /\ \A p \in Proc : Sorted(p) /\ local[p].object = o =>
                           \A v \in DeclaredSet(o) : slice[o][1] >= v
    BY DEF Undisturbed
  <2>1. slice[o] = Declared[o]
    BY DEF SettledInv
  <2>2. ASSUME NEW v \in Version, <<o, v>> \in refused PROVE FALSE
    BY <2>2 DEF SettledInv
  <2>3. ASSUME NEW p \in Proc, Sorted(p), NEW v \in DeclaredSet(o) PROVE slice[o][1] >= v
    <3>1. NewestFirst(o)
      BY <2>3 DEF Sorted, SettledInv, Settled
    <3>2. PICK k \in Index : v = Declared[o][k]
      BY DEF DeclaredSet
    <3>3. 1 \in Index /\ 1 <= k
      BY VersionAssumption DEF Index
    <3> QED BY <2>1, <3>1, <3>2, <3>3 DEF NewestFirst
  <2> QED BY <2>1, <2>2, <2>3
<1>3. TypeInv /\ SettledInv /\ [Next]_vars => SettledInv'
  BY StepSettledInv
<1> QED BY <1>1, <1>2, <1>3, InitTypeInv, StepTypeInv, PTL DEF Spec

\* So Get says true, that it validates version support, where every component
\* lists its versions newest first, or where nobody asks for the latest version.
THEOREM SettledIsNeverRefused ==
  ASSUME \A o \in Object : Settled(o) PROVE Spec => []NoFalseRefusal
<1>1. TypeOK /\ Undisturbed => NoFalseRefusal
  BY DEF TypeOK, Undisturbed, NoFalseRefusal
<1> QED BY <1>1, NewestFirstIsUndisturbed, TypeCorrect, PTL

-----------------------------------------------------------------------------
(***************************************************************************)
(* What races of the sort cannot do, in any order and for any number of    *)
(* sorters: bring a version into a slice that its component has not.       *)
(***************************************************************************)

\* What is in a slice, or between the two writes of a swap, was declared.
DeclaredInv ==
  /\ \A o \in Object : \A k \in Index : slice[o][k] \in DeclaredSet(o)
  /\ \A p \in Proc :
       pc[p] \in {"move", "write"} => local[p].version \in DeclaredSet(local[p].object)

\* Get answers with a component only when it has the version asked for, and
\* GetLatestVersion with a version the component has.
AnswersAreSupported ==
  [][\A p \in Proc :
       /\ Scan(p) /\ pc'[p] = "idle" => local[p].version \in DeclaredSet(local[p].object)
       /\ ReturnLatest(p) =>
            slice[local[p].object][1] \in DeclaredSet(local[p].object)]_vars

LEMMA StepDeclaredInv == TypeInv /\ DeclaredInv /\ [Next]_vars => DeclaredInv'
<1> SUFFICES ASSUME TypeInv, DeclaredInv, [Next]_vars PROVE DeclaredInv'
  OBVIOUS
<1>1. CASE UNCHANGED vars
  BY <1>1 DEF vars, DeclaredInv
<1>2. ASSUME NEW p \in Proc,
             \/ Register(p) \/ RegisterWithConstraints(p) \/ AttachConstraints(p)
             \/ Unregister(p) \/ UpdateComponentMeta(p)
             \/ Get(p) \/ Scan(p) \/ Refuse(p) \/ GetLatestVersion(p) \/ ReturnLatest(p)
      PROVE  DeclaredInv'
  <2>1. slice' = slice
    BY <1>2 DEF Register, RegisterWithConstraints, AttachConstraints, Unregister,
                UpdateComponentMeta, Get, Scan, Refuse, GetLatestVersion, ReturnLatest
  <2>2. ASSUME NEW q \in Proc, pc'[q] \in {"move", "write"}
        PROVE  pc'[q] = pc[q] /\ local'[q] = local[q]
    BY <1>2, <2>2 DEF Register, RegisterWithConstraints, AttachConstraints, Unregister,
                UpdateComponentMeta, Get, Scan, Refuse, GetLatestVersion, ReturnLatest,
                Goto, Return, TypeInv, TypeOK
  <2> QED BY <2>1, <2>2 DEF DeclaredInv
<1>3. ASSUME NEW p \in Proc, Sort(p) PROVE DeclaredInv'
  <2> DEFINE l == local[p]
  <2>1. l \in Local /\ l.object \in Object /\ l.j <= l.i /\ pc[p] = "sort" /\ l.i <= Length
    BY <1>3 DEF Sort, TypeInv, LocalInv, LocalOK, TypeOK
  <2>2. slice' = slice /\ \A q \in Proc \ {p} : pc'[q] = pc[q] /\ local'[q] = local[q]
    BY <1>3 DEF Sort, Goto, TypeInv, TypeOK
  <2>4. l.j \in Index
    BY <2>1, VersionAssumption DEF Local, Index
  <2>3. pc'[p] \in {"move", "write"} =>
          local'[p].version = slice[l.object][l.j] /\ local'[p].object = l.object
    BY <1>3, <2>1 DEF Sort, Goto, TypeInv, TypeOK, Local
  <2> QED BY <2>1, <2>2, <2>3, <2>4 DEF DeclaredInv
<1>4. ASSUME NEW p \in Proc, Move(p) \/ Write(p) PROVE DeclaredInv'
  <2> DEFINE l == local[p]
  <2>1. l.object \in Object /\ l.j \in Index /\ l.j - 1 \in Index /\ pc[p] \in {"move", "write"}
    BY <1>4, VersionAssumption DEF Move, Write, TypeInv, LocalInv, LocalOK, Index, TypeOK, Local
  <2>2. \A o \in Object, k \in Index :
          \/ slice'[o][k] = slice[o][k]
          \/ o = l.object /\ slice'[o][k] \in {slice[o][l.j - 1], l.version}
    BY <1>4, <2>1 DEF Move, Write, TypeInv, TypeOK
  <2>3. /\ \A q \in Proc \ {p} : pc'[q] = pc[q] /\ local'[q] = local[q]
        /\ pc'[p] \in {"move", "write"} => local'[p] = l
    BY <1>4 DEF Move, Write, Goto, TypeInv, TypeOK
  <2> QED BY <2>1, <2>2, <2>3 DEF DeclaredInv
<1> QED BY <1>1, <1>2, <1>3, <1>4 DEF Next

\* However many goroutines sort a slice at a time, the answers of Get and
\* GetLatestVersion are versions the component supports: what the races lose they
\* never replace by something else.
THEOREM AnswersAreAlwaysSupported == Spec => AnswersAreSupported
<1>1. Init => DeclaredInv
  BY DEF Init, DeclaredInv, DeclaredSet
<1>2. TypeInv /\ DeclaredInv => \A p \in Proc :
        /\ Scan(p) /\ pc'[p] = "idle" => local[p].version \in DeclaredSet(local[p].object)
        /\ ReturnLatest(p) => slice[local[p].object][1] \in DeclaredSet(local[p].object)
  <2> SUFFICES ASSUME TypeInv, DeclaredInv, NEW p \in Proc
               PROVE  /\ Scan(p) /\ pc'[p] = "idle" =>
                           local[p].version \in DeclaredSet(local[p].object)
                      /\ ReturnLatest(p) =>
                           slice[local[p].object][1] \in DeclaredSet(local[p].object)
    OBVIOUS
  <2>1. ASSUME Scan(p), pc'[p] = "idle" PROVE local[p].version \in DeclaredSet(local[p].object)
    <3>1. local[p].object \in Object /\ local[p].i \in Index
      BY <2>1 DEF Scan, TypeInv, TypeOK, LocalInv, LocalOK, Local, Index
    <3>2. slice[local[p].object][local[p].i] = local[p].version
      BY <2>1 DEF Scan
    <3> QED BY <3>1, <3>2 DEF DeclaredInv
  <2>2. ASSUME ReturnLatest(p) PROVE slice[local[p].object][1] \in DeclaredSet(local[p].object)
    BY <2>2, VersionAssumption DEF ReturnLatest, Sorted, DeclaredInv, TypeInv, LocalInv, LocalOK, Index
  <2> QED BY <2>1, <2>2
<1> QED
  BY <1>1, <1>2, InitTypeInv, StepTypeInv, StepDeclaredInv, PTL DEF Spec, AnswersAreSupported
=============================================================================
