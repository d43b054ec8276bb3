------------------------------- MODULE Migrator -------------------------------
(***************************************************************************)
(* The Migrator of pkg/version: the migrations between the versions of one *)
(* component, and what they make of their input.                           *)
(*                                                                         *)
(* An input has a kind: nil, a scalar, a map[string]interface{}, a struct  *)
(* (by the map structToMap makes of it) or a map of another type.  A       *)
(* migration's key is one string, the texts its versions print joined by a *)
(* dash, and labels contain dashes too: a key is the sequence of what      *)
(* stands between its dashes.  The migrations of a component are a         *)
(* function from keys.                                                     *)
(***************************************************************************)
EXTENDS SemVer, Sequences

CONSTANTS
  Pieces(_),  \* what stands between the dashes of a label
  Field,      \* names of fields
  Value,      \* values of fields
  Nil,        \* no value
  Printed(_)  \* what fmt.Sprintf("%v") makes of a value

ASSUME PiecesAssumption ==
  /\ Pieces(NoLabel) = <<>>
  /\ \A label \in Label : Pieces(label) \in Seq(Text)
  /\ \A label, other \in Label : Pieces(label) = Pieces(other) => label = other

FieldMapping ==
  [fromField : Field, toField : Field, transform : {"", "string", "int"},
   defaultValue : Value \cup {Nil}, required : BOOLEAN]
VersionMigration ==
  [fromVersion : Version, toVersion : Version, fieldMappings : Seq(FieldMapping),
   strategy : {"none", "automatic", "custom", "fallback"}, customFunc : BOOLEAN, reversible : BOOLEAN]

Input(kind, fields) == [kind |-> kind, fields |-> fields]
Failure == Input("error", <<>>)

-----------------------------------------------------------------------------
Spelled(text) ==
  IF IsNumber(text) THEN <<[text EXCEPT !.label = NoLabel]>> \o Pieces(text.label)
                    ELSE Pieces(text.label)

\* Different versions may have the same key: from v1.0.0 to v2.0.0-v3.0.0 and
\* from v1.0.0-v2.0.0 to v3.0.0.
MigrationKey(from, to) == Spelled(String(from)) \o Spelled(String(to))
KeyOf(migration) == MigrationKey(migration.fromVersion, migration.toVersion)
ReverseKeyOf(migration) == MigrationKey(migration.toVersion, migration.fromVersion)

\* Transformations and default values have no reverse.
ReverseFieldMapping(mapping) ==
  [fromField |-> mapping.toField, toField |-> mapping.fromField, transform |-> "",
   defaultValue |-> Nil, required |-> mapping.required]

\* Nor has a custom function.
Reverse(migration) ==
  [fromVersion |-> migration.toVersion, toVersion |-> migration.fromVersion,
   fieldMappings |-> [i \in DOMAIN migration.fieldMappings |->
                        ReverseFieldMapping(migration.fieldMappings[i])],
   strategy |-> migration.strategy, customFunc |-> FALSE, reversible |-> FALSE]

Put(migrations, key, migration) ==
  [k \in DOMAIN migrations \cup {key} |-> IF k = key THEN migration ELSE migrations[k]]

\* Mutant: the reverse of a migration is stored whether or not it is reversible.
AddBoth(migrations, migration) ==
  Put(Put(migrations, KeyOf(migration), migration), ReverseKeyOf(migration), Reverse(migration))

\* A migration replaces one with the same key, and so does its reverse.
AddMigration(migrations, migration) ==
  LET added == Put(migrations, KeyOf(migration), migration) IN
  IF migration.reversible
    THEN Put(added, ReverseKeyOf(migration), Reverse(migration))
    ELSE added

CanMigrate(migrations, from, to) ==
  IsSameVersion(from, to) \/ MigrationKey(from, to) \in DOMAIN migrations

\* Only what is stored under the key of these versions is a path, and between
\* versions with the same numbers nothing is.
GetMigrationPath(migrations, from, to) ==
  IF IsSameVersion(from, to) \/ MigrationKey(from, to) \notin DOMAIN migrations
    THEN <<>>
    ELSE <<migrations[MigrationKey(from, to)]>>

-----------------------------------------------------------------------------
\* The other transformations return the value as it is.
TransformValue(value, transform) == IF transform = "string" THEN Printed(value) ELSE value

FromFields(mappings) == {mappings[i].fromField : i \in DOMAIN mappings}
Unmapped(mappings, fields) == DOMAIN fields \ FromFields(mappings)

\* Mappings that write their target: of those with the same target the last one
\* is seen, and an unmapped field of that name hides them all.
Applied(mappings, fields) ==
  {i \in DOMAIN mappings : mappings[i].fromField \in DOMAIN fields \/ mappings[i].defaultValue # Nil}
LastTo(mappings, fields, field) ==
  CHOOSE i \in Applied(mappings, fields) :
    /\ mappings[i].toField = field
    /\ \A j \in Applied(mappings, fields) : mappings[j].toField = field => j <= i
Written(mapping, fields) ==
  IF mapping.fromField \in DOMAIN fields
    THEN TransformValue(fields[mapping.fromField], mapping.transform)
    ELSE mapping.defaultValue

Missing(mappings, fields) ==
  \E i \in DOMAIN mappings \ Applied(mappings, fields) : mappings[i].required

\* Mutant: fields without a mapping are dropped.
MigrateMapped(mappings, fields) ==
  [field \in {mappings[i].toField : i \in Applied(mappings, fields)} |->
     Written(mappings[LastTo(mappings, fields, field)], fields)]

MigrateMapData(mappings, fields) ==
  LET unmapped == Unmapped(mappings, fields)
      targets == {mappings[i].toField : i \in Applied(mappings, fields)}
  IN
  [field \in targets \cup unmapped |->
     IF field \in unmapped
       THEN fields[field]
       ELSE Written(mappings[LastTo(mappings, fields, field)], fields)]

\* A struct comes back as a map.
PerformAutomaticMigration(migration, input) ==
  IF input.kind \in {"nil", "scalar"} THEN input
  ELSE IF input.kind = "other map" \/ Missing(migration.fieldMappings, input.fields) THEN Failure
  ELSE Input("map", MigrateMapData(migration.fieldMappings, input.fields))

\* The answer of a custom function is not modelled.
Migrate(migrations, from, to, input) ==
  LET migration == migrations[MigrationKey(from, to)] IN
  IF IsSameVersion(from, to) THEN input
  ELSE IF ~ CanMigrate(migrations, from, to) \/ migration.strategy = "none" THEN Failure
  ELSE IF migration.strategy # "custom" THEN PerformAutomaticMigration(migration, input)
  ELSE IF migration.customFunc THEN Input("custom", <<>>)
  ELSE Failure
=============================================================================
