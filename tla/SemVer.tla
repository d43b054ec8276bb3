------------------------------- MODULE SemVer -------------------------------
(***************************************************************************)
(* The version algebra of pkg/version: versions and the texts they are     *)
(* read from and printed to, their order, compatibility and ranges, the    *)
(* choice of a version from a slice, and the constraints between           *)
(* components.                                                             *)
(*                                                                         *)
(* A text is what ParseVersion can tell of a string: nothing ("none"), no  *)
(* number to read, with or without a leading v ("vword", "word"), the      *)
(* spelling String() prints ("full"), or another spelling of a version     *)
(* with or without a leading v ("short", "bare").  A slice of versions     *)
(* without duplicates is the set of its elements; where the code's choice  *)
(* among equal versions depends on the order in the slice or on an         *)
(* unstable sort, an operator gives the set of the versions it may choose. *)
(***************************************************************************)
EXTENDS Integers

CONSTANTS
  Label,     \* pre-release labels, and the words that are no version
  NoLabel,   \* the empty label
  BetaLabel  \* those that contain "beta"

ASSUME LabelAssumption == NoLabel \in Label /\ BetaLabel \subseteq Label

Form == {"none", "word", "vword", "full", "short", "bare"}
Text == [form : Form, major : Nat, minor : Nat, patch : Nat, label : Label]
Spell(form, major, minor, patch, label) ==
  [form |-> form, major |-> major, minor |-> minor, patch |-> patch, label |-> label]
NoText == Spell("none", 0, 0, 0, NoLabel)
StartsWithV(text) == text.form \in {"full", "short", "vword"}
IsNumber(text) == text.form \in {"full", "short", "bare"}

Version == [text : Text, major : Nat, minor : Nat, patch : Nat, label : Label]
Numbered(text, major, minor, patch, label) ==
  [text |-> text, major |-> major, minor |-> minor, patch |-> patch, label |-> label]
Zero == Numbered(NoText, 0, 0, 0, NoLabel)
IsZero(v) == v.text = NoText /\ v.major = 0 /\ v.minor = 0 /\ v.patch = 0

-----------------------------------------------------------------------------
\* "latest", "current" and every text without a number at its start are kept as
\* a version 0.0.0 of that name; nothing is ever refused.
ParseVersion(text) ==
  IF IsNumber(text)
    THEN Numbered(text, text.major, text.minor, text.patch, text.label)
    ELSE Numbered(text, 0, 0, 0, NoLabel)

MustParsePanics(text) == IsZero(ParseVersion(text)) /\ text # NoText
ValidateVersionString(text) == ~ (IsZero(ParseVersion(text)) /\ text # NoText)

NewVersionWithLabel(major, minor, patch, label) ==
  Numbered(Spell("full", major, minor, patch, label), major, minor, patch, label)
NewVersion(major, minor, patch) == NewVersionWithLabel(major, minor, patch, NoLabel)
DefaultVersion == NewVersion(1, 0, 0)

\* A version answers with the text it was read from.
String(v) == IF v.text # NoText THEN v.text ELSE Spell("full", v.major, v.minor, v.patch, v.label)

VersionStringSlice(versions) == {String(v) : v \in versions}
ParseVersionSlice(texts) == {ParseVersion(t) : t \in texts} \ {Zero}

-----------------------------------------------------------------------------
\* The label takes no part.
Compare(v, w) ==
  LET Order(a, b) == IF a < b THEN -1 ELSE 1 IN
  IF v.major # w.major THEN Order(v.major, w.major)
  ELSE IF v.minor # w.minor THEN Order(v.minor, w.minor)
  ELSE IF v.patch # w.patch THEN Order(v.patch, w.patch)
  ELSE 0

IsNewerVersion(v, w) == Compare(v, w) > 0
IsOlderVersion(v, w) == Compare(v, w) < 0
IsSameVersion(v, w) == Compare(v, w) = 0

\* What it prints is read as a version with its numbers: so is every version that
\* was parsed or made by NewVersion.
IsReadable(v) == IsSameVersion(ParseVersion(String(v)), v)

IsCompatible(v, w) == v.major = w.major /\ Compare(v, w) >= 0
IsMajorBreaking(v, w) == v.major > w.major
IsMinorUpgrade(v, w) == v.major = w.major /\ v.minor > w.minor
IsPatchUpgrade(v, w) == v.major = w.major /\ v.minor = w.minor /\ v.patch > w.patch

VersionRange == [min : Version, max : Version, exact : SUBSET Version]
NewVersionRange(min, max) == [min |-> min, max |-> max, exact |-> {}]
NewExactVersions(versions) == [min |-> Zero, max |-> Zero, exact |-> versions]

\* A list of exact versions hides the limits; a limit that is zero is none.
Contains(range, v) ==
  IF range.exact # {}
    THEN \E w \in range.exact : w.major = v.major /\ w.minor = v.minor /\ w.patch = v.patch
    ELSE /\ IsZero(range.min) \/ Compare(v, range.min) >= 0
         /\ IsZero(range.max) \/ Compare(v, range.max) <= 0

Versions(range) ==
  IF range.exact # {} THEN range.exact
  ELSE IF IsZero(range.min) \/ IsZero(range.max) THEN {}
  ELSE {range.min, range.max}

-----------------------------------------------------------------------------
FilterVersionsByMajor(versions, major) == {v \in versions : v.major = major}
FilterVersionsByRange(versions, range) == {v \in versions : Contains(range, v)}

GetLatestVersion(versions) ==
  IF versions = {} THEN {Zero} ELSE {v \in versions : \A w \in versions : Compare(v, w) >= 0}
GetOldestVersion(versions) ==
  IF versions = {} THEN {Zero} ELSE {v \in versions : \A w \in versions : Compare(v, w) <= 0}

GetCompatibleVersions(supported, target) == {v \in supported : IsCompatible(v, target)}

\* Mutant: without a compatible version there is none.
FindCompatibleVersion(target, available) ==
  LET same == {v \in available : IsSameVersion(v, target)} IN
  IF same # {} THEN same ELSE GetLatestVersion(GetCompatibleVersions(available, target))

\* The version itself, else the newest that is compatible with it, else the
\* newest of all.
FindClosestVersion(target, available) ==
  LET same == {v \in available : IsSameVersion(v, target)}
      compatible == GetCompatibleVersions(available, target)
  IN
  IF available = {} THEN {Zero}
  ELSE IF same # {} THEN same
  ELSE IF compatible # {} THEN GetLatestVersion(compatible)
  ELSE GetLatestVersion(available)

GetMajorVersions(versions) == {v.major : v \in versions}
GroupVersionsByMajor(versions) ==
  [major \in GetMajorVersions(versions) |-> FilterVersionsByMajor(versions, major)]

IsBeta(v) == {v.label, v.text.label} \cap BetaLabel # {}
GetVersionSummary(versions) ==
  LET Shown(choice) == IF versions = {} THEN {NoText} ELSE VersionStringSlice(choice) IN
  [latest |-> Shown(GetLatestVersion(versions)),
   oldest |-> Shown(GetOldestVersion(versions)),
   versionsByMajor |-> [major \in GetMajorVersions(versions) |->
                          VersionStringSlice(GroupVersionsByMajor(versions)[major])],
   beta |-> VersionStringSlice({v \in versions : IsBeta(v)})]

-----------------------------------------------------------------------------
\* CheckCompatibility of a choice of versions, one for each component in the
\* domain of chosen: constraints gives the constraints of some components, each
\* on a component that the choice may or may not name.
VersionConstraint(Component) ==
  [component : Component, requires : VersionRange, conflicts : SUBSET Version]

Satisfied(constraint, chosen) ==
  LET required == constraint.component IN
  required \in DOMAIN chosen =>
    /\ Contains(constraint.requires, chosen[required])
    /\ \A v \in constraint.conflicts : ~ IsSameVersion(chosen[required], v)

CheckCompatibility(constraints, chosen) ==
  \A component \in DOMAIN chosen \cap DOMAIN constraints :
    \A constraint \in constraints[component] : Satisfied(constraint, chosen)
=============================================================================
