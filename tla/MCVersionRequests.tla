-------------------------- MODULE MCVersionRequests --------------------------
(***************************************************************************)
(* An instance of VersionRequests for TLC: two components, one with a name *)
(* that looks like a version, requests that name a version in each of the  *)
(* sources or not at all, detectors that agree and detectors that do not,  *)
(* and migrations there and back of every kind, one between versions with  *)
(* the same numbers and two with the same key.                             *)
(***************************************************************************)
EXTENDS VersionRequests

CONSTANTS one, oneText \* a number, and the string that is printed for it

MCPieces(label) ==
  CASE label = ""       -> <<>>
    [] label = "v2.0.0" -> <<Spell("full", 2, 0, 0, "")>>
    [] label = "v3.0.0" -> <<Spell("full", 3, 0, 0, "")>>
    [] OTHER            -> <<Spell("word", 0, 0, 0, label)>>
MCPrinted(value) == IF value = one THEN oneText ELSE value

Users == Spell("word", 0, 0, 0, "users")
Vault == Spell("vword", 0, 0, 0, "vault")
Latest == Spell("word", 0, 0, 0, "latest")
V1 == Spell("short", 1, 0, 0, "")

MCSupported ==
  [c \in {Users, Vault} |->
     IF c = Users THEN {NewVersion(1, 0, 0), NewVersion(1, 2, 0), NewVersionWithLabel(2, 0, 0, "beta")}
                  ELSE {ParseVersion(V1)}]

Other == [NewDetector EXCEPT !.contextKey = "other"]
PathFirst == [NewDetector EXCEPT !.defaultVersion = Zero,
                                 !.enabledMethods = <<"URL Path", "Default", "API-Version Header">>]
MCDetectors ==
  {[middleware |-> m, manager |-> n] : m \in {NewDetector, PathFirst}, n \in {NewDetector, Other}}

To(path) == [NoRequest EXCEPT !.path = path]
MCRequests ==
  {[To(<<Users>>) EXCEPT !.accept = V1, !.apiVersion = Latest],
   [To(<<>>) EXCEPT !.apiVersion = Spell("bare", 1, 1, 0, ""), !.component = Users],
   To(<<Spell("short", 2, 0, 0, ""), Users>>),
   To(<<Vault, Users>>),
   [To(<<>>) EXCEPT !.componentQuery = Vault, !.context["api_version"] = NewVersion(2, 0, 0)],
   [To(<<Latest>>) EXCEPT !.query = Latest]}

Mapping(from, to, transform, default, required) ==
  [fromField |-> from, toField |-> to, transform |-> transform, defaultValue |-> default,
   required |-> required]
Migration(from, to, strategy, mappings, reversible) ==
  [component |-> Users,
   migration |-> [fromVersion |-> from, toVersion |-> to, fieldMappings |-> mappings,
                  strategy |-> strategy, customFunc |-> strategy = "custom", reversible |-> reversible]]
MCMigrations ==
  LET old == NewVersion(1, 0, 0)
      new == NewVersion(2, 0, 0)
  IN
  {Migration(old, new, "automatic", <<Mapping("a", "b", "string", Nil, TRUE), Mapping("b", "a", "", Nil, FALSE)>>, TRUE),
   Migration(old, new, "fallback", <<Mapping("a", "c", "int", one, FALSE)>>, FALSE),
   Migration(new, old, "fallback", <<Mapping("a", "b", "", Nil, FALSE)>>, TRUE),
   Migration(new, old, "custom", <<>>, TRUE),
   Migration(ParseVersion(V1), new, "none", <<>>, TRUE),
   Migration(NewVersionWithLabel(1, 0, 0, "beta"), old, "automatic", <<>>, TRUE),
   Migration(old, NewVersionWithLabel(2, 0, 0, "v3.0.0"), "automatic", <<Mapping("a", "b", "", Nil, FALSE)>>, TRUE),
   Migration(NewVersionWithLabel(1, 0, 0, "v2.0.0"), NewVersion(3, 0, 0), "fallback", <<>>, FALSE)}
MCFields == UNION {[fields -> {one, oneText}] : fields \in SUBSET {"a", "b", "c"}}
=============================================================================
