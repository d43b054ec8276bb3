------------------------ MODULE VersionRequests_proofs ------------------------
(***************************************************************************)
(* Theorems about pkg/version: the laws of the version algebra, and the    *)
(* invariants of VersionRequests for any goroutines, components, detectors,*)
(* requests and migrations.                                                *)
(***************************************************************************)
EXTENDS VersionRequests, TLAPS, FiniteSetTheorems, WellFoundedInduction

-----------------------------------------------------------------------------
\* The version algebra.

LEMMA ZeroIsVersion == Zero \in Version /\ NoText \in Text
BY LabelAssumption DEF Zero, Version, Numbered, NoText, Spell, Text, Form

LEMMA ParsedIsVersion ==
  ASSUME NEW text \in Text
  PROVE  ParseVersion(text) \in Version
BY LabelAssumption DEF ParseVersion, Version, Numbered, IsNumber, Text

LEMMA PrintedIsText ==
  ASSUME NEW v \in Version
  PROVE  String(v) \in Text /\ String(v) # NoText
BY DEF String, Version, Text, Spell, Form, NoText

\* Compare is a total order of the numbers: its sign turns with its arguments,
\* it is transitive, and it is zero for the same numbers and no others.
THEOREM CompareIsOrder ==
  ASSUME NEW u \in Version, NEW v \in Version, NEW w \in Version
  PROVE  /\ Compare(v, u) = - Compare(u, v)
         /\ Compare(u, v) >= 0 /\ Compare(v, w) >= 0 => Compare(u, w) >= 0
         /\ Compare(u, v) = 0 <=> u.major = v.major /\ u.minor = v.minor /\ u.patch = v.patch
BY DEF Compare, Version

\* A version is newer than another exactly when it is a major, a minor or a patch
\* upgrade of it, and it is only one of them.
THEOREM UpgradesPartition ==
  ASSUME NEW v \in Version, NEW w \in Version
  PROVE  /\ IsNewerVersion(v, w) <=>
              IsMajorBreaking(v, w) \/ IsMinorUpgrade(v, w) \/ IsPatchUpgrade(v, w)
         /\ ~ (IsMajorBreaking(v, w) /\ IsMinorUpgrade(v, w))
         /\ ~ (IsMajorBreaking(v, w) /\ IsPatchUpgrade(v, w))
         /\ ~ (IsMinorUpgrade(v, w) /\ IsPatchUpgrade(v, w))
BY DEF Compare, Version, IsNewerVersion, IsMajorBreaking, IsMinorUpgrade, IsPatchUpgrade

\* A range with limits has no holes, and a list of exact versions has no others.
THEOREM RangeHasNoHoles ==
  ASSUME NEW range \in VersionRange, NEW u \in Version, NEW v \in Version, NEW w \in Version,
         Contains(range, u), Contains(range, w), Compare(v, u) >= 0, Compare(w, v) >= 0,
         range.exact = {}
  PROVE  Contains(range, v)
BY DEF Contains, VersionRange, Compare, Version

\* The versions a range enumerates lie in it, when its limits are in order.
THEOREM VersionsAreContained ==
  ASSUME NEW range \in VersionRange, Compare(range.max, range.min) >= 0,
         NEW v \in Versions(range)
  PROVE  Contains(range, v)
BY DEF Contains, Versions, VersionRange, Compare, Version

\* ParseVersion refuses nothing: ValidateVersionString never returns an error and
\* MustParseVersion never panics, whatever the text.
THEOREM NothingIsInvalid ==
  ASSUME NEW text \in Text
  PROVE  ValidateVersionString(text) /\ ~ MustParsePanics(text)
BY DEF ValidateVersionString, MustParsePanics, ParseVersion, IsZero, Numbered

\* What a version prints is read back with the same numbers, for every version
\* that was parsed from a text, made from numbers or is zero.
THEOREM PrintedIsReadBack ==
  /\ \A text \in Text : IsReadable(ParseVersion(text))
  /\ \A major, minor, patch \in Nat, label \in Label :
       IsReadable(NewVersionWithLabel(major, minor, patch, label))
<1>1. ASSUME NEW text \in Text
      PROVE  IsReadable(ParseVersion(text))
  <2>1. CASE text = NoText
    BY <2>1 DEF IsReadable, IsSameVersion, Compare, String, ParseVersion, Numbered, NoText, Spell, IsNumber
  <2>2. CASE text # NoText
    <3>1. String(ParseVersion(text)) = text
      BY <2>2 DEF String, ParseVersion, Numbered
    <3> QED BY <3>1, ParsedIsVersion DEF IsReadable, IsSameVersion, Compare, Version
  <2> QED BY <2>1, <2>2
<1>2. ASSUME NEW major \in Nat, NEW minor \in Nat, NEW patch \in Nat, NEW label \in Label
      PROVE  IsReadable(NewVersionWithLabel(major, minor, patch, label))
  BY DEF IsReadable, IsSameVersion, Compare, String, ParseVersion, Numbered, NoText, Spell, IsNumber,
         NewVersionWithLabel
<1> QED BY <1>1, <1>2

\* FindClosestVersion answers with a version that is available; with the version
\* asked for when it is, and with a compatible one when there is one.
THEOREM ClosestIsAvailable ==
  ASSUME NEW target \in Version, NEW available \in SUBSET Version, available # {},
         NEW v \in FindClosestVersion(target, available)
  PROVE  /\ v \in available
         /\ (\E w \in available : IsSameVersion(w, target)) => IsSameVersion(v, target)
         /\ (\E w \in available : IsCompatible(w, target)) => IsCompatible(v, target)
<1>1. \A versions : versions # {} => GetLatestVersion(versions) \subseteq versions
  BY DEF GetLatestVersion
<1>2. \A w : w \in Version /\ IsSameVersion(w, target) => IsCompatible(w, target)
  BY DEF IsSameVersion, IsCompatible, Compare, Version
<1>3. CASE \E w \in available : IsSameVersion(w, target)
  BY <1>2, <1>3 DEF FindClosestVersion
<1>4. CASE /\ ~ \E w \in available : IsSameVersion(w, target)
           /\ \E w \in available : IsCompatible(w, target)
  BY <1>1, <1>4 DEF FindClosestVersion, GetCompatibleVersions
<1>5. CASE /\ ~ \E w \in available : IsSameVersion(w, target)
           /\ ~ \E w \in available : IsCompatible(w, target)
  BY <1>1, <1>5 DEF FindClosestVersion, GetCompatibleVersions
<1> QED BY <1>3, <1>4, <1>5

\* Leaving components out of a choice never makes it incompatible.
THEOREM SmallerChoicesStayCompatible ==
  ASSUME NEW constraints, NEW chosen, NEW S \in SUBSET DOMAIN chosen,
         CheckCompatibility(constraints, chosen)
  PROVE  CheckCompatibility(constraints, Restrict(chosen, S))
BY DEF CheckCompatibility, Satisfied, Restrict

\* A summary lists every version under its major number, spelled as it prints,
\* and lists no other.
THEOREM SummaryCovers ==
  ASSUME NEW versions \in SUBSET Version
  PROVE  LET groups == GetVersionSummary(versions).versionsByMajor IN
         /\ \A v \in versions : v.major \in DOMAIN groups /\ String(v) \in groups[v.major]
         /\ \A major \in DOMAIN groups : \A s \in groups[major] :
              \E v \in versions : v.major = major /\ s = String(v)
BY DEF GetVersionSummary, GetMajorVersions, GroupVersionsByMajor, FilterVersionsByMajor, VersionStringSlice
-----------------------------------------------------------------------------
\* Detection.

\* A set of natural numbers that is not empty has a least element.
LEMMA LeastElement ==
  ASSUME NEW S \in SUBSET Nat, S # {}
  PROVE  \E i \in S : \A j \in S : i <= j
<1> DEFINE R == {p \in Nat \X Nat : p[1] < p[2]}
<1>1. OpToRel(<, Nat) = R
  BY Zenon DEF OpToRel
<1>2. IsWellFoundedOn(R, Nat)
  BY <1>1, NatLessThanWellFounded, Zenon
<1>3. \A i, j \in Nat : j < i => <<j, i>> \in R
  OBVIOUS
<1> HIDE DEF R
<1>4. PICK i \in S : \A j \in S : <<j, i>> \notin R
  BY <1>2, WFMin
<1>5. \A j \in S : ~ (j < i)
  BY <1>3, <1>4
<1> QED BY <1>5

LEMMA DetectedByIsVersion ==
  ASSUME NEW d \in Detector, NEW r \in Request, NEW method \in Method
  PROVE  DetectedBy(d, method, r) \in Version
<1>1. First(r.path) \in Text
  BY ZeroIsVersion DEF First, Request
<1>2. DetectFromURLPath(r) \in Version
  BY <1>1, ZeroIsVersion, ParsedIsVersion DEF DetectFromURLPath
<1>3. r.context[d.contextKey] \in Version
  BY DEF Request, Context, Detector
<1> QED BY <1>2, <1>3, ZeroIsVersion, ParsedIsVersion DEF DetectedBy, Method, Request

\* What is detected is the default, or what the first successful method found.
LEMMA Detected ==
  ASSUME NEW d \in Detector, NEW r \in Request
  PROVE  LET methods == d.enabledMethods
             found == {i \in DOMAIN methods : ~ IsZero(DetectedBy(d, methods[i], r))}
             v == DetectFromHTTPRequest(d, r).version
         IN /\ found = {} => v = d.defaultVersion
            /\ found # {} => \E i \in found : v = DetectedBy(d, methods[i], r)
            /\ v \in Version
<1> DEFINE methods == d.enabledMethods
           found == {i \in DOMAIN methods : ~ IsZero(DetectedBy(d, methods[i], r))}
           least == CHOOSE i \in found : \A j \in found : i <= j
           v == DetectFromHTTPRequest(d, r).version
<1>1. methods \in Seq(Method) /\ d.defaultVersion \in Version
  BY DEF Detector
<1>2. found \subseteq Nat
  BY <1>1
<1>3. CASE found = {}
  <2>1. v = d.defaultVersion
    BY <1>3 DEF DetectFromHTTPRequest
  <2> QED BY <2>1, <1>1, <1>3
<1>4. CASE found # {}
  <2>1. least \in found
    <3> HIDE DEF found
    <3> QED BY <1>2, <1>4, LeastElement
  <2>2. DetectFromHTTPRequest(d, r) =
          [version |-> DetectedBy(d, methods[least], r), method |-> methods[least]]
    BY <1>4, Zenon DEF DetectFromHTTPRequest
  <2>3. methods[least] \in Method
    <3>1. least \in DOMAIN methods
      BY <2>1
    <3> HIDE DEF methods, least
    <3> QED BY <1>1, <3>1
  <2>4. v = DetectedBy(d, methods[least], r) /\ v \in Version
    BY <2>2, <2>3, DetectedByIsVersion
  <2> QED BY <1>4, <2>1, <2>4
<1> QED BY <1>3, <1>4

LEMMA ContextIsTyped ==
  ASSUME NEW d \in Detector, NEW context \in Context
  PROVE  DetectFromContext(d, context).version \in Version
BY DEF DetectFromContext, Detector, Context

LEMMA SetContextIsTyped ==
  ASSUME NEW context \in Context, NEW v \in Version
  PROVE  /\ SetVersionInContext(context, v) \in Context
         /\ SetVersionInContext(context, v)["api_version"] = v
BY RequestAssumption DEF SetVersionInContext, Context

LEMMA ComponentIsText ==
  ASSUME NEW r \in Request
  PROVE  ExtractComponentFromPath(r) \in Text
BY ZeroIsVersion DEF ExtractComponentFromPath, ExtractPipelineFromPath, Request

\* What a goroutine knows of its request when it has passed the middleware.
Received(p, r, retried) ==
  LET next == DetectorMiddleware(detectors.middleware, r) IN
  /\ local[p] \in Local
  /\ local[p].request = r /\ local[p].retried = retried
  /\ local[p].announced = next.apiVersion
  /\ local[p].component = ExtractComponentFromPath(r)
  /\ local[p].version = DetectFromContext(detectors.manager, next.context).version

LEMMA EnterReceives ==
  ASSUME detectors \in Detectors, pc \in [Caller -> PC], DOMAIN local = Caller,
         NEW p \in Caller, NEW r \in Request, NEW retried \in BOOLEAN,
         Enter(p, r, retried), detectors' = detectors
  PROVE  /\ Received(p, r, retried)'
         /\ pc' = [pc EXCEPT ![p] = "get"]
         /\ \A q \in Caller \ {p} : local'[q] = local[q]
         /\ DOMAIN local' = Caller
<1> DEFINE next == DetectorMiddleware(detectors.middleware, r)
           v == DetectFromContext(detectors.manager, next.context).version
<1>1. detectors.middleware \in Detector /\ detectors.manager \in Detector
  BY RequestAssumption
<1>2. DetectFromHTTPRequest(detectors.middleware, r).version \in Version
  BY <1>1, Detected
<1>3. next.context \in Context /\ next.apiVersion \in Text
  BY <1>2, SetContextIsTyped, PrintedIsText DEF DetectorMiddleware, Request
<1>4. v \in Version
  BY <1>1, <1>3, ContextIsTyped
<1>5. ExtractComponentFromPath(r) \in Text
  BY ComponentIsText
<1>6. local' = [local EXCEPT ![p] =
        [request |-> r, announced |-> next.apiVersion, component |-> ExtractComponentFromPath(r),
         version |-> v, retried |-> retried]]
  BY DEF Enter
<1>7. local'[p] =
        [request |-> r, announced |-> next.apiVersion, component |-> ExtractComponentFromPath(r),
         version |-> v, retried |-> retried]
  BY <1>6
<1>8. local'[p] \in Local
  <2> HIDE DEF next, v
  <2> QED BY <1>3, <1>4, <1>5, <1>7 DEF Local
<1> QED BY <1>6, <1>7, <1>8 DEF Received, Enter, Goto
-----------------------------------------------------------------------------
\* Counters.

LEMMA NoCountersIsTyped ==
  ASSUME NEW Key
  PROVE  IsCounters(<<>>, Key) /\ \A key : Tally(<<>>, key) = 0
BY DEF IsCounters, Tally

LEMMA TallyIsNat ==
  ASSUME NEW Key, NEW counters, IsCounters(counters, Key), NEW key
  PROVE  Tally(counters, key) \in Nat
BY DEF IsCounters, Tally

LEMMA IncrementCounts ==
  ASSUME NEW Key, NEW counters, IsCounters(counters, Key), NEW key \in Key
  PROVE  /\ IsCounters(Increment(counters, key), Key)
         /\ Tally(Increment(counters, key), key) = Tally(counters, key) + 1
         /\ \A k : k # key => Tally(Increment(counters, key), k) = Tally(counters, k)
BY DEF IsCounters, Increment, Tally

LEMMA RestrictIsTyped ==
  ASSUME NEW Key, NEW counters, IsCounters(counters, Key), NEW keys
  PROVE  /\ IsCounters(Restrict(counters, DOMAIN counters \ keys), Key)
         /\ \A k : Tally(Restrict(counters, DOMAIN counters \ keys), k) =
                     IF k \in keys THEN 0 ELSE Tally(counters, k)
BY DEF IsCounters, Restrict, Tally

\* The counts of a version of a component, which need not be in the metrics.
RequestCount(m, c, s) == Tally(OfComponent(m, c).requests, s)
ErrorCount(m, c, s) == Tally(OfComponent(m, c).errors, s)
Same(m, n, c, s) ==
  RequestCount(m, c, s) = RequestCount(n, c, s) /\ ErrorCount(m, c, s) = ErrorCount(n, c, s)

LEMMA EntryIsTyped ==
  ASSUME NEW m, IsMetrics(m, Text, Text), NEW c
  PROVE  /\ OfComponent(m, c) =
              [requests |-> OfComponent(m, c).requests, errors |-> OfComponent(m, c).errors]
         /\ IsCounters(OfComponent(m, c).requests, Text)
         /\ IsCounters(OfComponent(m, c).errors, Text)
BY NoCountersIsTyped DEF IsMetrics, OfComponent

LEMMA RecordRequestCounts ==
  ASSUME NEW m, IsMetrics(m, Text, Text), NEW c \in Text, NEW s \in Text
  PROVE  LET n == RecordRequest(m, c, s) IN
         /\ IsMetrics(n, Text, Text)
         /\ RequestCount(n, c, s) = RequestCount(m, c, s) + 1
         /\ ErrorCount(n, c, s) = ErrorCount(m, c, s)
         /\ \A d, t : <<d, t>> # <<c, s>> => Same(n, m, d, t)
<1> DEFINE n == RecordRequest(m, c, s)
           entry == OfComponent(m, c)
           counted_ == Increment(entry.requests, s)
<1>1. entry = [requests |-> entry.requests, errors |-> entry.errors]
      /\ IsCounters(entry.requests, Text) /\ IsCounters(entry.errors, Text)
  BY EntryIsTyped
<1>2. n = Stored(m, c, [requests |-> counted_, errors |-> entry.errors])
  BY <1>1 DEF RecordRequest
<1>3. OfComponent(n, c) = [requests |-> counted_, errors |-> entry.errors]
      /\ \A d : d # c => OfComponent(n, d) = OfComponent(m, d)
  BY <1>2 DEF Stored, OfComponent
<1>4. IsCounters(counted_, Text)
  BY <1>1, IncrementCounts
<1>5. IsMetrics(n, Text, Text)
  <2> HIDE DEF counted_, entry
  <2> QED BY <1>1, <1>2, <1>4 DEF IsMetrics, Stored
<1> QED BY <1>1, <1>3, <1>5, IncrementCounts DEF RequestCount, ErrorCount, Same

LEMMA RecordErrorCounts ==
  ASSUME NEW m, IsMetrics(m, Text, Text), NEW c \in Text, NEW s \in Text
  PROVE  LET n == RecordError(m, c, s) IN
         /\ IsMetrics(n, Text, Text)
         /\ ErrorCount(n, c, s) = ErrorCount(m, c, s) + 1
         /\ RequestCount(n, c, s) = RequestCount(m, c, s)
         /\ \A d, t : <<d, t>> # <<c, s>> => Same(n, m, d, t)
<1> DEFINE n == RecordError(m, c, s)
           entry == OfComponent(m, c)
           counted_ == Increment(entry.errors, s)
<1>1. entry = [requests |-> entry.requests, errors |-> entry.errors]
      /\ IsCounters(entry.requests, Text) /\ IsCounters(entry.errors, Text)
  BY EntryIsTyped
<1>2. n = Stored(m, c, [requests |-> entry.requests, errors |-> counted_])
  BY <1>1 DEF RecordError
<1>3. OfComponent(n, c) = [requests |-> entry.requests, errors |-> counted_]
      /\ \A d : d # c => OfComponent(n, d) = OfComponent(m, d)
  BY <1>2 DEF Stored, OfComponent
<1>4. IsCounters(counted_, Text)
  BY <1>1, IncrementCounts
<1>5. IsMetrics(n, Text, Text)
  <2> HIDE DEF counted_, entry
  <2> QED BY <1>1, <1>2, <1>4 DEF IsMetrics, Stored
<1> QED BY <1>1, <1>3, <1>5, IncrementCounts DEF RequestCount, ErrorCount, Same

LEMMA ResetCounts ==
  ASSUME NEW m, IsMetrics(m, Text, Text), NEW c
  PROVE  LET n == ResetComponent(m, c) IN
         /\ IsMetrics(n, Text, Text)
         /\ \A s : RequestCount(n, c, s) = 0 /\ ErrorCount(n, c, s) = 0
         /\ \A d, s : d # c => Same(n, m, d, s)
<1> DEFINE n == ResetComponent(m, c)
<1>1. n = [d \in DOMAIN m \ {c} |-> m[d]]
  BY DEF ResetComponent, Restrict
<1>2. IsMetrics(n, Text, Text)
  BY <1>1 DEF IsMetrics
<1>3. OfComponent(n, c) = [requests |-> <<>>, errors |-> <<>>]
      /\ \A d : d # c => OfComponent(n, d) = OfComponent(m, d)
  BY <1>1 DEF OfComponent
<1> QED BY <1>2, <1>3, NoCountersIsTyped DEF RequestCount, ErrorCount, Same
-----------------------------------------------------------------------------
\* Types, and the part of them that says what a goroutine's request led to.

\* The request of a client that follows a refusal.
RetryRequest(c, v) == AskFor(String(v), c)
Offered(c) == ParseVersionSlice(VersionStringSlice(Supported[c]))
FollowsRefusal(r) ==
  \E c \in DOMAIN Supported, target \in Version :
    \E v \in FindClosestVersion(target, Offered(c)) : r = RetryRequest(c, v)

\* The versions the client reads print and read back as they are, and each is
\* one the component supports.
LEMMA OfferedAreSupported ==
  ASSUME NEW c \in DOMAIN Supported
  PROVE  /\ Offered(c) \subseteq Version
         /\ Supported[c] # {} => Offered(c) # {}
         /\ \A v \in Offered(c) : IsSupported(c, ParseVersion(String(v))) /\ ParseVersion(String(v)) # Zero
<1>1. \A w \in Supported[c] : w \in Version /\ IsReadable(w)
  BY RegistryAssumption
<1>2. ASSUME NEW w \in Supported[c]
      PROVE  /\ ParseVersion(String(w)) \in Version /\ ParseVersion(String(w)) # Zero
             /\ String(ParseVersion(String(w))) = String(w)
             /\ IsSameVersion(w, ParseVersion(String(w)))
  <2>1. w \in Version /\ String(w) \in Text /\ String(w) # NoText
    BY <1>1, PrintedIsText
  <2>2. ParseVersion(String(w)) \in Version
    BY <2>1, ParsedIsVersion
  <2>3. ParseVersion(String(w)).text = String(w)
    BY DEF ParseVersion, Numbered
  <2>4. IsSameVersion(w, ParseVersion(String(w)))
    BY <1>1, <2>1, <2>2, CompareIsOrder DEF IsReadable, IsSameVersion
  <2>5. Zero.text = NoText
    BY DEF Zero, Numbered
  <2> QED BY <2>1, <2>2, <2>3, <2>4, <2>5 DEF String
<1>3. Offered(c) = {ParseVersion(String(w)) : w \in Supported[c]}
  BY <1>2 DEF Offered, ParseVersionSlice, VersionStringSlice
<1>4. ASSUME NEW v \in Offered(c)
      PROVE  IsSupported(c, ParseVersion(String(v))) /\ ParseVersion(String(v)) # Zero
  <2>1. PICK w \in Supported[c] : v = ParseVersion(String(w))
    BY <1>3
  <2>2. ParseVersion(String(v)) = ParseVersion(String(w))
    BY <2>1, <1>2
  <2> QED BY <2>1, <2>2, <1>2 DEF IsSupported
<1> QED BY <1>2, <1>3, <1>4

LEMMA FollowedIsRequest ==
  ASSUME NEW r, FollowsRefusal(r)
  PROVE  r \in Request
<1>1. PICK c \in DOMAIN Supported, target \in Version :
        \E v \in FindClosestVersion(target, Offered(c)) : r = RetryRequest(c, v)
  BY DEF FollowsRefusal
<1>2. PICK v \in FindClosestVersion(target, Offered(c)) : r = RetryRequest(c, v)
  BY <1>1
<1>3. v \in Version
  <2>1. CASE Offered(c) = {}
    BY <2>1, ZeroIsVersion DEF FindClosestVersion
  <2>2. CASE Offered(c) # {}
    BY <2>2, OfferedAreSupported, ClosestIsAvailable
  <2> QED BY <2>1, <2>2
<1>4. String(v) \in Text /\ c \in Text
  BY <1>3, PrintedIsText, RegistryAssumption
<1>5. NoContext \in Context
  BY ZeroIsVersion DEF NoContext, Context
<1>6. NoText \in Text
  BY ZeroIsVersion DEF Version, Zero, Numbered
<1> QED BY <1>2, <1>4, <1>5, <1>6 DEF Request, RetryRequest, AskFor

LEMMA RetrySends ==
  ASSUME TypeOK, NEW p \in Caller, Retry(p)
  PROVE  \E r \in Request : FollowsRefusal(r) /\ Enter(p, r, TRUE)
<1> DEFINE c == local[p].component
<1>1. c \in DOMAIN Supported /\ local[p].version \in Version
  BY DEF Retry, TypeOK, Local, Serving
<1>2. PICK v \in FindClosestVersion(local[p].version, Offered(c)) : Enter(p, RetryRequest(c, v), TRUE)
  BY DEF Retry, Offered, RetryRequest
<1>3. FollowsRefusal(RetryRequest(c, v))
  BY <1>1, <1>2 DEF FollowsRefusal
<1> QED BY <1>2, <1>3, FollowedIsRequest

LEMMA TypeStep == TypeOK /\ [Next]_vars => TypeOK'
<1> SUFFICES ASSUME TypeOK, [Next]_vars
             PROVE  TypeOK'
  OBVIOUS
<1> USE DEF TypeOK
<1>1. ASSUME NEW p \in Caller, Serve(p)
      PROVE  TypeOK'
  <2>1. PICK r \in Requests : Enter(p, r, FALSE)
    BY <1>1 DEF Serve
  <2>2. r \in Request
    BY RequestAssumption
  <2>3. UNCHANGED <<detectors, usage, migrators>> /\ pc[p] = "idle"
    BY <1>1 DEF Serve, Call
  <2>4. /\ Received(p, r, FALSE)' /\ pc' = [pc EXCEPT ![p] = "get"]
        /\ \A q \in Caller \ {p} : local'[q] = local[q]
        /\ DOMAIN local' = Caller
    BY <2>1, <2>2, <2>3, EnterReceives
  <2>5. calls' \in 0 .. MaxCalls
    BY <1>1, RequestAssumption DEF Serve, Call
  <2> QED BY <2>3, <2>4, <2>5 DEF Received, usage, migrators, PC, Serving, Registering
<1>2. ASSUME NEW p \in Caller, Retry(p)
      PROVE  TypeOK'
  <2>1. PICK r \in Request : Enter(p, r, TRUE)
    BY <1>2, RetrySends
  <2>2. UNCHANGED <<detectors, usage, migrators, calls>> /\ pc[p] = "refused"
    BY <1>2 DEF Retry
  <2>3. /\ Received(p, r, TRUE)' /\ pc' = [pc EXCEPT ![p] = "get"]
        /\ \A q \in Caller \ {p} : local'[q] = local[q]
        /\ DOMAIN local' = Caller
    BY <2>1, <2>2, EnterReceives
  <2> QED BY <2>2, <2>3 DEF Received, usage, migrators, PC, Serving, Registering
<1>3. ASSUME NEW p \in Caller, Get(p)
      PROVE  TypeOK'
  <2>1. local[p] \in Local
    BY <1>3 DEF Get, Serving
  <2>2. local[p].component \in Text /\ String(local[p].version) \in Text
    BY <2>1, PrintedIsText DEF Local
  <2>3. IsMetrics(metrics', Text, Text)
    BY <1>3, <2>2, RecordRequestCounts DEF Get
  <2> QED BY <1>3, <2>3 DEF Get, Goto, usage, migrators, PC, Serving, Registering
<1>4. ASSUME NEW p \in Caller, ProcessSucceeds(p)
      PROVE  TypeOK'
  <2>1. local[p] \in Local
    BY <1>4 DEF ProcessSucceeds, Serving
  <2>2. Recorded(p) \in Text \X Text
    BY <2>1, PrintedIsText DEF Local, Recorded
  <2>3. IsCounters(succeeded', Text \X Text)
    BY <1>4, <2>2, IncrementCounts DEF ProcessSucceeds
  <2> QED BY <1>4, <2>3 DEF ProcessSucceeds, Return, Goto, migrators, PC, Serving, Registering
<1>5. ASSUME NEW p \in Caller, ProcessFails(p)
      PROVE  TypeOK'
  BY <1>5 DEF ProcessFails, Goto, usage, migrators, PC, Serving, Registering
<1>6. ASSUME NEW p \in Caller, RecordFailure(p)
      PROVE  TypeOK'
  <2>1. local[p] \in Local
    BY <1>6 DEF RecordFailure, Serving
  <2>2. local[p].component \in Text /\ String(local[p].version) \in Text /\ Recorded(p) \in Text \X Text
    BY <2>1, PrintedIsText DEF Local, Recorded
  <2>3. IsMetrics(metrics', Text, Text)
    BY <1>6, <2>2, RecordErrorCounts DEF RecordFailure
  <2>4. IsCounters(excess', Text \X Text)
    BY <1>6, <2>2, IncrementCounts DEF RecordFailure
  <2>5. CASE pc[p] = "refusing"
    BY <1>6, <2>3, <2>4, <2>5 DEF RecordFailure, Goto, migrators, PC, Serving, Registering
  <2>6. CASE pc[p] = "failing"
    BY <1>6, <2>3, <2>4, <2>6 DEF RecordFailure, Return, Goto, migrators, PC, Serving, Registering
  <2> QED BY <1>6, <2>5, <2>6 DEF RecordFailure
<1>7. ASSUME NEW p \in Caller, GiveUp(p)
      PROVE  TypeOK'
  BY <1>7 DEF GiveUp, Return, Goto, usage, migrators, PC, Serving, Registering
<1>8. ASSUME NEW p \in Caller, Reset(p)
      PROVE  TypeOK'
  <2>1. IsMetrics(metrics', Text, Text) /\ IsCounters(succeeded', Text \X Text) /\ IsCounters(excess', Text \X Text)
    BY <1>8, NoCountersIsTyped DEF Reset, NoMetrics, IsMetrics
  <2>2. calls' \in 0 .. MaxCalls
    BY <1>8, RequestAssumption DEF Reset, Call
  <2> QED BY <1>8, <2>1, <2>2 DEF Reset, migrators
<1>9. ASSUME NEW p \in Caller, ResetOne(p)
      PROVE  TypeOK'
  <2>1. PICK c \in DOMAIN metrics :
          /\ metrics' = ResetComponent(metrics, c)
          /\ counted' \subseteq counted
          /\ succeeded' = Restrict(succeeded, DOMAIN succeeded \ Of(succeeded, c))
          /\ excess' = Restrict(excess, DOMAIN excess \ Of(excess, c))
    BY <1>9 DEF ResetOne
  <2>2. IsMetrics(metrics', Text, Text) /\ IsCounters(succeeded', Text \X Text) /\ IsCounters(excess', Text \X Text)
    BY <2>1, ResetCounts, RestrictIsTyped
  <2>3. calls' \in 0 .. MaxCalls /\ UNCHANGED <<detectors, migrators, pc, local>>
    BY <1>9, RequestAssumption DEF ResetOne, Call
  <2> QED BY <2>1, <2>2, <2>3 DEF migrators
<1>10. ASSUME NEW p \in Caller, LookUp(p)
       PROVE  TypeOK'
  <2>1. calls' \in 0 .. MaxCalls
    BY <1>10, RequestAssumption DEF LookUp, Call
  <2> QED BY <1>10, <2>1 DEF LookUp, Call, Goto, usage, migrators, PC, Serving, Registering
<1>11. ASSUME NEW p \in Caller, Create(p)
       PROVE  TypeOK'
  BY <1>11 DEF Create, Goto, Put, usage, PC, Serving, Registering
<1>12. ASSUME NEW p \in Caller, Add(p)
       PROVE  TypeOK'
  BY <1>12 DEF Add, Return, Goto, usage, PC, Serving, Registering
<1>13. ASSUME NEW p \in Caller, Abort(p)
       PROVE  TypeOK'
  BY <1>13 DEF Abort, usage, migrators, PC, Serving, Registering
<1>14. CASE UNCHANGED vars
  BY <1>14 DEF vars, usage, migrators
<1> QED BY <1>1, <1>2, <1>3, <1>4, <1>5, <1>6, <1>7, <1>8, <1>9, <1>10, <1>11, <1>12, <1>13, <1>14 DEF Next

\* Every variable keeps its type, and the metrics count only requests that were
\* made, whichever goroutines serve, retry, reset and register.
THEOREM TypeCorrect == Spec => []TypeOK
<1>1. Init => TypeOK
  <2> SUFFICES ASSUME Init
               PROVE  TypeOK
    OBVIOUS
  <2>1. IsMetrics(metrics, Text, Text)
    BY DEF Init, NoMetrics, IsMetrics
  <2> QED BY <2>1, NoCountersIsTyped, RequestAssumption DEF Init, TypeOK, PC, Serving, Registering
<1> QED BY <1>1, TypeStep, PTL DEF Spec
-----------------------------------------------------------------------------
\* What is known of a request that is being served.
Served(p) ==
  /\ pc[p] \in Serving =>
       /\ Received(p, local[p].request, local[p].retried)
       /\ local[p].retried => FollowsRefusal(local[p].request)
  /\ pc[p] \in {"process", "failing"} => IsSupported(local[p].component, local[p].version)
  /\ pc[p] \in {"refusing", "refused"} => ~ IsSupported(local[p].component, local[p].version)
ServeInv == \A p \in Caller : Served(p)

LEMMA ServedKept ==
  ASSUME NEW p \in Caller, Served(p), detectors' = detectors,
         pc'[p] \in Serving => pc[p] \in Serving /\ local'[p] = local[p],
         pc'[p] \in {"process", "failing"} => pc[p] \in {"process", "failing"},
         pc'[p] \in {"refusing", "refused"} => pc[p] \in {"refusing", "refused"}
  PROVE  Served(p)'
<1>1. CASE pc'[p] \in Serving
  BY <1>1 DEF Served, Received, Serving
<1>2. CASE pc'[p] \notin Serving
  BY <1>2 DEF Served, Serving
<1> QED BY <1>1, <1>2

LEMMA EnteredIsServed ==
  ASSUME TypeOK, ServeInv, NEW p \in Caller, NEW r \in Request, NEW retried \in BOOLEAN,
         Enter(p, r, retried), detectors' = detectors, retried => FollowsRefusal(r)
  PROVE  ServeInv'
<1>1. /\ Received(p, r, retried)' /\ pc' = [pc EXCEPT ![p] = "get"]
      /\ \A q \in Caller \ {p} : local'[q] = local[q]
  BY EnterReceives DEF TypeOK
<1>2. pc'[p] = "get" /\ \A q \in Caller \ {p} : pc'[q] = pc[q]
  BY <1>1 DEF TypeOK
<1>3. local'[p].request = r /\ local'[p].retried = retried
  BY <1>1 DEF Received
<1>4. Served(p)'
  BY <1>1, <1>2, <1>3 DEF Served, Received
<1>5. \A q \in Caller \ {p} : Served(q)'
  BY <1>1, <1>2, ServedKept DEF ServeInv
<1> QED BY <1>4, <1>5 DEF ServeInv

LEMMA ServeStep == TypeOK /\ ServeInv /\ [Next]_vars => ServeInv'
<1> SUFFICES ASSUME TypeOK, ServeInv, [Next]_vars
             PROVE  ServeInv'
  OBVIOUS
<1>t. pc \in [Caller -> PC] /\ DOMAIN local = Caller
  BY DEF TypeOK
<1>1. ASSUME NEW p \in Caller, Serve(p)
      PROVE  ServeInv'
  <2>1. PICK r \in Requests : Enter(p, r, FALSE)
    BY <1>1 DEF Serve
  <2> QED BY <1>1, <2>1, EnteredIsServed, RequestAssumption DEF Serve
<1>2. ASSUME NEW p \in Caller, Retry(p)
      PROVE  ServeInv'
  <2>1. PICK r \in Request : FollowsRefusal(r) /\ Enter(p, r, TRUE)
    BY <1>2, RetrySends
  <2> QED BY <1>2, <2>1, EnteredIsServed DEF Retry
<1>3. ASSUME NEW p \in Caller, Get(p)
      PROVE  ServeInv'
  <2>1. \A q \in Caller \ {p} : Served(q)'
    BY <1>3, <1>t, ServedKept DEF ServeInv, Get, Goto
  <2>2. Served(p)'
    <3>1. local' = local /\ detectors' = detectors /\ pc[p] = "get" /\ Served(p)
      BY <1>3 DEF Get, ServeInv
    <3>2. pc'[p] = IF IsSupported(local[p].component, local[p].version) THEN "process" ELSE "refusing"
      BY <1>3, <1>t DEF Get, Goto
    <3> QED BY <3>1, <3>2 DEF Served, Serving, Received, IsSupported
  <2> QED BY <2>1, <2>2 DEF ServeInv
<1>4. ASSUME NEW p \in Caller, ProcessSucceeds(p) \/ ProcessFails(p)
      PROVE  ServeInv'
  BY <1>4, <1>t, ServedKept DEF ServeInv, ProcessSucceeds, ProcessFails, Return, Goto, Serving
<1>5. ASSUME NEW p \in Caller, RecordFailure(p)
      PROVE  ServeInv'
  BY <1>5, <1>t, ServedKept DEF ServeInv, RecordFailure, Return, Goto, Serving
<1>6. ASSUME NEW p \in Caller, GiveUp(p) \/ Reset(p) \/ ResetOne(p)
      PROVE  ServeInv'
  BY <1>6, <1>t, ServedKept DEF ServeInv, GiveUp, Reset, ResetOne, Return, Goto, Serving
<1>7. ASSUME NEW p \in Caller, LookUp(p) \/ Create(p) \/ Add(p) \/ Abort(p)
      PROVE  ServeInv'
  BY <1>7, <1>t, ServedKept DEF ServeInv, LookUp, Create, Add, Abort, Call, Return, Goto, Serving
<1>8. CASE UNCHANGED vars
  BY <1>8, ServedKept DEF ServeInv, vars
<1> QED BY <1>1, <1>2, <1>3, <1>4, <1>5, <1>6, <1>7, <1>8 DEF Next

LEMMA ServeInvHolds == Spec => [](TypeOK /\ ServeInv)
<1>1. Init => ServeInv
  BY DEF Init, ServeInv, Served, Serving
<1> QED BY <1>1, ServeStep, TypeCorrect, PTL DEF Spec

\* What the middleware has detected is what the manager finds, when it reads the
\* key that the middleware writes.
LEMMA DetectedIsFound ==
  ASSUME TypeOK, ServeInv, NEW p \in Caller, pc[p] \in Serving,
         detectors.manager.contextKey = "api_version",
         ~ IsZero(DetectFromHTTPRequest(detectors.middleware, local[p].request).version)
  PROVE  local[p].version = DetectFromHTTPRequest(detectors.middleware, local[p].request).version
<1> DEFINE r == local[p].request
           v == DetectFromHTTPRequest(detectors.middleware, r).version
           context == DetectorMiddleware(detectors.middleware, r).context
<1>1. local[p] \in Local /\ Received(p, r, local[p].retried)
  BY DEF TypeOK, ServeInv, Served
<1>2. r \in Request /\ detectors.middleware \in Detector
  BY <1>1, RequestAssumption DEF Local, TypeOK
<1>3. v \in Version /\ r.context \in Context
  BY <1>2, Detected DEF Request
<1>4. context = SetVersionInContext(r.context, v)
  BY DEF DetectorMiddleware
<1>5. context["api_version"] = v
  <2> HIDE DEF v, context, r
  <2> QED BY <1>3, <1>4, SetContextIsTyped
<1>6. local[p].version = DetectFromContext(detectors.manager, context).version
  BY <1>1 DEF Received
<1> QED BY <1>5, <1>6 DEF DetectFromContext

\* The version that is announced is the one that is looked up, counted and handed
\* to the component, for any detectors, registry and requests.
THEOREM AnnouncedIsAlwaysServed == Spec => []AnnouncedIsServed
<1>1. TypeOK /\ ServeInv => AnnouncedIsServed
  <2> SUFFICES ASSUME TypeOK, ServeInv, NEW p \in Caller, pc[p] \in Serving,
                      detectors.manager.contextKey = "api_version",
                      ~ IsZero(DetectFromHTTPRequest(detectors.middleware, local[p].request).version)
               PROVE  LET debug == CreateDebugInfo(detectors.middleware, local[p].request,
                                                   Supported[local[p].component]) IN
                      /\ local[p].announced = String(local[p].version)
                      /\ pc[p] \in {"process", "failing"} => debug.isSupported
                      /\ pc[p] \in {"refusing", "refused"} /\ local[p].component \in DOMAIN Supported
                           => ~ debug.isSupported
    BY DEF AnnouncedIsServed
  <2> DEFINE v == DetectFromHTTPRequest(detectors.middleware, local[p].request).version
             debug == CreateDebugInfo(detectors.middleware, local[p].request, Supported[local[p].component])
  <2>1. local[p].version = v
    BY DetectedIsFound
  <2>2. local[p].announced = String(v)
    BY DEF ServeInv, Served, Received, DetectorMiddleware
  <2>3. debug.isSupported <=> \E w \in Supported[local[p].component] : IsSameVersion(w, v)
    BY DEF CreateDebugInfo
  <2> QED BY <2>1, <2>2, <2>3 DEF ServeInv, Served, IsSupported
<1> QED BY <1>1, ServeInvHolds, PTL

LEMMA MethodsAreTyped ==
  ASSUME NEW d \in Detector
  PROVE  \A j \in DOMAIN d.enabledMethods : d.enabledMethods[j] \in Method
<1> DEFINE methods == d.enabledMethods
<1>1. methods \in Seq(Method)
  BY DEF Detector
<1>2. ASSUME NEW j \in DOMAIN methods
      PROVE  methods[j] \in Method
  <2> HIDE DEF methods
  <2> QED BY <1>1
<1> QED BY <1>2

\* Only the API-Version header of the request of such a client names a version.
LEMMA OnlyTheHeaderAsks ==
  ASSUME NEW d \in Detector, NEW c \in Text, NEW v \in Version, NEW method \in Method
  PROVE  LET detected == DetectedBy(d, method, AskFor(String(v), c)) IN
         IF method = "API-Version Header" THEN detected = ParseVersion(String(v)) ELSE IsZero(detected)
<1> DEFINE r == AskFor(String(v), c)
<1>1. IsZero(Zero) /\ ParseVersion(NoText) = Zero
  BY DEF IsZero, Zero, Numbered, ParseVersion, NoText, Spell, IsNumber
<1>2. /\ r.accept = NoText /\ r.apiVersion = String(v) /\ r.xApiVersion = NoText /\ r.query = NoText
      /\ r.path = <<>> /\ r.context = NoContext
  BY DEF AskFor
<1>3. DetectFromURLPath(r) = Zero
  BY <1>2 DEF DetectFromURLPath, First, StartsWithV, NoText, Spell
<1>4. NoContext[d.contextKey] = Zero
  BY DEF Detector, NoContext
<1>5. IF method = "API-Version Header" THEN DetectedBy(d, method, r) = ParseVersion(String(v))
                                      ELSE IsZero(DetectedBy(d, method, r))
  <2> HIDE DEF r
  <2> QED BY <1>1, <1>2, <1>3, <1>4 DEF DetectedBy, Method
<1> QED BY <1>5

\* A client that follows a refusal is not refused again.
THEOREM RetryIsAlwaysAccepted == Spec => []RetryAccepted
<1>1. TypeOK /\ ServeInv => RetryAccepted
  <2> SUFFICES ASSUME TypeOK, ServeInv, NEW p \in Caller, pc[p] = "refusing", local[p].retried,
                      detectors.manager.contextKey = "api_version",
                      NEW i \in DOMAIN detectors.middleware.enabledMethods,
                      detectors.middleware.enabledMethods[i] = "API-Version Header",
                      Supported[local[p].component] # {}
               PROVE  FALSE
    BY DEF RetryAccepted
  <2> DEFINE d == detectors.middleware
             r == local[p].request
             methods == d.enabledMethods
             found == {j \in DOMAIN methods : ~ IsZero(DetectedBy(d, methods[j], r))}
             w == DetectFromHTTPRequest(d, r).version
  <2>1. local[p] \in Local /\ Received(p, r, local[p].retried) /\ FollowsRefusal(r)
        /\ ~ IsSupported(local[p].component, local[p].version)
    BY DEF ServeInv, Served, TypeOK, Serving
  <2>2. d \in Detector /\ r \in Request
    BY <2>1, RequestAssumption DEF TypeOK, Local
  <2>3. PICK c \in DOMAIN Supported, target \in Version :
          \E v \in FindClosestVersion(target, Offered(c)) : r = RetryRequest(c, v)
    BY <2>1 DEF FollowsRefusal
  <2>4. PICK v \in FindClosestVersion(target, Offered(c)) : r = RetryRequest(c, v)
    BY <2>3
  <2>5. c \in Text /\ c # NoText
    BY RegistryAssumption
  <2>6. local[p].component = c
    <3>1. r.component = c
      <4>1. AskFor(String(v), c).component = c
        BY DEF AskFor
      <4> HIDE DEF r
      <4> QED BY <2>4, <4>1 DEF RetryRequest
    <3> QED BY <2>1, <2>5, <3>1 DEF Received, ExtractComponentFromPath
  <2>7. v \in Offered(c) /\ v \in Version
    BY <2>6, OfferedAreSupported, ClosestIsAvailable
  <2>8. /\ IsSupported(c, ParseVersion(String(v)))
        /\ ~ IsZero(ParseVersion(String(v)))
    <3>1. ParseVersion(String(v)).text = String(v)
      BY DEF ParseVersion, Numbered
    <3> QED BY <2>7, <3>1, OfferedAreSupported, PrintedIsText DEF IsZero
  <2>9. \A j \in DOMAIN methods : methods[j] \in Method
    BY <2>2, MethodsAreTyped
  <2>10. \A j \in DOMAIN methods :
           IF methods[j] = "API-Version Header"
             THEN DetectedBy(d, methods[j], r) = ParseVersion(String(v))
             ELSE IsZero(DetectedBy(d, methods[j], r))
    BY <2>2, <2>4, <2>5, <2>7, <2>9, OnlyTheHeaderAsks DEF RetryRequest
  <2>11. w = ParseVersion(String(v))
    <3>1. i \in found
      BY <2>8, <2>10
    <3>2. \E j \in found : w = DetectedBy(d, methods[j], r)
      BY <3>1, <2>2, Detected
    <3> QED BY <3>2, <2>10
  <2>12. local[p].version = w
    BY <2>8, <2>11, DetectedIsFound DEF Serving
  <2> QED BY <2>1, <2>6, <2>8, <2>11, <2>12
<1> QED BY <1>1, ServeInvHolds, PTL
-----------------------------------------------------------------------------
\* The books of the metrics, for every name and spelling, counted or not.
Balanced(c, s) ==
  RequestCount(metrics, c, s) + Tally(excess, <<c, s>>) =
    Tally(succeeded, <<c, s>>) + ErrorCount(metrics, c, s) + Cardinality(InProgress(c, s))
UsageInv == IsFiniteSet(counted) /\ \A c, s \in Text : Balanced(c, s)

LEMMA CountsAreNat ==
  ASSUME TypeOK, IsFiniteSet(counted), NEW c, NEW s
  PROVE  /\ RequestCount(metrics, c, s) \in Nat /\ ErrorCount(metrics, c, s) \in Nat
         /\ Tally(excess, <<c, s>>) \in Nat /\ Tally(succeeded, <<c, s>>) \in Nat
         /\ IsFiniteSet(InProgress(c, s)) /\ Cardinality(InProgress(c, s)) \in Nat
<1>1. IsCounters(OfComponent(metrics, c).requests, Text) /\ IsCounters(OfComponent(metrics, c).errors, Text)
  BY EntryIsTyped DEF TypeOK
<1>2. IsFiniteSet(InProgress(c, s))
  BY FS_Subset DEF InProgress
<1> QED BY <1>1, <1>2, TallyIsNat, FS_CardinalityType DEF RequestCount, ErrorCount, TypeOK

LEMMA SameInProgress ==
  ASSUME counted' = counted, \A p \in counted : local'[p] = local[p], NEW c, NEW s
  PROVE  InProgress(c, s)' = InProgress(c, s)
BY DEF InProgress, Recorded

\* The metrics and the goroutines they count are as they were.
LEMMA UsageKept ==
  ASSUME UsageInv, UNCHANGED usage, \A p \in counted : local'[p] = local[p]
  PROVE  UsageInv'
<1>1. ASSUME NEW c \in Text, NEW s \in Text
      PROVE  Balanced(c, s)'
  <2>1. InProgress(c, s)' = InProgress(c, s)
    BY SameInProgress DEF usage
  <2> QED BY <2>1 DEF UsageInv, Balanced, usage
<1> QED BY <1>1 DEF UsageInv, usage

LEMMA UsageStep == TypeOK /\ TypeOK' /\ UsageInv /\ [Next]_vars => UsageInv'
<1> SUFFICES ASSUME TypeOK, TypeOK', UsageInv, [Next]_vars
             PROVE  UsageInv'
  OBVIOUS
<1>t. /\ pc \in [Caller -> PC] /\ DOMAIN local = Caller /\ counted \subseteq Caller
      /\ \A p \in counted : pc[p] \in {"process", "failing", "aborted"}
      /\ IsMetrics(metrics, Text, Text)
      /\ IsCounters(succeeded, Text \X Text) /\ IsCounters(excess, Text \X Text)
      /\ IsFiniteSet(counted)
  BY DEF TypeOK, UsageInv
<1>1. ASSUME NEW p \in Caller, Serve(p) \/ Retry(p) \/ GiveUp(p) \/ LookUp(p) \/ Create(p) \/ Add(p)
      PROVE  UsageInv'
  <2>1. pc[p] \notin {"process", "failing", "aborted"} /\ UNCHANGED usage
    BY <1>1 DEF Serve, Retry, GiveUp, LookUp, Create, Add, Call
  <2>2. \A q \in Caller \ {p} : local'[q] = local[q]
    BY <1>1, <1>t DEF Serve, Retry, GiveUp, LookUp, Create, Add, Enter, Return
  <2> QED BY <2>1, <2>2, <1>t, UsageKept
<1>2. ASSUME NEW p \in Caller, ProcessFails(p) \/ Abort(p)
      PROVE  UsageInv'
  BY <1>2, UsageKept DEF ProcessFails, Abort
<1>3. ASSUME NEW p \in Caller, Get(p)
      PROVE  UsageInv'
  <2> DEFINE c == local[p].component
             s == String(local[p].version)
  <2>1. local[p] \in Local /\ p \notin counted
    BY <1>3, <1>t DEF Get, TypeOK, Serving
  <2>2. c \in Text /\ s \in Text
    BY <2>1, PrintedIsText DEF Local
  <2>3. CASE ~ IsSupported(c, local[p].version)
    BY <1>3, <2>3, UsageKept DEF Get, usage
  <2>4. CASE IsSupported(c, local[p].version)
    <3>1. /\ metrics' = RecordRequest(metrics, c, s) /\ counted' = counted \cup {p}
          /\ local' = local /\ excess' = excess /\ succeeded' = succeeded
      BY <1>3, <2>4 DEF Get
    <3>2. IsFiniteSet(counted')
      BY <3>1, <1>t, FS_AddElement
    <3>3. ASSUME NEW d \in Text, NEW t \in Text
          PROVE  Balanced(d, t)'
      <4>1. Balanced(d, t) /\ IsFiniteSet(InProgress(d, t)) /\ p \notin InProgress(d, t)
        BY <2>1, CountsAreNat, <1>t DEF UsageInv, InProgress
      <4>2. CASE <<d, t>> = <<c, s>>
        <5>1. InProgress(d, t)' = InProgress(d, t) \cup {p}
          BY <3>1, <4>2 DEF InProgress, Recorded
        <5>2. Cardinality(InProgress(d, t)') = Cardinality(InProgress(d, t)) + 1
          BY <4>1, <5>1, FS_AddElement
        <5>3. RequestCount(metrics', d, t) = RequestCount(metrics, d, t) + 1
              /\ ErrorCount(metrics', d, t) = ErrorCount(metrics, d, t)
          BY <3>1, <4>2, <2>2, <1>t, RecordRequestCounts
        <5> QED BY <3>1, <4>1, <5>2, <5>3, CountsAreNat, <1>t DEF Balanced
      <4>3. CASE <<d, t>> # <<c, s>>
        <5>1. InProgress(d, t)' = InProgress(d, t)
          BY <3>1, <4>3 DEF InProgress, Recorded
        <5>2. Same(metrics', metrics, d, t)
          BY <3>1, <4>3, <2>2, <1>t, RecordRequestCounts
        <5> QED BY <3>1, <4>1, <5>1, <5>2 DEF Balanced, Same
      <4> QED BY <4>2, <4>3
    <3> QED BY <3>2, <3>3 DEF UsageInv
  <2> QED BY <2>3, <2>4
<1>4. ASSUME NEW p \in Caller, ProcessSucceeds(p) \/ RecordFailure(p)
      PROVE  UsageInv'
  <2> DEFINE c == local[p].component
             s == String(local[p].version)
  <2>1. local[p] \in Local
    BY <1>4 DEF ProcessSucceeds, RecordFailure, TypeOK, Serving
  <2>2. c \in Text /\ s \in Text
    BY <2>1, PrintedIsText DEF Local
  <2>3. counted' = counted \ {p} /\ IsFiniteSet(counted')
    BY <1>4, <1>t, FS_Subset DEF ProcessSucceeds, RecordFailure
  <2>4. \A q \in counted' : q \in counted /\ local'[q] = local[q]
    BY <1>4, <1>t, <2>3 DEF ProcessSucceeds, RecordFailure, Return
  <2>5. ASSUME NEW d \in Text, NEW t \in Text
        PROVE  Balanced(d, t)'
    <3>1. Balanced(d, t) /\ IsFiniteSet(InProgress(d, t))
      BY CountsAreNat, <1>t DEF UsageInv
    <3>2. CASE <<d, t>> # <<c, s>>
      <4>1. InProgress(d, t)' = InProgress(d, t)
        BY <2>3, <2>4, <3>2 DEF InProgress, Recorded
      <4>2. Same(metrics', metrics, d, t)
        <5>1. CASE ProcessSucceeds(p)
          BY <5>1 DEF ProcessSucceeds, Same
        <5>2. CASE RecordFailure(p)
          BY <5>2, <3>2, <2>2, <1>t, RecordErrorCounts DEF RecordFailure
        <5> QED BY <1>4, <5>1, <5>2
      <4>3. Tally(succeeded', <<d, t>>) = Tally(succeeded, <<d, t>>)
            /\ Tally(excess', <<d, t>>) = Tally(excess, <<d, t>>)
        BY <1>4, <3>2, <2>2, <1>t, IncrementCounts DEF ProcessSucceeds, RecordFailure, Recorded
      <4> QED BY <3>1, <4>1, <4>2, <4>3 DEF Balanced, Same
    <3>3. CASE <<d, t>> = <<c, s>> /\ p \in counted
      <4>1. InProgress(d, t)' = InProgress(d, t) \ {p} /\ p \in InProgress(d, t)
        BY <2>3, <2>4, <3>3 DEF InProgress, Recorded
      <4>2. Cardinality(InProgress(d, t)') = Cardinality(InProgress(d, t)) - 1
        BY <3>1, <4>1, FS_RemoveElement
      <4>3. CASE ProcessSucceeds(p)
        <5>1. Tally(succeeded', <<d, t>>) = Tally(succeeded, <<d, t>>) + 1
          BY <4>3, <3>3, <2>2, <1>t, IncrementCounts DEF ProcessSucceeds, Recorded
        <5>2. metrics' = metrics /\ excess' = excess
          BY <4>3 DEF ProcessSucceeds
        <5> QED BY <3>1, <4>2, <5>1, <5>2, CountsAreNat, <1>t DEF Balanced
      <4>4. CASE RecordFailure(p)
        <5>1. RequestCount(metrics', d, t) = RequestCount(metrics, d, t)
              /\ ErrorCount(metrics', d, t) = ErrorCount(metrics, d, t) + 1
          BY <4>4, <3>3, <2>2, <1>t, RecordErrorCounts DEF RecordFailure
        <5>2. succeeded' = succeeded /\ excess' = excess
          BY <4>4, <3>3 DEF RecordFailure
        <5> QED BY <3>1, <4>2, <5>1, <5>2, CountsAreNat, <1>t DEF Balanced
      <4> QED BY <1>4, <4>3, <4>4
    <3>4. CASE <<d, t>> = <<c, s>> /\ p \notin counted
      <4>1. InProgress(d, t)' = InProgress(d, t)
        BY <2>3, <2>4, <3>4 DEF InProgress, Recorded
      <4>2. CASE ProcessSucceeds(p)
        <5>1. succeeded' = succeeded /\ metrics' = metrics /\ excess' = excess
          BY <4>2, <3>4 DEF ProcessSucceeds
        <5> QED BY <3>1, <4>1, <5>1 DEF Balanced
      <4>3. CASE RecordFailure(p)
        <5>1. RequestCount(metrics', d, t) = RequestCount(metrics, d, t)
              /\ ErrorCount(metrics', d, t) = ErrorCount(metrics, d, t) + 1
          BY <4>3, <3>4, <2>2, <1>t, RecordErrorCounts DEF RecordFailure
        <5>2. Tally(excess', <<d, t>>) = Tally(excess, <<d, t>>) + 1 /\ succeeded' = succeeded
          BY <4>3, <3>4, <2>2, <1>t, IncrementCounts DEF RecordFailure, Recorded
        <5> QED BY <3>1, <4>1, <5>1, <5>2, CountsAreNat, <1>t DEF Balanced
      <4> QED BY <1>4, <4>2, <4>3
    <3> QED BY <3>2, <3>3, <3>4
  <2> QED BY <2>3, <2>5 DEF UsageInv
<1>5. ASSUME NEW p \in Caller, Reset(p)
      PROVE  UsageInv'
  <2>1. metrics' = <<>> /\ counted' = {} /\ succeeded' = <<>> /\ excess' = <<>>
    BY <1>5 DEF Reset, NoMetrics
  <2>2. ASSUME NEW d \in Text, NEW t \in Text
        PROVE  Balanced(d, t)'
    <3>1. Cardinality(InProgress(d, t)') = 0
      BY <2>1, FS_EmptySet DEF InProgress
    <3>2. RequestCount(metrics', d, t) = 0 /\ ErrorCount(metrics', d, t) = 0
      BY <2>1, NoCountersIsTyped DEF RequestCount, ErrorCount, OfComponent
    <3>3. Tally(excess', <<d, t>>) = 0 /\ Tally(succeeded', <<d, t>>) = 0
      BY <2>1, NoCountersIsTyped
    <3> QED BY <3>1, <3>2, <3>3 DEF Balanced
  <2> QED BY <2>1, <2>2, FS_EmptySet DEF UsageInv
<1>6. ASSUME NEW p \in Caller, ResetOne(p)
      PROVE  UsageInv'
  <2>1. PICK c \in DOMAIN metrics :
          /\ metrics' = ResetComponent(metrics, c)
          /\ counted' = {q \in counted : local[q].component # c}
          /\ succeeded' = Restrict(succeeded, DOMAIN succeeded \ Of(succeeded, c))
          /\ excess' = Restrict(excess, DOMAIN excess \ Of(excess, c))
    BY <1>6 DEF ResetOne
  <2>2. local' = local
    BY <1>6 DEF ResetOne
  <2>3. ASSUME NEW d \in Text, NEW t \in Text
        PROVE  Balanced(d, t)'
    <3>1. /\ Tally(succeeded', <<d, t>>) = IF d = c THEN 0 ELSE Tally(succeeded, <<d, t>>)
          /\ Tally(excess', <<d, t>>) = IF d = c THEN 0 ELSE Tally(excess, <<d, t>>)
      BY <2>1 DEF Tally, Restrict, Of
    <3>2. CASE d = c
      <4>1. InProgress(d, t)' = {}
        BY <2>1, <2>2, <3>2 DEF InProgress, Recorded
      <4>2. RequestCount(metrics', d, t) = 0 /\ ErrorCount(metrics', d, t) = 0
        BY <2>1, <3>2, <1>t, ResetCounts
      <4> QED BY <3>1, <3>2, <4>1, <4>2, FS_EmptySet DEF Balanced
    <3>3. CASE d # c
      <4>1. InProgress(d, t)' = InProgress(d, t)
        BY <2>1, <2>2, <3>3 DEF InProgress, Recorded
      <4>2. Same(metrics', metrics, d, t)
        BY <2>1, <3>3, <1>t, ResetCounts
      <4> QED BY <3>1, <3>3, <4>1, <4>2 DEF Balanced, Same, UsageInv
    <3> QED BY <3>2, <3>3
  <2>4. IsFiniteSet(counted')
    BY <2>1, <1>t, FS_Subset
  <2> QED BY <2>3, <2>4 DEF UsageInv
<1>7. CASE UNCHANGED vars
  BY <1>7, UsageKept DEF vars, usage
<1> QED BY <1>1, <1>2, <1>3, <1>4, <1>5, <1>6, <1>7 DEF Next

LEMMA InitUsageInv == Init => UsageInv
<1> SUFFICES ASSUME Init, NEW c \in Text, NEW s \in Text
             PROVE  Balanced(c, s)
  BY FS_EmptySet DEF UsageInv, Init
<1>1. Cardinality(InProgress(c, s)) = 0
  BY FS_EmptySet DEF Init, InProgress
<1>2. RequestCount(metrics, c, s) = 0 /\ ErrorCount(metrics, c, s) = 0
      /\ Tally(excess, <<c, s>>) = 0 /\ Tally(succeeded, <<c, s>>) = 0
  BY NoCountersIsTyped DEF RequestCount, ErrorCount, OfComponent, NoMetrics, Init
<1> QED BY <1>1, <1>2 DEF Balanced

\* The books balance for any requests, resets and interleavings of them.
THEOREM UsageIsAlwaysAccounted == Spec => []UsageAccounted
<1>1. TypeOK /\ UsageInv => UsageAccounted
  <2> SUFFICES ASSUME TypeOK, UsageInv, NEW c \in DOMAIN metrics,
                      NEW s \in DOMAIN metrics[c].requests \cup DOMAIN metrics[c].errors
               PROVE  Tally(metrics[c].requests, s) + Tally(excess, <<c, s>>) =
                        Tally(succeeded, <<c, s>>) + Tally(metrics[c].errors, s) + Cardinality(InProgress(c, s))
    BY DEF UsageAccounted
  <2>1. c \in Text /\ s \in Text
    BY DEF TypeOK, IsMetrics, IsCounters
  <2> QED BY <2>1 DEF UsageInv, Balanced, RequestCount, ErrorCount, OfComponent
<1> QED BY <1>1, InitUsageInv, TypeCorrect, UsageStep, PTL DEF Spec
-----------------------------------------------------------------------------
\* Sums. SumFunctionOnSet is a fold, and a fold a recursive function: facts about
\* it need an induction over the sets it runs through.

\* Induction, for a set of numbers instead of a predicate.
LEMMA Induction ==
  ASSUME NEW T \in SUBSET Nat, 0 \in T, \A n \in T : n + 1 \in T
  PROVE  \A n \in Nat : n \in T
<1> SUFFICES ASSUME Nat \ T # {} PROVE FALSE
  OBVIOUS
<1>1. PICK n \in Nat \ T : \A k \in Nat \ T : n <= k
  BY LeastElement
<1>2. n - 1 \in Nat /\ ~ (n <= n - 1)
  BY <1>1
<1>3. n - 1 \in T
  BY <1>1, <1>2
<1> QED BY <1>1, <1>2, <1>3

Pick(s) == CHOOSE x \in s : TRUE
Total(f, g, s) == IF s = {} THEN 0 ELSE f[Pick(s)] + g[s \ {Pick(s)}]
Totals(f, S, g) == g = [s \in SUBSET S |-> Total(f, g, s)]

LEMMA Smaller ==
  ASSUME NEW S, IsFiniteSet(S), NEW x \in S
  PROVE  /\ IsFiniteSet(S \ {x}) /\ Cardinality(S) \in Nat /\ Cardinality(S) > 0
         /\ Cardinality(S \ {x}) = Cardinality(S) - 1
<1>1. IsFiniteSet(S \ {x}) /\ Cardinality(S \ {x}) = Cardinality(S) - 1
  BY FS_RemoveElement
<1>2. Cardinality(S) \in Nat /\ Cardinality(S \ {x}) \in Nat
  BY <1>1, FS_CardinalityType
<1> QED BY <1>1, <1>2

LEMMA Picked ==
  ASSUME NEW S, S # {}
  PROVE  Pick(S) \in S
BY DEF Pick

LEMMA TotalsExist ==
  ASSUME NEW f, NEW S, IsFiniteSet(S)
  PROVE  \E g : Totals(f, S, g)
<1> DEFINE Fits(g, n) == /\ DOMAIN g = SUBSET S
                         /\ g = [s \in SUBSET S |-> g[s]]
                         /\ \A s \in SUBSET S : Cardinality(s) <= n => g[s] = Total(f, g, s)
           T == {n \in Nat : \E g : Fits(g, n)}
<1>1. ASSUME NEW s \in SUBSET S
      PROVE  IsFiniteSet(s) /\ Cardinality(s) \in Nat /\ Cardinality(s) <= Cardinality(S)
             /\ (Cardinality(s) = 0 => s = {})
  <2>1. IsFiniteSet(s)
    BY FS_Subset
  <2> QED BY <2>1, FS_Subset, FS_CardinalityType, FS_EmptySet
<1>2. 0 \in T
  <2> DEFINE g == [s \in SUBSET S |-> 0]
  <2>1. \A s \in SUBSET S : Cardinality(s) <= 0 => g[s] = Total(f, g, s)
    BY <1>1 DEF Total
  <2>2. Fits(g, 0)
    BY <2>1
  <2> QED BY <2>2
<1>3. ASSUME NEW n \in T PROVE n + 1 \in T
  <2>1. PICK g : Fits(g, n)
    OBVIOUS
  <2> DEFINE h == [s \in SUBSET S |-> IF Cardinality(s) = n + 1 THEN Total(f, g, s) ELSE g[s]]
  <2>2. ASSUME NEW s \in SUBSET S, Cardinality(s) <= n + 1
        PROVE  h[s] = Total(f, h, s)
    <3>0. n \in Nat /\ Cardinality(s) \in Nat
      BY <1>1
    <3>1. h[s] = Total(f, g, s)
      <4>1. CASE Cardinality(s) = n + 1
        BY <4>1
      <4>2. CASE Cardinality(s) # n + 1
        <5>1. Cardinality(s) <= n
          BY <3>0, <4>2, <2>2
        <5>2. h[s] = g[s]
          BY <4>2
        <5> QED BY <5>1, <5>2, <2>1
      <4> QED BY <4>1, <4>2
    <3>2. CASE s = {}
      BY <3>1, <3>2 DEF Total
    <3>3. CASE s # {}
      <4> DEFINE t == s \ {Pick(s)}
      <4>1. t \in SUBSET S /\ Cardinality(t) = Cardinality(s) - 1
        BY <3>3, <1>1, Picked, Smaller
      <4>2. Cardinality(t) # n + 1
        BY <3>0, <4>1, <2>2
      <4>3. h[t] = g[t]
        BY <4>1, <4>2
      <4> QED BY <3>1, <3>3, <4>3 DEF Total
    <3> QED BY <3>2, <3>3
  <2>3. Fits(h, n + 1)
    BY <2>2
  <2>4. n + 1 \in Nat
    OBVIOUS
  <2> HIDE DEF Fits, h
  <2> QED BY <2>3, <2>4
<1>4. \A n \in Nat : n \in T
  <2> HIDE DEF T
  <2>1. T \in SUBSET Nat
    BY DEF T
  <2> QED BY <1>2, <1>3, <2>1, Induction
<1>5. Cardinality(S) \in Nat
  BY FS_CardinalityType
<1>6. PICK g : Fits(g, Cardinality(S))
  BY <1>4, <1>5
<1>7. \A s \in SUBSET S : g[s] = Total(f, g, s)
  BY <1>1, <1>6
<1>8. g = [s \in SUBSET S |-> Total(f, g, s)]
  BY <1>6, <1>7
<1> QED BY <1>8 DEF Totals

LEMMA TotalsAgree ==
  ASSUME NEW f, NEW S, IsFiniteSet(S), NEW R \in SUBSET S, NEW g, Totals(f, S, g), NEW h, Totals(f, R, h)
  PROVE  \A s \in SUBSET R : g[s] = h[s]
<1> DEFINE T == {n \in Nat : \A s \in SUBSET R : Cardinality(s) = n => g[s] = h[s]}
<1>0. ASSUME NEW s \in SUBSET R
      PROVE  /\ IsFiniteSet(s) /\ Cardinality(s) \in Nat /\ (Cardinality(s) = 0 => s = {})
             /\ g[s] = Total(f, g, s) /\ h[s] = Total(f, h, s)
  <2>1. IsFiniteSet(s)
    BY FS_Subset
  <2> QED BY <2>1, FS_CardinalityType, FS_EmptySet DEF Totals
<1>1. 0 \in T
  BY <1>0 DEF Total
<1>2. ASSUME NEW n \in T PROVE n + 1 \in T
  <2> SUFFICES ASSUME NEW s \in SUBSET R, Cardinality(s) = n + 1 PROVE g[s] = h[s]
    OBVIOUS
  <2> DEFINE t == s \ {Pick(s)}
  <2>1. s # {}
    BY FS_EmptySet
  <2>2. t \in SUBSET R /\ Cardinality(t) = n
    BY <2>1, <1>0, Picked, Smaller
  <2>3. g[t] = h[t]
    BY <2>2
  <2> QED BY <1>0, <2>1, <2>3 DEF Total
<1>3. \A n \in Nat : n \in T
  <2> HIDE DEF T
  <2>1. T \in SUBSET Nat
    BY DEF T
  <2> QED BY <1>1, <1>2, <2>1, Induction
<1> QED BY <1>0, <1>3

LEMMA SumIsTotal ==
  ASSUME NEW f, NEW S, IsFiniteSet(S)
  PROVE  \E g : Totals(f, S, g) /\ SumFunctionOnSet(f, S) = g[S]
<1> DEFINE c == CHOOSE g : Totals(f, S, g)
<1>1. SumFunctionOnSet(f, S) = c[S]
  BY DEF SumFunctionOnSet, FoldFunctionOnSet, MapThenFoldSet, Totals, Total, Pick
<1>2. Totals(f, S, c)
  BY TotalsExist, Zenon
<1> QED BY <1>1, <1>2

LEMMA SumUnfolds ==
  ASSUME NEW f, NEW S, IsFiniteSet(S)
  PROVE  SumFunctionOnSet(f, S) =
           IF S = {} THEN 0 ELSE f[Pick(S)] + SumFunctionOnSet(f, S \ {Pick(S)})
<1>1. PICK g : Totals(f, S, g) /\ SumFunctionOnSet(f, S) = g[S]
  BY SumIsTotal
<1>2. g[S] = Total(f, g, S)
  BY <1>1 DEF Totals
<1>3. CASE S = {}
  BY <1>1, <1>2, <1>3 DEF Total
<1>4. CASE S # {}
  <2> DEFINE R == S \ {Pick(S)}
  <2>1. IsFiniteSet(R) /\ R \in SUBSET S
    BY FS_Subset
  <2>2. PICK h : Totals(f, R, h) /\ SumFunctionOnSet(f, R) = h[R]
    BY <2>1, SumIsTotal
  <2>3. g[R] = h[R]
    BY <1>1, <2>1, <2>2, TotalsAgree
  <2> QED BY <1>1, <1>2, <1>4, <2>2, <2>3 DEF Total
<1> QED BY <1>3, <1>4

\* A sum of natural numbers is one, and any element can be taken out.
LEMMA SumWithout ==
  ASSUME NEW f, NEW S, IsFiniteSet(S), \A x \in S : f[x] \in Nat
  PROVE  /\ SumFunctionOnSet(f, S) \in Nat
         /\ \A x \in S : SumFunctionOnSet(f, S) = f[x] + SumFunctionOnSet(f, S \ {x})
<1> DEFINE Sum(s) == SumFunctionOnSet(f, s)
           Good(s) == Sum(s) \in Nat /\ \A x \in s : Sum(s) = f[x] + Sum(s \ {x})
           T == {n \in Nat : \A s \in SUBSET S : Cardinality(s) <= n => Good(s)}
<1>0. ASSUME NEW s \in SUBSET S
      PROVE  IsFiniteSet(s) /\ Cardinality(s) \in Nat /\ (Cardinality(s) <= 0 => s = {})
             /\ Sum(s) = IF s = {} THEN 0 ELSE f[Pick(s)] + Sum(s \ {Pick(s)})
  <2>1. IsFiniteSet(s)
    BY FS_Subset
  <2>2. Cardinality(s) \in Nat
    BY <2>1, FS_CardinalityType
  <2>3. Cardinality(s) = 0 => s = {}
    BY <2>1, FS_EmptySet
  <2> QED BY <2>1, <2>2, <2>3, SumUnfolds
<1>e. Good({})
  <2>1. Sum({}) = 0
    BY <1>0
  <2> QED BY <2>1
<1>1. 0 \in T
  <2> HIDE DEF Good
  <2> QED BY <1>0, <1>e
<1>2. ASSUME NEW n \in T PROVE n + 1 \in T
  <2> SUFFICES ASSUME NEW s \in SUBSET S, Cardinality(s) <= n + 1 PROVE Good(s)
    OBVIOUS
  <2> DEFINE p == Pick(s)
  <2>1. CASE s = {}
    BY <1>e, <2>1
  <2>2. CASE s # {}
    <3>1. p \in s
      BY <2>2, Picked
    <3>2. n \in Nat /\ \A t \in SUBSET S : Cardinality(t) <= n => Good(t)
      OBVIOUS
    <3>3. \A x \in s : Cardinality(s \ {x}) = Cardinality(s) - 1
      BY <1>0, Smaller
    <3>4. \A t \in SUBSET s : t # s => Good(t)
      <4>1. SUFFICES ASSUME NEW t \in SUBSET s, t # s PROVE Cardinality(t) <= n
        BY <3>2
      <4>2. PICK x \in s : x \notin t
        BY <4>1
      <4>3. IsFiniteSet(s \ {x}) /\ t \subseteq s \ {x}
        BY <1>0, <4>2, FS_Subset
      <4>4. Cardinality(t) <= Cardinality(s \ {x})
        BY <4>3, FS_Subset
      <4>5. Cardinality(t) \in Nat /\ Cardinality(s) \in Nat
        BY <1>0
      <4> QED BY <3>2, <3>3, <4>4, <4>5
    <3>5. Sum(s) = f[p] + Sum(s \ {p}) /\ f[p] \in Nat /\ Sum(s \ {p}) \in Nat
      BY <1>0, <2>2, <3>1, <3>4
    <3>6. ASSUME NEW x \in s, x # p PROVE Sum(s) = f[x] + Sum(s \ {x})
      <4> DEFINE t == s \ {p, x}
      <4>1. t = (s \ {p}) \ {x} /\ t = (s \ {x}) \ {p}
        OBVIOUS
      <4>2. Good(s \ {p}) /\ Good(s \ {x}) /\ Good(t)
        BY <3>1, <3>4
      <4>3. f[x] \in Nat /\ Sum(t) \in Nat
        BY <4>2
      <4>4. Sum(s \ {p}) = f[x] + Sum(t) /\ Sum(s \ {x}) = f[p] + Sum(t)
        BY <3>1, <3>6, <4>1, <4>2
      <4> HIDE DEF Sum, p, t
      <4> QED BY <3>5, <4>3, <4>4
    <3> QED BY <3>5, <3>6
  <2> QED BY <2>1, <2>2
<1>3. \A n \in Nat : n \in T
  <2> HIDE DEF T
  <2>1. T \in SUBSET Nat
    BY DEF T
  <2> QED BY <1>1, <1>2, <2>1, Induction
<1>4. Cardinality(S) \in Nat /\ Cardinality(S) <= Cardinality(S)
  BY FS_CardinalityType
<1>5. Good(S)
  BY <1>3, <1>4
<1> QED BY <1>5

LEMMA SumOfPart ==
  ASSUME NEW f, NEW S, IsFiniteSet(S), \A x \in S : f[x] \in Nat, NEW x
  PROVE  /\ SumFunctionOnSet(f, S) \in Nat /\ SumFunctionOnSet(f, S \ {x}) \in Nat
         /\ IsFiniteSet(S \ {x})
         /\ SumFunctionOnSet(f, S) = (IF x \in S THEN f[x] ELSE 0) + SumFunctionOnSet(f, S \ {x})
<1>1. IsFiniteSet(S \ {x})
  BY FS_Subset
<1>2. SumFunctionOnSet(f, S) \in Nat /\ SumFunctionOnSet(f, S \ {x}) \in Nat
  BY <1>1, SumWithout
<1>3. CASE x \in S
  BY <1>1, <1>2, <1>3, SumWithout
<1>4. CASE x \notin S
  <2>1. S \ {x} = S
    BY <1>4
  <2>2. SumFunctionOnSet(f, S) = 0 + SumFunctionOnSet(f, S)
    BY <1>2
  <2>3. SumFunctionOnSet(f, S) = 0 + SumFunctionOnSet(f, S \ {x})
    BY <2>1, <2>2, Zenon
  <2>4. (IF x \in S THEN f[x] ELSE 0) = 0
    BY <1>4
  <2> QED BY <1>1, <1>2, <2>3, <2>4, Zenon
<1> QED BY <1>3, <1>4

\* What is bounded spelling by spelling is bounded in total.
LEMMA SumsCompare ==
  ASSUME NEW e, NEW E, IsFiniteSet(E), \A s \in E : e[s] \in Nat,
         NEW r, NEW R, IsFiniteSet(R), \A s \in R : r[s] \in Nat,
         NEW x, NEW X, IsFiniteSet(X), \A k \in X : x[k] \in Nat,
         NEW c,
         \A s \in E : e[s] <= (IF s \in R THEN r[s] ELSE 0) + (IF <<c, s>> \in X THEN x[<<c, s>>] ELSE 0)
  PROVE  SumFunctionOnSet(e, E) <= SumFunctionOnSet(r, R) + SumFunctionOnSet(x, X)
<1> DEFINE Covered(D, Q, Y) ==
             \A s \in D : e[s] <= (IF s \in Q THEN r[s] ELSE 0) + (IF <<c, s>> \in Y THEN x[<<c, s>>] ELSE 0)
           Bounded(D, Q, Y) == SumFunctionOnSet(e, D) <= SumFunctionOnSet(r, Q) + SumFunctionOnSet(x, Y)
           T == {n \in Nat : \A D \in SUBSET E, Q \in SUBSET R, Y \in SUBSET X :
                   Cardinality(D) = n /\ Covered(D, Q, Y) => Bounded(D, Q, Y)}
<1>0. ASSUME NEW D \in SUBSET E, NEW Q \in SUBSET R, NEW Y \in SUBSET X
      PROVE  /\ IsFiniteSet(D) /\ IsFiniteSet(Q) /\ IsFiniteSet(Y)
             /\ Cardinality(D) \in Nat /\ (Cardinality(D) = 0 => D = {})
             /\ SumFunctionOnSet(r, Q) \in Nat /\ SumFunctionOnSet(x, Y) \in Nat
  <2>1. IsFiniteSet(D) /\ IsFiniteSet(Q) /\ IsFiniteSet(Y)
    BY FS_Subset
  <2> QED BY <2>1, SumWithout, FS_CardinalityType, FS_EmptySet
<1>1. 0 \in T
  <2> SUFFICES ASSUME NEW D \in SUBSET E, NEW Q \in SUBSET R, NEW Y \in SUBSET X, Cardinality(D) = 0
               PROVE  Bounded(D, Q, Y)
    OBVIOUS
  <2>1. D = {}
    BY <1>0
  <2>2. SumFunctionOnSet(e, {}) = 0
    BY FS_EmptySet, SumUnfolds
  <2> QED BY <1>0, <2>1, <2>2
<1>2. ASSUME NEW n \in T PROVE n + 1 \in T
  <2> SUFFICES ASSUME NEW D \in SUBSET E, NEW Q \in SUBSET R, NEW Y \in SUBSET X,
                      Cardinality(D) = n + 1, Covered(D, Q, Y)
               PROVE  Bounded(D, Q, Y)
    OBVIOUS
  <2>1. PICK s \in D : TRUE
    <3>1. n + 1 # 0
      OBVIOUS
    <3>2. Cardinality({}) = 0
      BY FS_EmptySet
    <3> QED BY <3>1, <3>2
  <2> DEFINE k == <<c, s>>
             D1 == D \ {s}
             Q1 == Q \ {s}
             Y1 == Y \ {k}
  <2>2. D1 \in SUBSET E /\ Q1 \in SUBSET R /\ Y1 \in SUBSET X
    OBVIOUS
  <2>3. Cardinality(D1) = n
    BY <1>0, <2>1, Smaller
  <2>4. Covered(D1, Q1, Y1)
    OBVIOUS
  <2>5. Bounded(D1, Q1, Y1)
    BY <2>2, <2>3, <2>4
  <2>6. e[s] \in Nat /\ e[s] <= (IF s \in Q THEN r[s] ELSE 0) + (IF k \in Y THEN x[k] ELSE 0)
        /\ (s \in Q => r[s] \in Nat) /\ (k \in Y => x[k] \in Nat)
    BY <2>1
  <2>7. /\ SumFunctionOnSet(e, D) = e[s] + SumFunctionOnSet(e, D1)
        /\ SumFunctionOnSet(e, D1) \in Nat
    BY <1>0, <2>1, SumOfPart
  <2>8. /\ SumFunctionOnSet(r, Q) = (IF s \in Q THEN r[s] ELSE 0) + SumFunctionOnSet(r, Q1)
        /\ SumFunctionOnSet(r, Q1) \in Nat
    BY <1>0, SumOfPart
  <2>9. /\ SumFunctionOnSet(x, Y) = (IF k \in Y THEN x[k] ELSE 0) + SumFunctionOnSet(x, Y1)
        /\ SumFunctionOnSet(x, Y1) \in Nat
    <3> HIDE DEF k
    <3> QED BY <1>0, SumOfPart
  <2> HIDE DEF k, D1, Q1, Y1
  <2> QED BY <2>5, <2>6, <2>7, <2>8, <2>9
<1>3. \A n \in Nat : n \in T
  <2> HIDE DEF T
  <2>1. T \in SUBSET Nat
    BY DEF T
  <2> QED BY <1>1, <1>2, <2>1, Induction
<1>4. Covered(E, R, X) /\ Cardinality(E) \in Nat
  BY <1>0
<1>5. Bounded(E, R, X)
  <2> HIDE DEF Covered, Bounded
  <2> QED BY <1>3, <1>4
<1> QED BY <1>5

\* Among finitely many numbers there is a greatest and a least one.
LEMMA SumHasExtremes ==
  ASSUME NEW f, NEW S, IsFiniteSet(S), S # {}, \A x \in S : f[x] \in Nat \ {0}
  PROVE  /\ SumFunctionOnSet(f, S) > 0
         /\ \E x \in S : \A y \in S : f[x] >= f[y]
         /\ \E x \in S : \A y \in S : f[x] <= f[y]
<1> DEFINE sum == SumFunctionOnSet(f, S)
<1>1. sum \in Nat /\ \A x \in S : f[x] \in Nat \ {0} /\ f[x] <= sum
  <2>1. ASSUME NEW x \in S
        PROVE  sum \in Nat /\ f[x] <= sum
    <3>1. /\ sum \in Nat /\ SumFunctionOnSet(f, S \ {x}) \in Nat
          /\ sum = f[x] + SumFunctionOnSet(f, S \ {x})
      BY SumOfPart
    <3> HIDE DEF sum
    <3> QED BY <3>1
  <2>2. sum \in Nat
    BY <2>1
  <2> QED BY <2>1, <2>2
<1> HIDE DEF sum
<1>2. \E x \in S : \A y \in S : f[x] <= f[y]
  <2> DEFINE Values == {f[x] : x \in S}
  <2>1. Values \in SUBSET Nat /\ Values # {}
    BY <1>1
  <2>2. PICK i \in Values : \A j \in Values : i <= j
    <3> HIDE DEF Values
    <3> QED BY <2>1, LeastElement
  <2>3. PICK x \in S : i = f[x]
    OBVIOUS
  <2>4. ASSUME NEW y \in S PROVE f[x] <= f[y]
    BY <2>2, <2>3
  <2> QED BY <2>4
<1>3. \E x \in S : \A y \in S : f[x] >= f[y]
  <2> DEFINE Rest == {sum - f[x] : x \in S}
  <2>1. Rest \in SUBSET Nat /\ Rest # {}
    BY <1>1
  <2>2. PICK i \in Rest : \A j \in Rest : i <= j
    <3> HIDE DEF Rest
    <3> QED BY <2>1, LeastElement
  <2>3. PICK x \in S : i = sum - f[x]
    OBVIOUS
  <2>4. ASSUME NEW y \in S PROVE f[x] >= f[y]
    <3>1. sum - f[x] <= sum - f[y]
      BY <2>2, <2>3
    <3> QED BY <1>1, <3>1
  <2> QED BY <2>4
<1>4. sum > 0
  BY <1>1
<1> QED BY <1>2, <1>3, <1>4 DEF sum

\* Each counter of the metrics was made by a request or an error, so there are
\* finitely many, and a component in the metrics has one.
FiniteEntry(entry) ==
  /\ IsFiniteSet(DOMAIN entry.requests) /\ IsFiniteSet(DOMAIN entry.errors)
FiniteInv ==
  /\ IsFiniteSet(DOMAIN excess)
  /\ \A c \in DOMAIN metrics :
       FiniteEntry(metrics[c]) /\ DOMAIN metrics[c].requests \cup DOMAIN metrics[c].errors # {}

LEMMA IncrementIsFinite ==
  ASSUME NEW counters, IsFiniteSet(DOMAIN counters), NEW key
  PROVE  IsFiniteSet(DOMAIN Increment(counters, key)) /\ key \in DOMAIN Increment(counters, key)
BY FS_AddElement DEF Increment

LEMMA FiniteStep == TypeOK /\ FiniteInv /\ [Next]_vars => FiniteInv'
<1> SUFFICES ASSUME TypeOK, FiniteInv, [Next]_vars PROVE FiniteInv'
  OBVIOUS
<1>m. IsMetrics(metrics, Text, Text)
  BY DEF TypeOK
<1>e. \A c : FiniteEntry(OfComponent(metrics, c))
  BY FS_EmptySet DEF FiniteInv, FiniteEntry, OfComponent
<1>x. \A k : IsFiniteSet(DOMAIN Increment(excess, k))
  BY IncrementIsFinite DEF FiniteInv
<1>1. ASSUME NEW p \in Caller, Get(p) PROVE FiniteInv'
  <2> DEFINE c == local[p].component
             s == String(local[p].version)
             entry == OfComponent(metrics, c)
             counters == Increment(entry.requests, s)
  <2>1. CASE metrics' = metrics
    BY <1>1, <2>1 DEF Get, FiniteInv
  <2>2. CASE metrics' = RecordRequest(metrics, c, s)
    <3>1. entry = [requests |-> entry.requests, errors |-> entry.errors]
      BY <1>m, EntryIsTyped
    <3>2. metrics' = Stored(metrics, c, [requests |-> counters, errors |-> entry.errors])
      BY <2>2, <3>1 DEF RecordRequest
    <3>3. IsFiniteSet(DOMAIN counters) /\ s \in DOMAIN counters /\ IsFiniteSet(DOMAIN entry.errors)
      BY <1>e, IncrementIsFinite DEF FiniteEntry
    <3>4. excess' = excess
      BY <1>1 DEF Get
    <3> HIDE DEF c, s, entry, counters
    <3> QED BY <3>2, <3>3, <3>4 DEF FiniteInv, FiniteEntry, Stored
  <2> QED BY <1>1, <2>1, <2>2 DEF Get
<1>2. ASSUME NEW p \in Caller, RecordFailure(p) PROVE FiniteInv'
  <2> DEFINE c == local[p].component
             s == String(local[p].version)
             entry == OfComponent(metrics, c)
             counters == Increment(entry.errors, s)
  <2>1. entry = [requests |-> entry.requests, errors |-> entry.errors]
    BY <1>m, EntryIsTyped
  <2>2. metrics' = Stored(metrics, c, [requests |-> entry.requests, errors |-> counters])
    BY <1>2, <2>1 DEF RecordFailure, RecordError
  <2>3. IsFiniteSet(DOMAIN counters) /\ s \in DOMAIN counters /\ IsFiniteSet(DOMAIN entry.requests)
    BY <1>e, IncrementIsFinite DEF FiniteEntry
  <2>4. IsFiniteSet(DOMAIN excess')
    BY <1>2, <1>x DEF RecordFailure, FiniteInv
  <2> HIDE DEF c, s, entry, counters
  <2> QED BY <2>2, <2>3, <2>4 DEF FiniteInv, FiniteEntry, Stored
<1>3. ASSUME NEW p \in Caller, Reset(p) PROVE FiniteInv'
  BY <1>3, FS_EmptySet DEF Reset, NoMetrics, FiniteInv
<1>4. ASSUME NEW p \in Caller, ResetOne(p) PROVE FiniteInv'
  <2>1. PICK c \in DOMAIN metrics :
          /\ metrics' = ResetComponent(metrics, c)
          /\ excess' = Restrict(excess, DOMAIN excess \ Of(excess, c))
    BY <1>4 DEF ResetOne
  <2>2. DOMAIN excess' \subseteq DOMAIN excess
    BY <2>1 DEF Restrict
  <2>3. IsFiniteSet(DOMAIN excess')
    BY <2>2, FS_Subset DEF FiniteInv
  <2> QED BY <2>1, <2>3 DEF FiniteInv, ResetComponent, Restrict
<1>5. CASE UNCHANGED <<metrics, excess>>
  BY <1>5 DEF FiniteInv
<1>6. ASSUME NEW p \in Caller,
             \/ Serve(p) \/ ProcessSucceeds(p) \/ ProcessFails(p) \/ Retry(p) \/ GiveUp(p)
             \/ LookUp(p) \/ Create(p) \/ Add(p) \/ Abort(p)
      PROVE  UNCHANGED <<metrics, excess>>
  BY <1>6 DEF Serve, ProcessSucceeds, ProcessFails, Retry, GiveUp, LookUp, Create, Add, Abort, usage
<1>7. UNCHANGED vars => UNCHANGED <<metrics, excess>>
  BY DEF vars, usage
<1> QED BY <1>1, <1>2, <1>3, <1>4, <1>5, <1>6, <1>7 DEF Next

LEMMA AlwaysUsageInv == Spec => [](TypeOK /\ UsageInv /\ FiniteInv)
<1>2. Init => FiniteInv
  BY FS_EmptySet DEF Init, NoMetrics, FiniteInv
<1> QED BY <1>2, InitUsageInv, TypeCorrect, UsageStep, FiniteStep, PTL DEF Spec

\* The totals of GetUsageStats show more errors than requests only by the errors
\* that had no request, or whose request a reset has taken away.
THEOREM ErrorRateIsExplained == Spec => []ErrorRateExplained
<1>1. TypeOK /\ UsageInv /\ FiniteInv => ErrorRateExplained
  <2> SUFFICES ASSUME TypeOK, UsageInv, FiniteInv, NEW c \in DOMAIN metrics
               PROVE  LET stats == GetUsageStats(metrics, c) IN
                      /\ stats.totalErrors <= stats.totalRequests + SumFunctionOnSet(excess, Of(excess, c))
                      /\ stats.totalRequests + stats.totalErrors > 0
                      /\ stats.totalRequests > 0 => stats.mostUsed # {} /\ stats.leastUsed # {}
    BY DEF ErrorRateExplained
  <2> DEFINE requests == metrics[c].requests
             errors == metrics[c].errors
             R == DOMAIN requests
             E == DOMAIN errors
             X == Of(excess, c)
  <2>1. /\ c \in Text /\ R \subseteq Text /\ E \subseteq Text
        /\ \A s \in R : requests[s] \in Nat \ {0}
        /\ \A s \in E : errors[s] \in Nat \ {0}
        /\ \A k \in X : excess[k] \in Nat
    BY DEF TypeOK, IsMetrics, IsCounters, Of
  <2>2. IsFiniteSet(R) /\ IsFiniteSet(E) /\ IsFiniteSet(X) /\ R \cup E # {}
    BY FS_Subset DEF FiniteInv, FiniteEntry, Of
  <2>3. ASSUME NEW s \in E
        PROVE  errors[s] <= (IF s \in R THEN requests[s] ELSE 0) + (IF <<c, s>> \in X THEN excess[<<c, s>>] ELSE 0)
    <3>1. s \in Text /\ Balanced(c, s)
      BY <2>1 DEF UsageInv
    <3>2. ErrorCount(metrics, c, s) <= RequestCount(metrics, c, s) + Tally(excess, <<c, s>>)
      BY <3>1, CountsAreNat DEF Balanced, UsageInv
    <3>3. /\ ErrorCount(metrics, c, s) = errors[s]
          /\ RequestCount(metrics, c, s) = IF s \in R THEN requests[s] ELSE 0
          /\ Tally(excess, <<c, s>>) = IF <<c, s>> \in X THEN excess[<<c, s>>] ELSE 0
      BY DEF ErrorCount, RequestCount, OfComponent, Tally, Of
    <3> QED BY <3>2, <3>3
  <2> DEFINE stats == GetUsageStats(metrics, c)
  <2>4. /\ stats.totalRequests = SumFunctionOnSet(requests, R)
        /\ stats.totalErrors = SumFunctionOnSet(errors, E)
        /\ stats.mostUsed = {s \in R : \A t \in R : requests[s] >= requests[t]}
        /\ stats.leastUsed = {s \in R : \A t \in R : requests[s] <= requests[t]}
    BY DEF GetUsageStats, SumFunction
  <2> HIDE DEF requests, errors, R, E, X, stats
  <2>5. stats.totalErrors <= stats.totalRequests + SumFunctionOnSet(excess, X)
    <3>1. \A s \in E : errors[s] \in Nat
      BY <2>1
    <3>2. \A s \in R : requests[s] \in Nat
      BY <2>1
    <3>3. SumFunctionOnSet(errors, E) <= SumFunctionOnSet(requests, R) + SumFunctionOnSet(excess, X)
      BY <2>1, <2>2, <2>3, <3>1, <3>2, SumsCompare, Zenon
    <3> QED BY <2>4, <3>3, Zenon
  <2>6. stats.totalRequests \in Nat /\ stats.totalErrors \in Nat
    BY <2>1, <2>2, <2>4, SumWithout
  <2>7. /\ R # {} => stats.totalRequests > 0 /\ stats.mostUsed # {} /\ stats.leastUsed # {}
        /\ E # {} => stats.totalErrors > 0
    BY <2>1, <2>2, <2>4, SumHasExtremes
  <2>8. R = {} => stats.totalRequests = 0
    BY <2>2, <2>4, SumUnfolds
  <2> QED BY <2>2, <2>5, <2>6, <2>7, <2>8 DEF X, stats
<1> QED BY <1>1, AlwaysUsageInv, PTL
-----------------------------------------------------------------------------
\* Migrations.

\* The versions a migration is between tell its key.
LEMMA PairTellsKey ==
  ASSUME NEW m, NEW n, Between(m) = Between(n)
  PROVE  KeyOf(m) = KeyOf(n)
BY DEF Between, KeyOf, MigrationKey

LEMMA ReverseKey ==
  ASSUME NEW m
  PROVE  /\ KeyOf(Reverse(m)) = ReverseKeyOf(m)
         /\ Reverse(m).fromVersion = m.toVersion /\ Reverse(m).toVersion = m.fromVersion
BY DEF KeyOf, ReverseKeyOf, Reverse

\* Migrations between versions without a label share a key only when they are
\* between the same versions, although the key is one string.
THEOREM PlainKeysDiffer ==
  ASSUME NEW v \in Version, NEW w \in Version, NEW x \in Version, NEW y \in Version,
         \A u \in {v, w, x, y} : IsNumber(String(u)) /\ String(u).label = NoLabel,
         MigrationKey(v, w) = MigrationKey(x, y)
  PROVE  String(v) = String(x) /\ String(w) = String(y)
<1>1. ASSUME NEW u \in {v, w, x, y}
      PROVE  Spelled(String(u)) = <<String(u)>>
  <2> DEFINE text == String(u)
  <2>1. text \in Text /\ IsNumber(text) /\ text.label = NoLabel
    BY PrintedIsText
  <2> HIDE DEF text
  <2>2. [text EXCEPT !.label = NoLabel] = text
    BY <2>1 DEF Text
  <2>3. Spelled(text) = <<text>> \o <<>>
    BY <2>1, <2>2, PiecesAssumption DEF Spelled
  <2> QED BY <2>3 DEF text
<1>2. MigrationKey(v, w) = <<String(v)>> \o <<String(w)>> /\ MigrationKey(x, y) = <<String(x)>> \o <<String(y)>>
  BY <1>1 DEF MigrationKey
<1>3. ASSUME NEW s \in Text, NEW t \in Text
      PROVE  (<<s>> \o <<t>>)[1] = s /\ (<<s>> \o <<t>>)[2] = t
  <2>1. <<s>> \in Seq(Text) /\ <<t>> \in Seq(Text) /\ Len(<<s>>) = 1 /\ Len(<<t>>) = 1
    OBVIOUS
  <2> QED BY <2>1
<1> DEFINE a == String(v)
           b == String(w)
           c == String(x)
           d == String(y)
<1>4. a \in Text /\ b \in Text /\ c \in Text /\ d \in Text
  BY PrintedIsText
<1>5. <<a>> \o <<b>> = <<c>> \o <<d>>
  BY <1>2
<1> HIDE DEF a, b, c, d
<1>6. a = (<<a>> \o <<b>>)[1] /\ b = (<<a>> \o <<b>>)[2] /\ c = (<<c>> \o <<d>>)[1] /\ d = (<<c>> \o <<d>>)[2]
  BY <1>3, <1>4
<1>7. a = c /\ b = d
  BY <1>5, <1>6
<1> QED BY <1>7 DEF a, b, c, d

\* What is stored under the key of a promise was promised under that key.
Kept(c, pair) ==
  LET m == promised[c][pair] IN
  /\ pair = Between(m)
  /\ m.reversible => m \in VersionMigration
  /\ KeyOf(m) \in DOMAIN global[c]
  /\ global[c][KeyOf(m)] \in Alike(c, m)
MigrationInv ==
  /\ orphans \subseteq Caller
  /\ DOMAIN promised \ overlapped \subseteq DOMAIN global
  /\ \A p \in Caller : pc[p] = "add" /\ p \notin orphans => local[p].component \in DOMAIN global
  /\ \A p \in orphans : local[p].component \in overlapped
  /\ \A c \in DOMAIN promised \ overlapped : \A pair \in DOMAIN promised[c] : Kept(c, pair)

\* The maps of the component and the registrations under way are as they were.
LEMMA KeptStays ==
  ASSUME NEW c, NEW pair, Kept(c, pair), promised'[c] = promised[c], global'[c] = global[c]
  PROVE  Kept(c, pair)'
BY DEF Kept, Alike

\* What storing a migration under a key, and the reverse of a reversible one under
\* another, makes of a function.
Stores(after, before, m, key, back) ==
  /\ DOMAIN after = DOMAIN before \cup (IF m.reversible THEN {key, back} ELSE {key})
  /\ \A k \in DOMAIN after :
       after[k] = IF m.reversible /\ k = back THEN Reverse(m)
                  ELSE IF k = key THEN m ELSE before[k]

LEMMA BothAreStored ==
  ASSUME NEW before, NEW m, NEW key, NEW back, NEW after,
         after = IF m.reversible THEN Put(Put(before, key, m), back, Reverse(m)) ELSE Put(before, key, m)
  PROVE  Stores(after, before, m, key, back)
<1> DEFINE reverse == Reverse(m)
<1> HIDE DEF reverse
<1>1. CASE m.reversible
  <2>1. after = Put(Put(before, key, m), back, reverse)
    BY <1>1 DEF reverse
  <2>2. DOMAIN after = DOMAIN before \cup {key, back}
    BY <2>1 DEF Put
  <2>3. \A k \in DOMAIN after :
          after[k] = IF k = back THEN reverse ELSE IF k = key THEN m ELSE before[k]
    BY <2>1 DEF Put
  <2> QED BY <1>1, <2>2, <2>3 DEF Stores, reverse
<1>2. CASE ~ m.reversible
  <2>1. after = Put(before, key, m)
    BY <1>2
  <2>2. DOMAIN after = DOMAIN before \cup {key}
    BY <2>1 DEF Put
  <2>3. \A k \in DOMAIN after : after[k] = IF k = key THEN m ELSE before[k]
    BY <2>1 DEF Put
  <2> QED BY <1>2, <2>2, <2>3 DEF Stores
<1> QED BY <1>1, <1>2

LEMMA BothAdd ==
  ASSUME NEW before, NEW m
  PROVE  /\ Stores(Promise(before, m), before, m, Between(m), Between(Reverse(m)))
         /\ Stores(AddMigration(before, m), before, m, KeyOf(m), KeyOf(Reverse(m)))
<1>1. Stores(Promise(before, m), before, m, Between(m), Between(Reverse(m)))
  BY BothAreStored DEF Promise
<1>2. Stores(AddMigration(before, m), before, m, KeyOf(m), ReverseKeyOf(m))
  BY BothAreStored DEF AddMigration
<1> QED BY <1>1, <1>2, ReverseKey

LEMMA AddKeeps ==
  ASSUME TypeOK, MigrationInv, NEW p \in Caller, Add(p), p \notin orphans,
         NEW c, c = local[p].component, c \notin overlapped, NEW pair \in DOMAIN promised'[c]
  PROVE  Kept(c, pair)'
<1> DEFINE m == local[p].migration
           reverse == Reverse(m)
           before == PromisedTo(c)
           was == global[c]
           after == global'[c]
           known == promised'[c]
           n == known[pair]
           alike == {known[q] : q \in {r \in DOMAIN known : KeyOf(known[r]) = KeyOf(n)}}
<1>1. local[p] \in Migrations /\ c \in DOMAIN global /\ m \in VersionMigration
  BY MigrationAssumption DEF Add, TypeOK, Registering, MigrationInv
<1>2. known = Promise(before, m) /\ after = AddMigration(was, m)
  BY <1>1 DEF Add, Put
<1>3. \A q \in DOMAIN before : c \in DOMAIN promised \ overlapped /\ before = promised[c] /\ Kept(c, q)
  BY DEF PromisedTo, MigrationInv
<1>4. /\ KeyOf(reverse) = ReverseKeyOf(m) /\ reverse.reversible = FALSE
  BY ReverseKey DEF Reverse
<1> HIDE DEF m, reverse, before, was, after, known
<1>5. /\ DOMAIN known = DOMAIN before \cup (IF m.reversible THEN {Between(m), Between(reverse)} ELSE {Between(m)})
      /\ \A k \in DOMAIN known :
           known[k] = IF m.reversible /\ k = Between(reverse) THEN reverse
                      ELSE IF k = Between(m) THEN m ELSE before[k]
  <2>1. Stores(known, before, m, Between(m), Between(reverse))
    BY <1>2, BothAdd DEF reverse
  <2> QED BY <2>1 DEF Stores, reverse
<1>6. /\ DOMAIN after = DOMAIN was \cup (IF m.reversible THEN {KeyOf(m), KeyOf(reverse)} ELSE {KeyOf(m)})
      /\ \A k \in DOMAIN after :
           after[k] = IF m.reversible /\ k = KeyOf(reverse) THEN reverse
                      ELSE IF k = KeyOf(m) THEN m ELSE was[k]
  <2>1. Stores(after, was, m, KeyOf(m), KeyOf(reverse))
    BY <1>2, BothAdd DEF reverse
  <2> QED BY <2>1 DEF Stores, reverse
<1>7. \A q \in DOMAIN known :
        /\ q = Between(known[q])
        /\ known[q].reversible => known[q] \in VersionMigration
  <2> SUFFICES ASSUME NEW q \in DOMAIN known
               PROVE  q = Between(known[q]) /\ (known[q].reversible => known[q] \in VersionMigration)
    OBVIOUS
  <2>1. CASE q \in DOMAIN before /\ known[q] = before[q]
    BY <1>3, <2>1 DEF Kept
  <2>2. CASE ~ (q \in DOMAIN before /\ known[q] = before[q])
    <3>1. \/ q = Between(m) /\ known[q] = m
          \/ q = Between(reverse) /\ known[q] = reverse
      BY <1>5, <2>2
    <3> QED BY <1>1, <1>4, <3>1
  <2> QED BY <2>1, <2>2
<1>8. ASSUME NEW q \in DOMAIN known, KeyOf(known[q]) = KeyOf(n)
      PROVE  known[q] \in alike
  BY <1>8
<1> DEFINE key == KeyOf(n)
<1>9. key \in DOMAIN after /\ after[key] \in alike
  <2>1. CASE m.reversible /\ key = KeyOf(reverse)
    <3>1. Between(reverse) \in DOMAIN known /\ known[Between(reverse)] = reverse
      BY <1>5, <2>1
    <3>2. key \in DOMAIN after /\ after[key] = reverse
      BY <1>6, <2>1
    <3> QED BY <1>8, <2>1, <3>1, <3>2
  <2>2. CASE ~ (m.reversible /\ key = KeyOf(reverse)) /\ key = KeyOf(m)
    <3>1. ~ (m.reversible /\ Between(m) = Between(reverse))
      BY <2>2, PairTellsKey
    <3>2. Between(m) \in DOMAIN known /\ known[Between(m)] = m
      BY <1>5, <3>1
    <3>3. key \in DOMAIN after /\ after[key] = m
      BY <1>6, <2>2
    <3> QED BY <1>8, <2>2, <3>2, <3>3
  <2>3. CASE ~ (m.reversible /\ key = KeyOf(reverse)) /\ key # KeyOf(m)
    <3>1. \A q \in DOMAIN known \cup DOMAIN before : \A x :
            q = Between(x) /\ KeyOf(x) = key =>
              /\ q # Between(m) /\ ~ (m.reversible /\ q = Between(reverse))
      BY <2>3, PairTellsKey
    <3>2. pair = Between(n) /\ pair \in DOMAIN known
      BY <1>7 DEF known
    <3>3. pair \in DOMAIN before /\ n = before[pair]
      BY <1>5, <3>1, <3>2
    <3>4. Kept(c, pair) /\ before = promised[c]
      BY <1>3, <3>3
    <3>5. key \in DOMAIN was /\ was[key] \in {before[q] : q \in {r \in DOMAIN before : KeyOf(before[r]) = key}}
      BY <3>3, <3>4 DEF Kept, Alike, was
    <3>6. PICK q \in DOMAIN before : KeyOf(before[q]) = key /\ was[key] = before[q]
      BY <3>5
    <3>7. q = Between(before[q])
      BY <1>3 DEF Kept
    <3>8. q \in DOMAIN known /\ known[q] = before[q]
      BY <1>5, <3>1, <3>6, <3>7
    <3>9. key \in DOMAIN after /\ after[key] = was[key]
      BY <1>6, <2>3, <3>5
    <3> QED BY <1>8, <3>6, <3>8, <3>9
  <2> QED BY <2>1, <2>2, <2>3
<1>10. Kept(c, pair)' <=>
         /\ pair = Between(n) /\ (n.reversible => n \in VersionMigration)
         /\ key \in DOMAIN after /\ after[key] \in alike
  BY DEF Kept, Alike, known, after
<1>11. pair \in DOMAIN known
  BY DEF known
<1> QED BY <1>7, <1>9, <1>10, <1>11

LEMMA MigrationsStay ==
  ASSUME MigrationInv, UNCHANGED migrators, \A p \in orphans : local'[p] = local[p],
         \A p \in Caller : pc'[p] = "add" =>
           \/ pc[p] = "add" /\ local'[p] = local[p]
           \/ local'[p].component \in DOMAIN global
  PROVE  MigrationInv'
<1>1. \A c \in DOMAIN promised' \ overlapped' : \A key \in DOMAIN (promised'[c]) : Kept(c, key)'
  BY KeptStays DEF MigrationInv, migrators
<1> QED BY <1>1 DEF MigrationInv, migrators

LEMMA MigrationStep == TypeOK /\ MigrationInv /\ [Next]_vars => MigrationInv'
<1> SUFFICES ASSUME TypeOK, MigrationInv, [Next]_vars
             PROVE  MigrationInv'
  OBVIOUS
<1>t. /\ pc \in [Caller -> PC] /\ DOMAIN local = Caller /\ orphans \subseteq Caller
      /\ \A p \in orphans : pc[p] \in {"add", "aborted"}
      /\ overlapped \subseteq DOMAIN global
  BY DEF TypeOK, MigrationInv
<1>1. ASSUME NEW p \in Caller, Serve(p) \/ Retry(p)
      PROVE  MigrationInv'
  <2>1. UNCHANGED migrators /\ pc[p] \in {"idle", "refused"} /\ pc'[p] = "get"
        /\ \A q \in Caller \ {p} : pc'[q] = pc[q] /\ local'[q] = local[q]
    BY <1>1, <1>t DEF Serve, Retry, Call, Enter, Goto
  <2> QED BY <1>t, <2>1, MigrationsStay
<1>2. ASSUME NEW p \in Caller, Get(p) \/ ProcessFails(p) \/ Reset(p) \/ ResetOne(p)
      PROVE  MigrationInv'
  <2>1. UNCHANGED migrators /\ local' = local /\ \A q \in Caller : pc'[q] = "add" => pc[q] = "add"
    BY <1>2, <1>t DEF Get, ProcessFails, Reset, ResetOne, Goto
  <2> QED BY <1>t, <2>1, MigrationsStay
<1>3. ASSUME NEW p \in Caller, ProcessSucceeds(p) \/ RecordFailure(p) \/ GiveUp(p)
      PROVE  MigrationInv'
  <2>1. UNCHANGED migrators /\ pc[p] \notin {"add", "aborted"} /\ pc'[p] # "add"
        /\ \A q \in Caller \ {p} : pc'[q] = pc[q] /\ local'[q] = local[q]
    BY <1>3, <1>t DEF ProcessSucceeds, RecordFailure, GiveUp, Return, Goto
  <2> QED BY <1>t, <2>1, MigrationsStay
<1>4. ASSUME NEW p \in Caller, LookUp(p)
      PROVE  MigrationInv'
  <2>1. PICK m \in Migrations :
          /\ local' = [local EXCEPT ![p] = m]
          /\ pc' = [pc EXCEPT ![p] = IF m.component \in DOMAIN global THEN "add" ELSE "create"]
    BY <1>4 DEF LookUp, Goto
  <2>2. UNCHANGED migrators /\ pc[p] = "idle"
    BY <1>4 DEF LookUp, Call
  <2> QED BY <1>t, <2>1, <2>2, MigrationsStay
<1>5. ASSUME NEW p \in Caller, Create(p)
      PROVE  MigrationInv'
  <2> DEFINE c == local[p].component
  <2>1. /\ global' = Put(global, c, <<>>) /\ local' = local /\ promised' = promised
        /\ pc' = [pc EXCEPT ![p] = "add"] /\ pc[p] = "create"
    BY <1>5 DEF Create, Goto
  <2>2. DOMAIN global' = DOMAIN global \cup {c} /\ \A d \in DOMAIN global \ {c} : global'[d] = global[d]
    BY <2>1 DEF Put
  <2>3. /\ overlapped' = IF c \in DOMAIN global THEN overlapped \cup {c} ELSE overlapped
        /\ orphans \subseteq orphans' /\ orphans' \subseteq Caller
        /\ \A q \in orphans' : q \in orphans \/ (local[q].component = c /\ c \in overlapped')
    <3>1. CASE c \in DOMAIN global
      <4>1. /\ overlapped' = overlapped \cup {c}
            /\ orphans' = orphans \cup {q \in Caller : pc[q] = "add" /\ local[q].component = c}
        BY <1>5, <3>1 DEF Create
      <4> QED BY <3>1, <4>1, <1>t
    <3>2. CASE c \notin DOMAIN global
      <4>1. overlapped' = overlapped /\ orphans' = orphans
        BY <1>5, <3>2 DEF Create
      <4>2. orphans \subseteq orphans' /\ orphans' \subseteq Caller /\ \A q \in orphans' : q \in orphans
        BY <4>1, <1>t
      <4> QED BY <3>2, <4>1, <4>2
    <3> QED BY <3>1, <3>2
  <2>4. \A d \in DOMAIN promised' \ overlapped' : d # c /\ d \in DOMAIN global /\ d \in DOMAIN promised \ overlapped
    BY <2>1, <2>3 DEF MigrationInv
  <2>5. \A d \in DOMAIN promised' \ overlapped' : \A key \in DOMAIN (promised'[d]) : Kept(d, key)'
    BY <2>1, <2>2, <2>4, KeptStays DEF MigrationInv
  <2>6. \A q \in Caller : pc'[q] = "add" /\ q \notin orphans' => local'[q].component \in DOMAIN global'
    BY <2>1, <2>2, <2>3, <1>t DEF MigrationInv
  <2>7. \A q \in orphans' : local'[q].component \in overlapped'
    BY <2>1, <2>3 DEF MigrationInv
  <2> QED BY <2>2, <2>3, <2>4, <2>5, <2>6, <2>7 DEF MigrationInv
<1>6. ASSUME NEW p \in Caller, Add(p)
      PROVE  MigrationInv'
  <2> DEFINE c == local[p].component
  <2>1. /\ pc[p] = "add" /\ pc' = [pc EXCEPT ![p] = "idle"] /\ overlapped' = overlapped
        /\ orphans' = orphans \ {p} /\ \A q \in Caller \ {p} : local'[q] = local[q]
    BY <1>6, <1>t DEF Add, Return, Goto
  <2>2. DOMAIN global' = DOMAIN global /\ \A d : d # c => global'[d] = global[d] \/ d \notin DOMAIN global
    BY <1>6 DEF Add
  <2>3. DOMAIN promised' = DOMAIN promised \cup {c} /\ \A d \in DOMAIN promised \ {c} : promised'[d] = promised[d]
    BY <1>6 DEF Add, Put
  <2>4. c \notin overlapped => p \notin orphans /\ c \in DOMAIN global
    BY <2>1 DEF MigrationInv
  <2>5. DOMAIN promised' \ overlapped' \subseteq DOMAIN global'
    BY <2>1, <2>2, <2>3, <2>4 DEF MigrationInv
  <2>6. ASSUME NEW d \in DOMAIN promised' \ overlapped', NEW key \in DOMAIN (promised'[d])
        PROVE  Kept(d, key)'
    <3>1. CASE d = c
      BY <1>6, <2>1, <2>4, <3>1, AddKeeps
    <3>2. CASE d # c
      <4>1. d \in DOMAIN promised \ overlapped /\ d \in DOMAIN global
            /\ promised'[d] = promised[d] /\ global'[d] = global[d]
        BY <2>1, <2>2, <2>3, <3>2 DEF MigrationInv
      <4>2. Kept(d, key)
        BY <4>1 DEF MigrationInv
      <4> QED BY <4>1, <4>2, KeptStays
    <3> QED BY <3>1, <3>2
  <2>7. /\ \A q \in Caller : pc'[q] = "add" /\ q \notin orphans' => local'[q].component \in DOMAIN global'
        /\ \A q \in orphans' : local'[q].component \in overlapped'
    BY <2>1, <2>2, <1>t DEF MigrationInv
  <2> QED BY <2>1, <2>5, <2>6, <2>7, <1>t DEF MigrationInv
<1>7. ASSUME NEW p \in Caller, Abort(p)
      PROVE  MigrationInv'
  <2>1. UNCHANGED migrators /\ local' = local /\ \A q \in Caller : pc'[q] # "add"
    BY <1>7 DEF Abort
  <2> QED BY <1>t, <2>1, MigrationsStay
<1>8. CASE UNCHANGED vars
  BY <1>8, MigrationsStay DEF vars
<1> QED BY <1>1, <1>2, <1>3, <1>4, <1>5, <1>6, <1>7, <1>8 DEF Next

LEMMA MigrationInvHolds == Spec => []MigrationInv
<1>1. Init => MigrationInv
  BY DEF Init, MigrationInv
<1> QED BY <1>1, MigrationStep, TypeCorrect, PTL DEF Spec

\* What was registered between versions with different numbers is found, or what
\* was registered since under the same key, unless two first uses of the
\* component's migrator overlapped: whatever is registered, in any order.
THEOREM MigrationsAreAlwaysKept == Spec => []MigrationsKept
<1>1. MigrationInv => MigrationsKept
  <2> SUFFICES ASSUME MigrationInv, NEW c \in DOMAIN promised \ overlapped, NEW pair \in DOMAIN promised[c],
                      ~ IsSameVersion(promised[c][pair].fromVersion, promised[c][pair].toVersion)
               PROVE  \E n \in Alike(c, promised[c][pair]) :
                        GetMigrationPath(global[c], promised[c][pair].fromVersion, promised[c][pair].toVersion) = <<n>>
    BY DEF MigrationsKept
  <2> DEFINE m == promised[c][pair]
  <2>1. KeyOf(m) \in DOMAIN global[c] /\ global[c][KeyOf(m)] \in Alike(c, m)
    BY DEF MigrationInv, Kept
  <2>2. GetMigrationPath(global[c], m.fromVersion, m.toVersion) = <<global[c][KeyOf(m)]>>
    BY <2>1 DEF GetMigrationPath, KeyOf
  <2> QED BY <2>1, <2>2
<1> QED BY <1>1, MigrationInvHolds, PTL

\* The target of a mapping that is applied is written by it alone, when the
\* mappings are one to one.
LEMMA LastToIsUnique ==
  ASSUME NEW mappings, NEW fields, OneToOne(mappings, fields), NEW i \in Applied(mappings, fields),
         DOMAIN mappings \subseteq Int
  PROVE  LastTo(mappings, fields, mappings[i].toField) = i
<1> DEFINE P(k) == /\ mappings[k].toField = mappings[i].toField
                   /\ \A j \in Applied(mappings, fields) : mappings[j].toField = mappings[i].toField => j <= k
<1>1. P(i)
  BY DEF OneToOne, Applied
<1>2. \A k \in Applied(mappings, fields) : P(k) => k = i
  BY DEF OneToOne, Applied
<1>3. (CHOOSE k \in Applied(mappings, fields) : P(k)) = i
  <2> HIDE DEF P
  <2> QED BY <1>1, <1>2
<1> QED BY <1>3, Zenon DEF LastTo

\* The reverse of mappings that are one to one gives every field its value back.
THEOREM ReverseRestores ==
  ASSUME NEW mappings, DOMAIN mappings \subseteq Int,
         NEW fields, fields = [field \in DOMAIN fields |-> fields[field]],
         OneToOne(mappings, fields), ~ Missing(mappings, fields)
  PROVE  LET there == MigrateMapData(mappings, fields)
             back == [i \in DOMAIN mappings |-> ReverseFieldMapping(mappings[i])]
         IN ~ Missing(back, there) /\ MigrateMapData(back, there) = fields
<1> DEFINE there == MigrateMapData(mappings, fields)
           back == [i \in DOMAIN mappings |-> ReverseFieldMapping(mappings[i])]
           unmapped == Unmapped(mappings, fields)
<1>1. DOMAIN back = DOMAIN mappings
      /\ \A i \in DOMAIN mappings :
           /\ back[i].fromField = mappings[i].toField /\ back[i].toField = mappings[i].fromField
           /\ back[i].transform = "" /\ back[i].defaultValue = Nil
           /\ back[i].required = mappings[i].required
  BY DEF ReverseFieldMapping
<1>2. Applied(mappings, fields) = {i \in DOMAIN mappings : mappings[i].fromField \in DOMAIN fields}
  BY DEF Applied, OneToOne
<1>3. DOMAIN there = {mappings[i].toField : i \in Applied(mappings, fields)} \cup unmapped
  BY DEF MigrateMapData
<1>4. \A field \in unmapped : there[field] = fields[field]
  BY DEF MigrateMapData
<1>5. ASSUME NEW i \in Applied(mappings, fields)
      PROVE  mappings[i].toField \in DOMAIN there /\ there[mappings[i].toField] = fields[mappings[i].fromField]
  <2>1. mappings[i].toField \notin unmapped
    BY DEF OneToOne, Applied
  <2>2. mappings[i].toField \in DOMAIN there
    BY <1>3
  <2>3. there[mappings[i].toField] = Written(mappings[LastTo(mappings, fields, mappings[i].toField)], fields)
    BY <2>1, <2>2 DEF MigrateMapData
  <2>4. Written(mappings[i], fields) = fields[mappings[i].fromField]
    BY <1>2 DEF OneToOne
  <2> QED BY <2>2, <2>3, <2>4, LastToIsUnique
<1>6. \A i \in DOMAIN mappings : mappings[i].toField \in DOMAIN there <=> i \in Applied(mappings, fields)
  BY <1>3, <1>2 DEF OneToOne
<1> HIDE DEF there, back
<1>7. Applied(back, there) = Applied(mappings, fields)
  BY <1>1, <1>6 DEF Applied
<1>8. Unmapped(back, there) = unmapped
  <2>1. FromFields(back) = {mappings[i].toField : i \in DOMAIN mappings}
    <3>1. \A i \in DOMAIN back : back[i].fromField = mappings[i].toField
      BY <1>1
    <3>2. FromFields(back) \subseteq {mappings[i].toField : i \in DOMAIN mappings}
      BY <1>1, <3>1 DEF FromFields
    <3>3. {mappings[i].toField : i \in DOMAIN mappings} \subseteq FromFields(back)
      BY <1>1, <3>1 DEF FromFields
    <3> QED BY <3>2, <3>3
  <2>2. \A i \in DOMAIN mappings : mappings[i].toField \notin unmapped
    BY DEF OneToOne
  <2> HIDE DEF unmapped
  <2> QED BY <1>3, <2>1, <2>2 DEF Unmapped, Applied
<1>9. ~ Missing(back, there)
  BY <1>1, <1>7 DEF Missing
<1>10. OneToOne(back, there)
  <2>1. \A i \in DOMAIN mappings : mappings[i].fromField \notin unmapped
    BY DEF Unmapped, FromFields
  <2>2. \A i \in DOMAIN mappings :
          IF mappings[i].toField \in DOMAIN there
            THEN Written(back[i], there) = there[mappings[i].toField]
            ELSE back[i].defaultValue = Nil
    BY <1>1 DEF Written, TransformValue
  <2>3. \A i, j \in DOMAIN mappings : i # j =>
          mappings[i].fromField # mappings[j].fromField /\ mappings[i].toField # mappings[j].toField
    BY DEF OneToOne
  <2>4. \A i \in DOMAIN mappings : back[i].fromField = mappings[i].toField /\ back[i].toField = mappings[i].fromField
    BY <1>1
  <2>5. DOMAIN back = DOMAIN mappings
    BY <1>1
  <2> HIDE DEF unmapped
  <2>6. \A i \in DOMAIN back : back[i].toField \notin Unmapped(back, there)
    BY <1>8, <2>1, <2>4, <2>5
  <2>7. \A i \in DOMAIN back :
          IF back[i].fromField \in DOMAIN there
            THEN Written(back[i], there) = there[back[i].fromField]
            ELSE back[i].defaultValue = Nil
    BY <2>2, <2>4, <2>5
  <2>8. \A i, j \in DOMAIN back : i # j => back[i].fromField # back[j].fromField /\ back[i].toField # back[j].toField
    BY <2>3, <2>4, <2>5
  <2> QED BY <2>6, <2>7, <2>8 DEF OneToOne
<1>11. {back[i].toField : i \in Applied(back, there)} = DOMAIN fields \ unmapped
  <2>1. DOMAIN fields \ unmapped = {mappings[i].fromField : i \in Applied(mappings, fields)}
    BY <1>2 DEF Unmapped, FromFields
  <2>2. \A i \in Applied(mappings, fields) : back[i].toField = mappings[i].fromField
    BY <1>1, <1>2
  <2> HIDE DEF unmapped
  <2> QED BY <1>7, <2>1, <2>2
<1>12. ASSUME NEW field \in DOMAIN fields \ unmapped
       PROVE  Written(back[LastTo(back, there, field)], there) = fields[field]
  <2>1. PICK i \in Applied(back, there) : field = back[i].toField
    BY <1>11
  <2>2. LastTo(back, there, field) = i
    BY <1>1, <1>10, <2>1, LastToIsUnique
  <2>3. i \in Applied(mappings, fields) /\ i \in DOMAIN mappings
    BY <1>7, <2>1 DEF Applied
  <2>4. Written(back[i], there) = there[mappings[i].toField]
    BY <1>1, <1>5, <2>3 DEF Written, TransformValue
  <2> QED BY <1>1, <1>5, <2>1, <2>2, <2>3, <2>4
<1>13. MigrateMapData(back, there) =
         [field \in DOMAIN fields |-> IF field \in unmapped THEN there[field]
                                      ELSE Written(back[LastTo(back, there, field)], there)]
  <2>1. unmapped \subseteq DOMAIN fields
    BY DEF Unmapped
  <2> HIDE DEF unmapped
  <2>2. {back[i].toField : i \in Applied(back, there)} \cup unmapped = DOMAIN fields
    BY <1>11, <2>1
  <2> QED BY <1>8, <2>2 DEF MigrateMapData
<1>14. MigrateMapData(back, there) = [field \in DOMAIN fields |-> fields[field]]
  <2> HIDE DEF unmapped
  <2> QED BY <1>4, <1>12, <1>13
<1> QED BY <1>9, <1>14 DEF there, back

\* Migrating there and back gives the input again: any reversible migration that
\* is one to one for the input, whatever is registered under other keys.
THEOREM RoundTripRestores == Spec => []RoundTrip
<1>1. MigrationInv => RoundTrip
  <2> SUFFICES ASSUME MigrationInv, NEW c \in DOMAIN promised \ overlapped, NEW pair \in DOMAIN promised[c],
                      NEW fields \in Fields
               PROVE  LET m == promised[c][pair]
                          input == Input("map", fields)
                          there == Migrate(global[c], m.fromVersion, m.toVersion, input)
                          back == Migrate(global[c], m.toVersion, m.fromVersion, there)
                      IN
                      /\ m.reversible /\ m.strategy \in {"automatic", "fallback"}
                      /\ ~ IsSameVersion(m.fromVersion, m.toVersion)
                      /\ Alike(c, m) = {m} /\ Alike(c, Reverse(m)) = {Reverse(m)}
                      /\ OneToOne(m.fieldMappings, fields)
                      => there = Failure \/ back = input
    BY DEF RoundTrip
  <2> DEFINE m == promised[c][pair]
             input == Input("map", fields)
             there == Migrate(global[c], m.fromVersion, m.toVersion, input)
             back == Migrate(global[c], m.toVersion, m.fromVersion, there)
             data == MigrateMapData(m.fieldMappings, fields)
             reversed == Reverse(m).fieldMappings
  <2> SUFFICES ASSUME m.reversible, m.strategy \in {"automatic", "fallback"},
                      ~ IsSameVersion(m.fromVersion, m.toVersion),
                      Alike(c, m) = {m}, Alike(c, Reverse(m)) = {Reverse(m)},
                      OneToOne(m.fieldMappings, fields), there # Failure
               PROVE  back = input
    OBVIOUS
  <2>1. \A q \in DOMAIN promised[c] : Kept(c, q)
    BY DEF MigrationInv
  <2>2. /\ m \in VersionMigration
        /\ KeyOf(m) \in DOMAIN global[c] /\ global[c][KeyOf(m)] = m
        /\ ReverseKeyOf(m) \in DOMAIN global[c] /\ global[c][ReverseKeyOf(m)] = Reverse(m)
    <3>1. m \in VersionMigration /\ KeyOf(m) \in DOMAIN global[c] /\ global[c][KeyOf(m)] \in Alike(c, m)
      BY <2>1 DEF Kept
    <3>2. PICK q \in DOMAIN promised[c] : promised[c][q] = Reverse(m)
      <4>1. Reverse(m) \in Alike(c, Reverse(m))
        OBVIOUS
      <4> QED BY <4>1 DEF Alike
    <3>3. KeyOf(Reverse(m)) \in DOMAIN global[c] /\ global[c][KeyOf(Reverse(m))] \in Alike(c, Reverse(m))
      BY <2>1, <3>2 DEF Kept
    <3> QED BY <3>1, <3>3, ReverseKey
  <2>3. ~ IsSameVersion(m.toVersion, m.fromVersion)
    BY <2>2, CompareIsOrder DEF IsSameVersion, VersionMigration
  <2>4. input.kind = "map" /\ input.fields = fields
    BY DEF Input
  <2>5. there = PerformAutomaticMigration(m, input)
    <3> HIDE DEF m
    <3> QED BY <2>2, <2>3 DEF Migrate, CanMigrate, KeyOf
  <2>6. ~ Missing(m.fieldMappings, fields) /\ there = Input("map", data)
    <3> HIDE DEF m, there, input
    <3> QED BY <2>4, <2>5 DEF PerformAutomaticMigration
  <2>7. DOMAIN m.fieldMappings \subseteq Int
    BY <2>2 DEF VersionMigration
  <2>8. fields = [field \in DOMAIN fields |-> fields[field]]
    BY MigrationAssumption
  <2>9. /\ reversed = [i \in DOMAIN m.fieldMappings |-> ReverseFieldMapping(m.fieldMappings[i])]
        /\ Reverse(m).strategy = m.strategy
    BY DEF Reverse
  <2>10. ~ Missing(reversed, data) /\ MigrateMapData(reversed, data) = fields
    BY <2>6, <2>7, <2>8, <2>9, ReverseRestores
  <2>11. back = PerformAutomaticMigration(Reverse(m), there)
    <3> HIDE DEF m, there
    <3> QED BY <2>2, <2>3, <2>9 DEF Migrate, CanMigrate, ReverseKeyOf
  <2>12. there.kind = "map" /\ there.fields = data
    BY <2>6 DEF Input
  <2> HIDE DEF m, there, data, reversed
  <2> QED BY <2>10, <2>11, <2>12 DEF PerformAutomaticMigration, reversed
<1> QED BY <1>1, MigrationInvHolds, PTL
=============================================================================
