--------------------------- MODULE VersionDetector ---------------------------
(***************************************************************************)
(* The Detector of pkg/version: how the version and the component of a     *)
(* request are found.                                                      *)
(*                                                                         *)
(* A request is a record of what its sources hold: the text that follows   *)
(* the prefix in the Accept header with its v, both version headers, the   *)
(* query parameter, the segments of the path, the X-Component header, the  *)
(* component parameter, and its context, which gives each key a version    *)
(* (a string is held as what ParseVersion makes of it, an absent value as  *)
(* Zero).  A source that is not there is NoText.                           *)
(***************************************************************************)
EXTENDS SemVer, Sequences

CONSTANT ContextKey  \* keys of context values, "api_version" among them

Method == {"Accept Header", "API-Version Header", "X-API-Version Header",
           "Query Parameter", "URL Path", "Context Value", "Default"}
Detector == [defaultVersion : Version, enabledMethods : Seq(Method), contextKey : ContextKey]
NewDetector ==
  [defaultVersion |-> DefaultVersion,
   enabledMethods |-> <<"Accept Header", "API-Version Header", "X-API-Version Header",
                        "Query Parameter", "URL Path", "Context Value", "Default">>,
   contextKey |-> "api_version"]

Context == [ContextKey -> Version]
Request == [accept : Text, apiVersion : Text, xApiVersion : Text, query : Text, path : Seq(Text),
            component : Text, componentQuery : Text, context : Context]
NoContext == [key \in ContextKey |-> Zero]
\* A request with no more than the API-Version and X-Component headers.
AskFor(apiVersion, component) ==
  [accept |-> NoText, apiVersion |-> apiVersion, xApiVersion |-> NoText, query |-> NoText, path |-> <<>>,
   component |-> component, componentQuery |-> NoText, context |-> NoContext]
NoRequest == AskFor(NoText, NoText)

-----------------------------------------------------------------------------
First(path) == IF path = <<>> THEN NoText ELSE path[1]

\* A path names a version when its first segment starts with a v.
DetectFromURLPath(r) ==
  IF StartsWithV(First(r.path)) THEN ParseVersion(First(r.path)) ELSE Zero

DetectedBy(d, method, r) ==
  CASE method = "Accept Header" -> ParseVersion(r.accept)
    [] method = "API-Version Header" -> ParseVersion(r.apiVersion)
    [] method = "X-API-Version Header" -> ParseVersion(r.xApiVersion)
    [] method = "Query Parameter" -> ParseVersion(r.query)
    [] method = "URL Path" -> DetectFromURLPath(r)
    [] method = "Context Value" -> r.context[d.contextKey]
    [] method = "Default" -> Zero

\* The enabled methods are tried in their order.
DetectFromHTTPRequest(d, r) ==
  LET found == {i \in DOMAIN d.enabledMethods : ~ IsZero(DetectedBy(d, d.enabledMethods[i], r))}
      i == CHOOSE i \in found : \A j \in found : i <= j
  IN
  IF found = {}
    THEN [version |-> d.defaultVersion, method |-> "Default"]
    ELSE [version |-> DetectedBy(d, d.enabledMethods[i], r), method |-> d.enabledMethods[i]]

\* Mutant: the context is not looked at.
DetectDefault(d, context) == [version |-> d.defaultVersion, method |-> "Default"]

DetectFromContext(d, context) ==
  LET v == context[d.contextKey] IN
  IF IsZero(v)
    THEN [version |-> d.defaultVersion, method |-> "Default"]
    ELSE [version |-> v, method |-> "Context Value"]

\* Whatever the key of the detector is.
SetVersionInContext(context, v) == [context EXCEPT !["api_version"] = v]

\* The segment that follows a first one that starts with a v is the component.
ExtractPipelineFromPath(r) ==
  LET start == IF StartsWithV(First(r.path)) THEN 2 ELSE 1 IN
  IF Len(r.path) >= start THEN r.path[start] ELSE NoText

ExtractComponentFromPath(r) ==
  IF r.component # NoText THEN r.component
  ELSE IF r.componentQuery # NoText THEN r.componentQuery
  ELSE ExtractPipelineFromPath(r)

\* The middleware: what the next handler finds in the context, and the headers
\* of the response.
DetectorMiddleware(d, r) ==
  LET result == DetectFromHTTPRequest(d, r) IN
  [context |-> SetVersionInContext(r.context, result.version),
   apiVersion |-> String(result.version),
   method |-> result.method]

\* CreateDebugInfo: what would be found in the request, and whether it is among
\* the versions that are available.
CreateDebugInfo(d, r, available) ==
  LET result == DetectFromHTTPRequest(d, r) IN
  [detectedVersion |-> result.version, method |-> result.method,
   isSupported |-> \E v \in available : IsSameVersion(v, result.version)]
=============================================================================
