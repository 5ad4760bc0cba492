--------------------------- MODULE AccessControl ---------------------------
(***************************************************************************)
(* The decisions of AccessControlRoundTripper (pkg/kubernetes): what a      *)
(* request is about, read off its URL, and whether it may be sent.  A path  *)
(* is the sequence of its segments.                                         *)
(***************************************************************************)
EXTENDS SequencesExt

CONSTANTS Kinds,       \* served resources: group, version, resource, kind
          RawOnly      \* subresources without kind: group, version, resource, sub

NoGVR == [group |-> "", version |-> "", resource |-> ""]
NoKind == [group |-> "", version |-> "", kind |-> "", found |-> FALSE]

-----------------------------------------------------------------------------
(* Plausible mistakes, used to show that the properties notice them.        *)

\* The namespace of a path is taken for its resource.
NamespaceIsResource(parts) ==
    CASE Len(parts) >= 3 /\ parts[1] = "api" -> 3
      [] Len(parts) >= 4 /\ parts[1] = "apis" -> 4
      [] OTHER -> 0

\* An entry without kind denies nothing.
NeedsKind(denied, gvk) ==
    \A d \in denied :
        <<d.group, d.version, d.kind>> # <<gvk.group, gvk.version, gvk.kind>>

-----------------------------------------------------------------------------
(* Reading a path.                                                         *)

stripAPIPathPrefix(path, prefix) ==
    IF IsPrefix(prefix, path) THEN SubSeq(path, Len(prefix) + 1, Len(path))
    ELSE path

\* Where the resource type is: 0 for a discovery endpoint or another path.
findResourceTypeIndex(parts) ==
    CASE Len(parts) >= 3 /\ parts[1] = "api" ->
            IF parts[3] = "namespaces" /\ Len(parts) > 4 THEN 5 ELSE 3
      [] Len(parts) >= 4 /\ parts[1] = "apis" ->
            IF parts[4] = "namespaces" /\ Len(parts) > 5 THEN 6 ELSE 4
      [] OTHER -> 0

parseURLToGVR(parts) ==
    LET i == findResourceTypeIndex(parts)
    IN  CASE i = 0 -> NoGVR
          [] parts[1] = "api" ->
                [group |-> "", version |-> parts[2], resource |-> parts[i]]
          [] OTHER ->
                [group |-> parts[2], version |-> parts[3], resource |-> parts[i]]

\* The segment after the first "namespaces", wherever that is.
parseNamespace(parts) ==
    LET at == {i \in 1..(Len(parts) - 1) : parts[i] = "namespaces"}
    IN  IF at = {} THEN ""
        ELSE parts[(CHOOSE i \in at : \A j \in at : i <= j) + 1]

SegmentAfterType(parts, n) ==
    LET i == findResourceTypeIndex(parts)
    IN  IF i > 0 /\ i + n <= Len(parts) THEN parts[i + n] ELSE ""

parseName(parts) == SegmentAfterType(parts, 1)
parseSubresource(parts) == SegmentAfterType(parts, 2)

isCollectionPath(parts) ==
    findResourceTypeIndex(parts) > 0 /\ findResourceTypeIndex(parts) = Len(parts)

\* A watch is a GET of a collection: it reads as a list.
httpMethodToVerb(method, parts) ==
    CASE method = "GET" -> IF isCollectionPath(parts) THEN "list" ELSE "get"
      [] method = "POST" -> "create"
      [] method = "PUT" -> "update"
      [] method = "PATCH" -> "patch"
      [] method = "DELETE" ->
            IF isCollectionPath(parts) THEN "deletecollection" ELSE "delete"
      [] OTHER -> method

-----------------------------------------------------------------------------
(* Deciding.                                                               *)

\* Aggregated APIs that serve subresources only have no kind in the mapper:
\* the raw discovery knows them, exactly or as the parent of one.
resourceExistsInDiscovery(gvr, sub) ==
    \E r \in RawOnly :
        /\ <<r.group, r.version, r.resource>> =
              <<gvr.group, gvr.version, gvr.resource>>
        /\ sub # "" => r.sub = sub

\* What the REST mapper knows under a resource, and the kind it answers.
served(gvr) == {k \in Kinds : /\ k.group = gvr.group
                              /\ k.version = gvr.version
                              /\ k.resource = gvr.resource}

KindFor(kinds) == (CHOOSE k \in kinds : TRUE).kind

getGVK(gvr, sub) ==
    CASE served(gvr) # {} ->
            [group |-> gvr.group, version |-> gvr.version,
             kind |-> KindFor(served(gvr)), found |-> TRUE]
      [] served(gvr) = {} /\ resourceExistsInDiscovery(gvr, sub) ->
            [group |-> gvr.group, version |-> gvr.version, kind |-> "",
             found |-> TRUE]
      [] OTHER -> NoKind

\* An entry of denied_resources without kind denies its group and version.
isAllowed(denied, gvk) ==
    \A d \in denied :
        ~ /\ d.group = gvk.group /\ d.version = gvk.version
          /\ d.kind \in {"", gvk.kind}

\* pass: not about a resource, or an access review; refuse; or validate.
RoundTrip(denied, prefix, path) ==
    LET parts == stripAPIPathPrefix(path, prefix)
        gvr == parseURLToGVR(parts)
        gvk == getGVK(gvr, parseSubresource(parts))
    IN  CASE gvr = NoGVR -> "pass"
          [] gvr # NoGVR /\ ~ gvk.found -> "refuse"
          [] gvr # NoGVR /\ gvk.found /\ ~ isAllowed(denied, gvk) -> "refuse"
          [] gvr.group = "authorization.k8s.io"
             /\ gvr.resource = "selfsubjectaccessreviews"
             /\ gvk.found /\ isAllowed(denied, gvk) -> "pass"
          [] OTHER -> "validate"

-----------------------------------------------------------------------------
(* The URLs client-go makes for a request q: collection or object, with a   *)
(* subresource or not; ns is empty for cluster-scoped resources.            *)
ClientPath(q) ==
    (IF q.group = "" THEN <<"api", q.version>>
     ELSE <<"apis", q.group, q.version>>)
    \o (IF q.ns = "" THEN << >> ELSE <<"namespaces", q.ns>>)
    \o <<q.resource>>
    \o (IF q.name = "" THEN << >> ELSE <<q.name>>)
    \o (IF q.sub = "" THEN << >> ELSE <<q.sub>>)
=============================================================================
