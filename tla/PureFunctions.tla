--------------------------- MODULE PureFunctions ---------------------------
(***************************************************************************)
(* The functions without state, asked about one input after another:        *)
(* ToolSurface about a configuration and a provider state, AccessControl    *)
(* about a request, ArchiveQueries about a log that is read line by line.   *)
(***************************************************************************)
EXTENDS ToolSurface, AccessControl, ArchiveQueries, Integers

CONSTANTS Configs, Default,           \* configurations and the one to start with
          Providers, FirstProvider,   \* provider states, likewise
          Requests,    \* what is asked of the cluster, how, and what is denied
          Tails,       \* the tail arguments of a search
          MaxLines,    \* bound on the lines of a log
          None         \* no request, no search

VARIABLES c, p,      \* the configuration and the provider state
          request,   \* the request the round tripper decides on
          search     \* the search of a log

vars == <<c, p, request, search>>

-----------------------------------------------------------------------------
(* What the proofs assume of the tables; TLC evaluates it for the values of *)
(* a run.                                                                   *)

ListTools == {"configuration_contexts_list", TargetsListToolName}

ASSUME SurfaceAssumption ==
    Default \in Configs /\ FirstProvider \in Providers

\* Different tools have different names (a toolset may be listed twice), none of
\* them a name that the mutator makes, and only the two list tools, which every
\* filter but the explicit lists lets through, list targets.
ASSUME ToolAssumption ==
    \A k \in Configs : LET tools == Offered(k, "tools") IN
        /\ \A i \in DOMAIN tools :
              /\ {"name", "readOnly", "destructive", "clusterAware",
                  "targetListProvider", "requires", "description", "properties"}
                    \subseteq DOMAIN tools[i]
              /\ tools[i] = [f \in DOMAIN tools[i] |-> tools[i][f]]
              /\ \A q \in Providers :
                    tools[i].name # MutatedTargetsListName(q.parameter)
              /\ tools[i].targetListProvider = (tools[i].name \in ListTools)
              /\ tools[i].name \in ListTools =>
                    tools[i].readOnly /\ ~ tools[i].destructive
                    /\ tools[i].requires = {}
        /\ \A i, j \in DOMAIN tools :
              tools[i].name = tools[j].name => tools[i] = tools[j]

\* Subresources of cluster-scoped namespaces, which the path parser takes for
\* resources inside the namespace.
Misread(q) == q.resource = "namespaces" /\ q.ns = "" /\ q.sub # ""

\* A subresource is one of an object; no group or version is called
\* "namespaces"; a subresource of namespaces has no resource's name.
ASSUME RequestAssumption ==
    \A r \in Requests :
        /\ r.prefix \in Seq(STRING)
        /\ r.method \in {"GET", "POST", "PUT", "PATCH", "DELETE"}
        /\ r.q.sub # "" => r.q.name # ""
        /\ r.q.resource # ""
        /\ "namespaces" \notin {r.q.group, r.q.version}
        /\ Misread(r.q) =>
              \A k \in Kinds \cup RawOnly :
                 k.group = r.q.group /\ k.version = r.q.version => k.resource # r.q.sub

\* Discovery gives a resource one kind.
ASSUME KindAssumption ==
    \A k, l \in Kinds :
        /\ k.group = l.group /\ k.version = l.version /\ k.resource = l.resource
        => k.kind = l.kind

ASSUME TailAssumption == Tails \subseteq Int /\ MaxLines \in Nat

-----------------------------------------------------------------------------
Init == c = Default /\ p = FirstProvider /\ request = None /\ search = None

\* The configuration is replaced, or the provider's state changes.
Reconfigure == /\ request = None /\ search = None
               /\ c' \in Configs
               /\ UNCHANGED <<p, request, search>>

ProviderChanges == /\ request = None /\ search = None
                   /\ p' \in Providers
                   /\ UNCHANGED <<c, request, search>>

\* The inputs of the other functions, from one place.
AtRest == c = Default /\ p = FirstProvider /\ request = None /\ search = None

Ask == AtRest /\ request' \in Requests /\ UNCHANGED <<c, p, search>>

Grep == /\ AtRest
        /\ \E tail \in Tails : search' = StartSearch(tail)
        /\ UNCHANGED <<c, p, request>>

GrepLine == /\ search # None /\ search.read < MaxLines
            /\ \E match \in BOOLEAN : search' = ReadLine(search, match)
            /\ UNCHANGED <<c, p, request>>

Next == Reconfigure \/ ProviderChanges \/ Ask \/ Grep \/ GrepLine

Spec == Init /\ [][Next]_vars

-----------------------------------------------------------------------------
Exposed == CollectApplicableTools(c, p)
ToolsOf(k) == LET tools == CollectApplicableTools(k, p) IN {tools[i] : i \in DOMAIN tools}

\* The configuration exposes at most one tool per name: the renaming done by
\* WithTargetListTool never makes two tools collide, which AddTool would
\* resolve by silently dropping one of them.
DistinctToolNames ==
    LET tools == Exposed
    IN  \A i, j \in DOMAIN tools : tools[i].name = tools[j].name => tools[i] = tools[j]

\* "Mutual exclusivity between configuration_contexts_list and targets_list":
\* there is at most one way to list the targets and none with a single target;
\* with several, and both list tools offered without an explicit list of tools,
\* there is one, the one that belongs to the provider.
OneTargetList ==
    LET tools == Exposed
        lists == {i \in DOMAIN tools : tools[i].targetListProvider}
        offered == ItemNames(Offered(c, "tools"))
        mine == IF p.parameter = ContextParameter THEN "configuration_contexts_list"
                ELSE MutatedTargetsListName(p.parameter)
    IN  /\ \A i, j \in lists : tools[i] = tools[j]
        /\ lists # {} => p.multi
        /\ (/\ p.multi /\ ListTools \subseteq offered
            /\ c.EnabledTools = NoList /\ c.DisabledTools = NoList)
           => \E i \in lists : tools[i].name = mine

\* c2 restricts what c1 allows and differs from it in nothing else.
Tighter(c1, c2) ==
    /\ c1.ReadOnly => c2.ReadOnly
    /\ c1.DisableDestructive => c2.DisableDestructive
    /\ c1.CompatibilityFilters => c2.CompatibilityFilters
    /\ c1.EnabledTools # NoList =>
          /\ c2.EnabledTools # NoList
          /\ c2.EnabledTools \subseteq c1.EnabledTools
    /\ c1.DisabledTools # NoList =>
          /\ c2.DisabledTools # NoList
          /\ c1.DisabledTools \subseteq c2.DisabledTools
    /\ c1.ToolOverrides = c2.ToolOverrides
    /\ c1.Toolsets = c2.Toolsets

\* Tightening any of the restricting settings never exposes a tool that was
\* not exposed before, whatever the other settings are.
TighteningOnlyRemoves ==
    [][Tighter(c, c') /\ UNCHANGED p => \A k \in {c'} : ToolsOf(k) \subseteq ToolsOf(c)]_vars

\* Access control sees the resource, name, subresource, namespace and verb the
\* request was made for, with or without a path prefix, whatever objects and
\* namespaces are called.  Two corners are left out: subresources of namespaces
\* (see Misread) and the namespace of a cluster-scoped request, which is the
\* segment after any "namespaces" in it.
PathsAreUnderstood ==
    request # None /\ ~ Misread(request.q) =>
        LET q == request.q
            parts == stripAPIPathPrefix(request.prefix \o ClientPath(q), request.prefix)
        IN  /\ parseURLToGVR(parts) = [group |-> q.group, version |-> q.version,
                                       resource |-> q.resource]
            /\ parseName(parts) = q.name
            /\ parseSubresource(parts) = q.sub
            /\ q.ns # "" => parseNamespace(parts) = q.ns
            /\ (httpMethodToVerb(request.method, parts) \in {"list", "deletecollection"}) <=>
                  (q.name = "" /\ request.method \in {"GET", "DELETE"})

\* denied_resources, by kind or by group and version: a request for a denied
\* resource is refused however its path is written, and so is one for a
\* resource discovery does not know; nothing else is.
DeniedPathsRefused ==
    request # None =>
        LET q == request.q
            Is(r) == r.group = q.group /\ r.version = q.version /\ r.resource = q.resource
            kinds == {k.kind : k \in {k \in Kinds : Is(k)}}
            raw == \E r \in RawOnly : Is(r) /\ q.sub \in {"", r.sub}
            denied == \E d \in request.denied :
                         /\ d.group = q.group /\ d.version = q.version
                         /\ d.kind \in kinds \cup {""}
            unknown == kinds = {} /\ ~ raw
            refused == RoundTrip(request.denied, request.prefix,
                                 request.prefix \o ClientPath(q)) = "refuse"
        IN  /\ denied \/ unknown => refused
            /\ refused => denied \/ unknown \/ Misread(q)

\* A search with a tail answers the last matches, in the order of the log, and
\* counts them all; without one it answers every match.
GrepKeepsLastMatches ==
    search # None =>
        LET all == search.matched
            kept == IF search.tail <= 0 \/ search.tail > Len(all) THEN Len(all)
                    ELSE search.tail
        IN  mustgatherPodLogsGrep(search) =
                [found |-> Len(all), lines |-> SubSeq(all, Len(all) - kept + 1, Len(all))]
=============================================================================
