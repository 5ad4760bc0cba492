-------------------------- MODULE MCPureFunctions --------------------------
(***************************************************************************)
(* PureFunctions over small tables: two toolsets, two kinds of provider,    *)
(* four served kinds and a raw subresource.                                 *)
(***************************************************************************)
EXTENDS PureFunctions

Tool(name, readOnly, destructive, list, requires) ==
    [name |-> name, readOnly |-> readOnly, destructive |-> destructive,
     clusterAware |-> ~ list, targetListProvider |-> list,
     requires |-> requires, description |-> "own", properties |-> {},
     handler |-> name]

Prompt(name, from) == [name |-> name, from |-> from, clusterAware |-> TRUE,
                       arguments |-> {}]

\* "core" has a read-only, a writing, a destructive and an OpenShift-only
\* tool; "config" the two target list tools.
MCToolset ==
    [core |-> [tools |-> <<Tool("pods_list", TRUE, FALSE, FALSE, {}),
                           Tool("pods_run", FALSE, FALSE, FALSE, {}),
                           Tool("pods_delete", FALSE, TRUE, FALSE, {}),
                           Tool("projects_list", TRUE, FALSE, FALSE, {"openshift"})>>,
               prompts |-> <<Prompt("health", "core")>>,
               resources |-> << >>, templates |-> << >>],
     config |-> [tools |-> <<Tool("configuration_contexts_list", TRUE, FALSE, TRUE, {}),
                             Tool("targets_list", TRUE, FALSE, TRUE, {})>>,
                 prompts |-> <<Prompt("setup", "config")>>,
                 resources |-> << >>, templates |-> << >>]]

Lists == {NoList, {}, {"pods_list"}, {"pods_delete", "cluster_list"}}

MCConfigs ==
    [ReadOnly : BOOLEAN, DisableDestructive : BOOLEAN,
     EnabledTools : Lists, DisabledTools : Lists,
     CompatibilityFilters : BOOLEAN,
     ToolOverrides : {{}, {"cluster_list", "pods_run"}},
     Toolsets : {<<"core">>, <<"config", "core", "config">>},
     Prompts : {<< >>}]

MCDefault == [ReadOnly |-> FALSE, DisableDestructive |-> FALSE,
              EnabledTools |-> NoList, DisabledTools |-> NoList,
              CompatibilityFilters |-> TRUE, ToolOverrides |-> {"cluster_list", "pods_run"},
              Toolsets |-> <<"config", "core", "config">>, Prompts |-> << >>]

MCProviders == [parameter : {ContextParameter, "cluster"},
                multi : BOOLEAN, default : {"t1"},
                capabilities : {{}, {"openshift"}}]

MCFirstProvider == [parameter |-> ContextParameter, multi |-> FALSE,
                    default |-> "t1", capabilities |-> {}]

MCKinds ==
    { [group |-> "", version |-> "v1", resource |-> "pods", kind |-> "Pod"],
      [group |-> "", version |-> "v1", resource |-> "namespaces",
       kind |-> "Namespace"],
      [group |-> "apps", version |-> "v1", resource |-> "deployments",
       kind |-> "Deployment"],
      [group |-> "authorization.k8s.io", version |-> "v1",
       resource |-> "selfsubjectaccessreviews",
       kind |-> "SelfSubjectAccessReview"] }

MCRawOnly ==
    { [group |-> "subresources.kubevirt.io", version |-> "v1",
       resource |-> "virtualmachines", sub |-> "start"] }

\* What a client may ask for, and what may be denied.  An object may have the
\* name of a segment.
Targets ==
    { [group |-> r.group, version |-> r.version, resource |-> r.resource,
       ns |-> ns, name |-> name, sub |-> sub] :
         r \in MCKinds \cup MCRawOnly, ns \in {"", "default", "namespaces"},
         name \in {"", "x", "namespaces", "api"}, sub \in {"", "start", "status"} }

MCRequests ==
    { [q |-> q, prefix |-> prefix, method |-> method, denied |-> denied] :
         q \in {t \in Targets : /\ t.sub # "" => t.name # ""
                                /\ t.resource = "namespaces" => t.ns = ""},
         prefix \in {<< >>, <<"k8s", "clusters", "c1">>},
         method \in {"GET", "DELETE", "POST"},
         denied \in {{}, {[group |-> "", version |-> "v1", kind |-> "Namespace"]},
                     {[group |-> "apps", version |-> "v1", kind |-> ""],
                      [group |-> "subresources.kubevirt.io", version |-> "v1",
                       kind |-> ""]}} }

MCTails == -1..3
=============================================================================
