---------------------------- MODULE CoreHandlers ----------------------------
(***************************************************************************)
(* The core toolset (pkg/toolsets/core) over the Kubernetes client          *)
(* (pkg/kubernetes), the configuration toolset, and the node debug pods of  *)
(* pkg/cluster-diagnostics that other toolsets use too.                     *)
(***************************************************************************)
EXTENDS HandlerCode

\* The kind a client names in resources_* calls.
AnyKind == "Resource"

-----------------------------------------------------------------------------
(* pkg/kubernetes: resources.                                              *)

\* Both ask the cached discovery; only resourceFor's error is returned.
resourceFor == Check

\* An access review: its error counts as a refusal.
CanI == Do("create", "SelfSubjectAccessReview")
canIUse == Section(CanI)

resourcesListAsTable(kind) == Do("list", kind)

ResourcesList(kind) ==
    resourceFor \o Maybe(canIUse)
    \o Either({resourcesListAsTable(kind), Do("list", kind)})

ResourcesGet(kind) == resourceFor \o Do("get", kind)

ResourcesDelete(kind) == resourceFor \o Do("delete", kind)

\* The scale subresource is read, and written when a scale was given.
ResourcesScale(kind) ==
    resourceFor \o Do("get", kind) \o Maybe(Check \o Do("update", kind))

\* One object of resourcesCreateOrUpdate's loop, by a forced apply.
createOrUpdateOne(kind) == resourceFor \o Do("apply", kind)

\* Every document is parsed before the first one is applied.
ResourcesCreateOrUpdate(kind) ==
    Check \o createOrUpdateOne(kind) \o Each(createOrUpdateOne(kind))

-----------------------------------------------------------------------------
(* pkg/kubernetes: pods, nodes, events, namespaces, configuration.          *)

PodsListInAllNamespaces == ResourcesList("Pod")
PodsListInNamespace == ResourcesList("Pod")
PodsGet == ResourcesGet("Pod")

\* Services and routes of a managed pod go first, errors ignored.
PodsDelete ==
    ResourcesGet("Pod")
    \o Maybe(Section(Do("list", "Service") \o Each(Try("delete", "Service")))
             \o Maybe(Section(Do("list", "Route")
                              \o Each(Try("delete", "Route")))))
    \o ResourcesDelete("Pod")

\* The container is looked up only when the caller names none.
PodsLog == Maybe(Do("get", "Pod")) \o Do("get", "Pod")

\* A pod, its service when a port is given, its route on OpenShift.
PodsRun ==
    Check \o createOrUpdateOne("Pod")
    \o Maybe(createOrUpdateOne("Service")
             \o Maybe(createOrUpdateOne("Route")))

PodsTop == Check \o Either({Do("get", "PodMetrics"), Do("list", "PodMetrics")})

\* The stream is a GET (WebSocket), retried as a POST (SPDY) when the server
\* or a proxy refuses the upgrade; a completed pod is refused before.
PodsExec ==
    Do("get", "Pod") \o Check
    \o Attempt(Do("exec", "Pod"), Either({Do("execPost", "Pod"), Fail}))

NodesLog == Do("get", "Node") \o Do("get", "Node")
NodesStatsSummary == Do("get", "Node") \o Do("get", "Node")
NodesTop ==
    Check \o Either({Do("get", "NodeMetrics"), Do("list", "NodeMetrics")})
EventsList == ResourcesList("Event") \o Check
NamespacesList == ResourcesList("Namespace")
ProjectsList == ResourcesList("Project")

\* The kubeconfig is already in memory.
ConfigurationContextsDefault == Check
ConfigurationContextsList == Check
ConfigurationView == Check

-----------------------------------------------------------------------------
(* pkg/toolsets/core: handlers and their table.                            *)

podsListInAllNamespaces == Check \o PodsListInAllNamespaces
podsListInNamespace == Check \o PodsListInNamespace
podsGet == Check \o PodsGet
podsDelete == Check \o PodsDelete
podsTop == Check \o PodsTop
podsExec == Check \o PodsExec
podsLog == Check \o PodsLog
podsRun == Check \o PodsRun

pods_list == Reads("pods_list", podsListInAllNamespaces)
pods_list_in_namespace == Reads("pods_list_in_namespace", podsListInNamespace)
pods_get == Reads("pods_get", podsGet)
pods_delete == Destroys("pods_delete", podsDelete)
pods_top == Reads("pods_top", podsTop)
pods_exec == Destroys("pods_exec", podsExec)
pods_log == Reads("pods_log", podsLog)
pods_run == Adds("pods_run", podsRun)

initPods ==
    { pods_list, pods_list_in_namespace, pods_get, pods_delete, pods_top,
      pods_exec, pods_log, pods_run }

parseGroupVersionKind == Check
parseScaleValue == Check

resourcesList == parseGroupVersionKind \o Check \o ResourcesList(AnyKind)
resourcesGet == parseGroupVersionKind \o Check \o ResourcesGet(AnyKind)
resourcesCreateOrUpdate == Check \o ResourcesCreateOrUpdate(AnyKind)
resourcesDelete == parseGroupVersionKind \o Check \o ResourcesDelete(AnyKind)
\* The scale is printed after it was changed.
resourcesScale ==
    parseGroupVersionKind \o Check \o parseScaleValue \o ResourcesScale(AnyKind)
    \o Check

resources_list == Reads("resources_list", resourcesList)
resources_get == Reads("resources_get", resourcesGet)
resources_create_or_update ==
    Destroys("resources_create_or_update", resourcesCreateOrUpdate)
resources_delete == Destroys("resources_delete", resourcesDelete)
resources_scale == Destroys("resources_scale", resourcesScale)

initResources ==
    { resources_list, resources_get, resources_create_or_update,
      resources_delete, resources_scale }

nodesLog == Check \o NodesLog
nodesStatsSummary == Check \o NodesStatsSummary
nodesTop == Check \o NodesTop \o Do("list", "Node")

initNodes ==
    { Reads("nodes_log", nodesLog),
      Reads("nodes_stats_summary", nodesStatsSummary),
      Reads("nodes_top", nodesTop) }

namespacesList == Check \o NamespacesList
projectsList == ProjectsList

initNamespaces ==
    { Reads("namespaces_list", namespacesList),
      Reads("projects_list", projectsList) }

eventsList == Check \o EventsList

initEvents == { Reads("events_list", eventsList) }

-----------------------------------------------------------------------------
(* The cluster health check prompt: each part is best effort.               *)

gatherNodeDiagnostics == Do("list", "Node")
gatherPodDiagnostics == Do("list", "Pod")
gatherWorkloadDiagnostics(kind) == Do("list", kind)
gatherPVCDiagnostics == Do("list", "PersistentVolumeClaim")
gatherClusterOperatorDiagnostics == ResourcesList("ClusterOperator")

\* Without a namespace, the namespaces are listed to find OpenShift's.
gatherEventDiagnostics ==
    Maybe(Try("list", "Namespace")) \o Try("list", "Event")
    \o Each(Try("list", "Event"))

gatherClusterDiagnostics ==
    Section(gatherNodeDiagnostics) \o Section(gatherPodDiagnostics)
    \o Section(gatherWorkloadDiagnostics("Deployment"))
    \o Section(gatherWorkloadDiagnostics("StatefulSet"))
    \o Section(gatherWorkloadDiagnostics("DaemonSet"))
    \o Section(gatherPVCDiagnostics)
    \o Section(gatherClusterOperatorDiagnostics)
    \o Maybe(Section(gatherEventDiagnostics))
    \o Try("list", "Namespace")

clusterHealthCheckHandler ==
    Maybe(Try("get", "Namespace")) \o gatherClusterDiagnostics

initHealthChecks ==
    { Reads("cluster-health-check", clusterHealthCheckHandler) }

-----------------------------------------------------------------------------
(* pkg/toolsets/config.                                                    *)

contextsList == ConfigurationContextsList \o Maybe(ConfigurationContextsDefault)
targetsList == Check
configurationView == Check \o ConfigurationView \o Check

initConfiguration ==
    { Reads("configuration_contexts_list", contextsList),
      Reads("targets_list", targetsList),
      Reads("configuration_view", configurationView) }

-----------------------------------------------------------------------------
(* Node debug pods.                                                        *)

DoesNodeExist == ResourcesGet("Node") \o Check
validatePath == Check
createDebugPod == Temporary("Pod")

\* Polled every two seconds until it runs, fails or the time is up.
pollForRunning == Do("get", "Pod") \o Each(Do("get", "Pod")) \o Check

retrieveLogs == Detached("get", "Pod")

\* The deferred delete has a context of its own.
NodesDebugExec ==
    Check \o validatePath \o DoesNodeExist \o createDebugPod
    \o Finally(pollForRunning \o Attempt(PodsExec, retrieveLogs \o Fail),
               Cleanup("Pod"))

nodesDebugExec == Check \o NodesDebugExec

InitNodes == { Destroys("nodes_debug_exec", nodesDebugExec) }

CoreTools ==
    initPods \cup initResources \cup initNodes \cup initNamespaces
    \cup initEvents \cup initConfiguration \cup InitNodes

CorePrompts == initHealthChecks
=============================================================================
