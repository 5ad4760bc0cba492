-------------------------- MODULE ServiceHandlers --------------------------
(***************************************************************************)
(* The toolsets that talk to another service than the API server: Kiali     *)
(* (the service mesh toolset) and the NetObserv console plugin.             *)
(***************************************************************************)
EXTENDS HandlerCode

MeshServices == {"Kiali", "NetObserv"}

-----------------------------------------------------------------------------
(* pkg/kiali.                                                              *)

\* The endpoint is joined to the configured base URL, never an absolute one.
validateAndGetURL == Check
createHTTPClient == Check

\* Every call is a POST; whether it changes anything depends on the endpoint.
\* The size and the status of the answer are checked.
ExecuteRequest(verb) ==
    validateAndGetURL \o Check \o createHTTPClient \o Do(verb, "Kiali") \o Check

workloadLogsHandler == ExecuteRequest("read")
getMeshStatusHandler == ExecuteRequest("read")
getMeshGraphHandler == ExecuteRequest("read")
resourceMetricsHandler == ExecuteRequest("read")
getPodPerformanceHandler == ExecuteRequest("read")
tracesHandler == ExecuteRequest("read")
listMeshClustersHandler == ExecuteRequest("read")
listOrGetResourcesHandler == ExecuteRequest("read")
listTracesHandler == ExecuteRequest("read")
istioConfigHandler == ExecuteRequest("change")
istioConfigHandlerRead == ExecuteRequest("read")

InitGetLogs == { Reads("get_logs", workloadLogsHandler) }
InitGetMeshStatus == { Reads("get_mesh_status", getMeshStatusHandler) }
InitGetMeshTrafficGraph ==
    { Reads("get_mesh_traffic_graph", getMeshGraphHandler) }
InitGetMetrics == { Reads("get_metrics", resourceMetricsHandler) }
InitGetPodPerformance ==
    { Reads("get_pod_performance", getPodPerformanceHandler) }
InitGetTraceDetails == { Reads("get_trace_details", tracesHandler) }
InitListMeshClusters == { Reads("list_mesh_clusters", listMeshClustersHandler) }
InitListOrGetResources ==
    { Reads("get_resource_details", listOrGetResourcesHandler) }
InitListTraces == { Reads("list_traces", listTracesHandler) }
InitManageIstioConfig == { Destroys("manage_istio_config", istioConfigHandler) }
InitManageIstioConfigRead ==
    { Reads("manage_istio_config_read", istioConfigHandlerRead) }

MeshTools ==
    InitGetLogs \cup InitGetMeshStatus \cup InitGetMeshTrafficGraph
    \cup InitGetMetrics \cup InitGetPodPerformance \cup InitGetTraceDetails
    \cup InitListMeshClusters \cup InitListOrGetResources \cup InitListTraces
    \cup InitManageIstioConfig \cup InitManageIstioConfigRead

-----------------------------------------------------------------------------
(* The mesh prompts: those about one answer need it, the others report.     *)

fetchKialiData == Section(ExecuteRequest("read"))

\* "all" asks Kiali for the namespaces; a list is taken as it is.
discoverNamespaces == ExecuteRequest("read") \o Check
resolveNamespaces == Maybe(discoverNamespaces)

listResourceHandler == ExecuteRequest("read")
listIstioConfigHandler == ExecuteRequest("read")
meshTopologyHandler ==
    fetchKialiData \o discoverNamespaces \o fetchKialiData
meshHealthCheckHandler == ExecuteRequest("read")
istioConfigReviewHandler == Check \o fetchKialiData \o fetchKialiData
serviceTroubleshootHandler == Check \o fetchKialiData \o fetchKialiData
traceAnalysisHandler == Check \o fetchKialiData \o fetchKialiData
trafficTopologyHandler == Check \o resolveNamespaces \o ExecuteRequest("read")

InitListApplications == { Reads("mesh-list-applications", listResourceHandler) }
InitListNamespaces == { Reads("mesh-list-namespaces", listResourceHandler) }
InitListServices == { Reads("mesh-list-services", listResourceHandler) }
InitListWorkloads == { Reads("mesh-list-workloads", listResourceHandler) }
InitListIstioConfig == { Reads("list-istio-config", listIstioConfigHandler) }
InitMeshTopology == { Reads("mesh-topology", meshTopologyHandler) }
InitMeshHealthCheck == { Reads("mesh-health-check", meshHealthCheckHandler) }
InitIstioConfigReview ==
    { Reads("istio-config-review", istioConfigReviewHandler) }
InitServiceTroubleshoot ==
    { Reads("service-troubleshoot", serviceTroubleshootHandler) }
InitTraceAnalysis == { Reads("trace-analysis", traceAnalysisHandler) }
InitTrafficTopology == { Reads("traffic-topology", trafficTopologyHandler) }

MeshPrompts ==
    InitListApplications \cup InitListNamespaces \cup InitListServices
    \cup InitListWorkloads \cup InitListIstioConfig \cup InitMeshTopology
    \cup InitMeshHealthCheck \cup InitIstioConfigReview
    \cup InitServiceTroubleshoot \cup InitTraceAnalysis
    \cup InitTrafficTopology

-----------------------------------------------------------------------------
(* pkg/netobserv.                                                          *)

pluginURL == Check
pluginHTTPClient == Check

\* A GET; too large an answer is an error, or cut when it is an export.
executeGetAbsolute == pluginHTTPClient \o Do("read", "NetObserv") \o Check
ExecuteGet == pluginURL \o executeGetAbsolute
ExecuteGetAccept == pluginURL \o executeGetAbsolute

listFlowsHandler == ExecuteGet
getFlowMetricsHandler == ExecuteGet
exportFlowsHandler == ExecuteGetAccept

InitListFlows == { Reads("netobserv_list_flows", listFlowsHandler) }
InitGetFlowMetrics ==
    { Reads("netobserv_get_flow_metrics", getFlowMetricsHandler) }
InitExportFlows == { Reads("netobserv_export_flows", exportFlowsHandler) }

FlowTools == InitListFlows \cup InitGetFlowMetrics \cup InitExportFlows
=============================================================================
