-------------------------- MODULE NetworkHandlers --------------------------
(***************************************************************************)
(* The networking toolsets: CNI diagnostics (kernel and network tools), OVS *)
(* and OVN, and netedge.  All but exec_dns_in_pod are annotated read-only.  *)
(***************************************************************************)
EXTENDS CoreHandlers

\* Services the server calls directly.
NetworkServices == {"DNS", "HTTP", "Prometheus"}

-----------------------------------------------------------------------------
(* pkg/toolsets/cni-diagnostics: a command in a debug pod on a node.        *)

\* Head, tail and timeout limits of the arguments.
ValidateHeadTail == Check
ValidateTimeout == Check

\* conntrack is looked for on the node first; without it the table is read
\* from /proc, in a second debug pod either way.
conntrackHandler ==
    Check \o ValidateHeadTail \o ValidateTimeout
    \o Section(NodesDebugExec) \o NodesDebugExec
iptablesHandler == Check \o ValidateHeadTail \o ValidateTimeout \o NodesDebugExec
nftHandler == Check \o ValidateHeadTail \o ValidateTimeout \o NodesDebugExec
ipHandler == Check \o ValidateHeadTail \o ValidateTimeout \o NodesDebugExec

initConntrackTool == { Reads("get-conntrack", conntrackHandler) }
initIPtablesTool == { Reads("get-iptables", iptablesHandler) }
initNFTTool == { Reads("get-nft", nftHandler) }
initIPTool == { Reads("get-ip", ipHandler) }

\* On a node through a debug pod, in a pod through exec.
tcpdumpHandler == Check \o ValidateTimeout \o Either({NodesDebugExec, PodsExec})
pwruHandler == Check \o ValidateTimeout \o NodesDebugExec

initTcpdumpTool == { Reads("tcpdump", tcpdumpHandler) }
initPwruTool == { Reads("pwru", pwruHandler) }

InitKernelTools ==
    initConntrackTool \cup initIPtablesTool \cup initNFTTool \cup initIPTool
InitNetworkTools == initTcpdumpTool \cup initPwruTool

-----------------------------------------------------------------------------
(* pkg/toolsets/ovnkubernetes: commands in the pods of the network plugin.  *)

optionalStringSlice == Check

ovsVsctl == Check \o optionalStringSlice \o PodsExec
ovsOfctl == Check \o optionalStringSlice \o PodsExec
ovsAppctl == Check \o optionalStringSlice \o PodsExec

ovs_vsctl == Reads("ovs_vsctl", ovsVsctl)
ovs_ofctl == Reads("ovs_ofctl", ovsOfctl)
ovs_appctl == Reads("ovs_appctl", ovsAppctl)
OvsTools == { ovs_vsctl, ovs_ofctl, ovs_appctl }

containerForDatabase == Check

ovnShow == Check \o containerForDatabase \o PodsExec
ovnGet == Check \o containerForDatabase \o PodsExec
ovnLFlowList == Check \o PodsExec
ovnTrace == Check \o PodsExec

ovn_show == Reads("ovn_show", ovnShow)
ovn_get == Reads("ovn_get", ovnGet)
ovn_lflow_list == Reads("ovn_lflow_list", ovnLFlowList)
ovn_trace == Reads("ovn_trace", ovnTrace)
OvnTools == { ovn_show, ovn_get, ovn_lflow_list, ovn_trace }

-----------------------------------------------------------------------------
(* pkg/toolsets/netedge.                                                   *)

getCoreDNSConfig == Do("get", "ConfigMap") \o Check
getServiceEndpoints == Check \o Do("list", "EndpointSlice") \o Check
inspectRoute == Check \o Do("get", "Route") \o Check

\* Polled until the pod succeeded or failed, or the time is up.
WaitForPod == Do("get", "Pod") \o Each(Do("get", "Pod")) \o Check
GetPodLogs == Try("get", "Pod")

\* The delete is deferred right after the create, with its own context.
execDNSInPod ==
    Check \o Temporary("Pod")
    \o Finally(WaitForPod \o GetPodLogs, Cleanup("Pod"))

\* Sent by the server itself.
probeDNSLocal == Check \o Do("read", "DNS")

\* The client chooses the method and the URL.
probeHTTP == Check \o Either({Do("read", "HTTP"), Do("change", "HTTP")})

getRouteURL == Do("get", "Route") \o Check

\* The queries of a target run side by side; each reports its own error.
handleDiagnosticTarget ==
    Check \o getRouteURL
    \o Try("read", "Prometheus") \o Each(Try("read", "Prometheus"))
queryPrometheusHandler == Check \o handleDiagnosticTarget

\* Any pod of the router, unless the client names one.
getAnyRouterPod == Do("list", "Pod") \o Check
getRouterConfig == Check \o Maybe(getAnyRouterPod) \o PodsExec
getRouterInfo == Check \o Maybe(getAnyRouterPod) \o PodsExec
getRouterSessions == Check \o Maybe(getAnyRouterPod) \o PodsExec

initCoreDNS == { Reads("get_coredns_config", getCoreDNSConfig) }
initEndpoints == { Reads("get_service_endpoints", getServiceEndpoints) }
initExecDNSInPodWith == { Adds("exec_dns_in_pod", execDNSInPod) }
initProbeDNSLocalWith == { Reads("probe_dns_local", probeDNSLocal) }
initProbeHTTPWith == { Reads("probe_http", probeHTTP) }
InitQueryPrometheus == { Reads("query_prometheus", queryPrometheusHandler) }
initRoutes == { Reads("inspect_route", inspectRoute) }
initRouter ==
    { Reads("get_router_config", getRouterConfig),
      Reads("get_router_info", getRouterInfo),
      Reads("get_router_sessions", getRouterSessions) }

NetEdgeTools ==
    initCoreDNS \cup initEndpoints \cup initExecDNSInPodWith
    \cup initProbeDNSLocalWith \cup initProbeHTTPWith
    \cup InitQueryPrometheus \cup initRoutes \cup initRouter

NetworkTools ==
    InitKernelTools \cup InitNetworkTools \cup OvsTools \cup OvnTools
    \cup NetEdgeTools
=============================================================================
