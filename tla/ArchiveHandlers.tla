-------------------------- MODULE ArchiveHandlers --------------------------
(***************************************************************************)
(* The must-gather toolset (pkg/toolsets/mustgather) over a loaded archive  *)
(* (pkg/ocp/mustgather).  The index of resources is in memory; logs, etcd   *)
(* and monitoring data are read from the archive's files at every call, and *)
(* a cancelled call does not stop that.                                     *)
(***************************************************************************)
EXTENDS HandlerCode

\* The directory of the archive.
ArchiveServices == {"Archive"}

\* A file whose absence is an error, and one that may be missing.
ReadFile == Apart("read", "Archive")
MayReadFile == Detached("read", "Archive")

-----------------------------------------------------------------------------
(* pkg/ocp/mustgather.                                                     *)

\* Whatever cannot be read or parsed is skipped: no path fails to load.
Load ==
    MayReadFile \o Each(MayReadFile)

ListResources == Check
ListPodContainers == ReadFile
GetPodLogPath == Maybe(ListPodContainers \o Check) \o ReadFile
GetPodLog == GetPodLogPath \o ReadFile
GetNodeDiagnostics == ReadFile \o Each(MayReadFile)
GetETCDHealth == ReadFile \o Check \o MayReadFile
GetETCDObjectCount == ReadFile \o Check
GetPrometheusTSDB == ReadFile \o Check
GetPrometheusRuntimeInfo == ReadFile \o Check
GetPrometheusActiveTargets == ReadFile \o Check
GetPrometheusRules == ReadFile \o Check

-----------------------------------------------------------------------------
(* pkg/toolsets/mustgather.                                                *)

\* An archive must have been loaded, by this or by another session.
getProvider == Check

mustgatherUse == Check \o Load
mustgatherResourcesList == getProvider \o Check \o ListResources
mustgatherEventsList == getProvider \o ListResources
mustgatherEventsByResource == getProvider \o Check \o ListResources
mustgatherEventsByTime == getProvider \o Check \o ListResources
mustgatherPodLogsGet == getProvider \o Check \o GetPodLog
mustgatherPodLogsByTime ==
    getProvider \o Check \o GetPodLogPath \o ReadFile \o Check
mustgatherPodLogsSearch ==
    getProvider \o Check \o GetPodLogPath \o ReadFile \o Check
mustgatherNodeDiagnosticsGet == getProvider \o Check \o GetNodeDiagnostics
mustgatherNodeKubeletLogs ==
    getProvider \o Check \o GetNodeDiagnostics \o Check
mustgatherNodeKubeletLogsGrep ==
    getProvider \o Check \o GetNodeDiagnostics \o Check
mustgatherETCDHealth == getProvider \o GetETCDHealth
mustgatherETCDObjectCount == getProvider \o GetETCDObjectCount

\* A replica without data is noted and skipped.
mustgatherMonitoringPrometheusStatus ==
    getProvider \o Each(Section(GetPrometheusRuntimeInfo)
                        \o Section(GetPrometheusTSDB))
mustgatherMonitoringPrometheusTargets ==
    getProvider \o GetPrometheusActiveTargets
mustgatherMonitoringPrometheusTSDB ==
    getProvider \o Each(Section(GetPrometheusTSDB))
mustgatherMonitoringPrometheusAlerts == getProvider \o GetPrometheusRules
mustgatherMonitoringPrometheusRules == getProvider \o GetPrometheusRules

initUse == { Reads("mustgather_use", mustgatherUse) }
initArchiveResources ==
    { Reads("mustgather_resources_list", mustgatherResourcesList) }
initArchiveEvents ==
    { Reads("mustgather_events_list", mustgatherEventsList),
      Reads("mustgather_events_by_resource", mustgatherEventsByResource),
      Reads("mustgather_events_by_time", mustgatherEventsByTime) }
initPodLogs ==
    { Reads("mustgather_pod_logs_get", mustgatherPodLogsGet),
      Reads("mustgather_pod_logs_grep", mustgatherPodLogsSearch),
      Reads("mustgather_pod_logs_by_time", mustgatherPodLogsByTime) }
initArchiveNodes ==
    { Reads("mustgather_node_diagnostics_get", mustgatherNodeDiagnosticsGet),
      Reads("mustgather_node_kubelet_logs", mustgatherNodeKubeletLogs),
      Reads("mustgather_node_kubelet_logs_grep", mustgatherNodeKubeletLogsGrep) }
initEtcd ==
    { Reads("mustgather_etcd_health", mustgatherETCDHealth),
      Reads("mustgather_etcd_object_count", mustgatherETCDObjectCount) }
initMonitoring ==
    { Reads("mustgather_monitoring_prometheus_status",
            mustgatherMonitoringPrometheusStatus),
      Reads("mustgather_monitoring_prometheus_targets",
            mustgatherMonitoringPrometheusTargets),
      Reads("mustgather_monitoring_prometheus_tsdb",
            mustgatherMonitoringPrometheusTSDB),
      Reads("mustgather_monitoring_prometheus_alerts",
            mustgatherMonitoringPrometheusAlerts),
      Reads("mustgather_monitoring_prometheus_rules",
            mustgatherMonitoringPrometheusRules) }

ArchiveTools ==
    initUse \cup initArchiveResources \cup initArchiveEvents \cup initPodLogs
    \cup initArchiveNodes \cup initEtcd \cup initMonitoring
=============================================================================
