-------------------------- MODULE PlatformHandlers --------------------------
(***************************************************************************)
(* The Tekton, Helm, OADP and kcp toolsets and the must-gather plan.        *)
(***************************************************************************)
EXTENDS CoreHandlers

\* Where charts come from.
PlatformServices == {"ChartRegistry"}

-----------------------------------------------------------------------------
(* pkg/toolsets/tekton.                                                    *)

toParamValue == Check
parseParams == Each(toParamValue)

startPipeline ==
    Check \o Do("get", "Pipeline") \o parseParams \o Do("create", "PipelineRun")
startTask ==
    Check \o Do("get", "Task") \o parseParams \o Do("create", "TaskRun")

pipelineTools == { Adds("tekton_pipeline_start", startPipeline) }
taskTools == { Adds("tekton_task_start", startTask) }

restartTaskRun ==
    Check \o Do("get", "TaskRun") \o Check \o Do("create", "TaskRun")

\* A container whose log cannot be read is noted and skipped.
collectContainerLogs == Try("get", "Pod")
collectTaskRunLogsWithClient == Each(collectContainerLogs)
getTaskRunLogs ==
    Check \o Do("get", "TaskRun") \o Check \o collectTaskRunLogsWithClient

taskRunTools ==
    { Adds("tekton_taskrun_restart", restartTaskRun),
      Reads("tekton_taskrun_logs", getTaskRunLogs) }

restartPipelineRun == Do("get", "PipelineRun") \o Check \o Do("create", "PipelineRun")

\* A restart makes a new run, a cancellation is a patch.
pipelineRunLifecycle ==
    Check \o Either({restartPipelineRun, Do("patch", "PipelineRun"), Fail})

pipelineRunTaskRuns == Check \o Do("list", "TaskRun") \o Check
getPipelineRunLogs ==
    Check \o Do("get", "PipelineRun") \o pipelineRunTaskRuns \o Maybe(Return)
    \o Each(collectTaskRunLogsWithClient)

pipelineRunTools ==
    { Destroys("tekton_pipelinerun_lifecycle", pipelineRunLifecycle),
      Reads("tekton_pipelinerun_logs", getPipelineRunLogs) }

fetchPipelineRunForPrompt == Try("get", "PipelineRun")
fetchPipelineRunTaskRunsForPrompt == Section(pipelineRunTaskRuns)
fetchPipelineDefinitionForPrompt == Maybe(Try("get", "Pipeline"))
fetchPipelineRunLogsForPrompt == Each(Try("get", "Pod"))
fetchPipelineRunEventsForPrompt == Try("list", "Event") \o Each(Try("list", "Event"))
fetchPipelineRunPACRepositoriesForPrompt == Try("list", "Repository")
fetchTektonConfigsForPrompt == Try("list", "TektonConfig")

pipelineTroubleshootHandler ==
    Check \o fetchPipelineRunForPrompt \o fetchPipelineRunTaskRunsForPrompt
    \o fetchPipelineDefinitionForPrompt \o fetchPipelineRunLogsForPrompt
    \o fetchPipelineRunEventsForPrompt \o fetchPipelineRunPACRepositoriesForPrompt
    \o fetchTektonConfigsForPrompt

pipelineTroubleshootPrompts ==
    { Reads("pipeline-troubleshoot", pipelineTroubleshootHandler) }

-----------------------------------------------------------------------------
(* pkg/helm.  Helm's client passes no context on: its requests are not      *)
(* cancelled with the call and carry no MCP session.                        *)

\* URLs are oci or https, and of an allowed registry when there is a list.
validateChartReference == Check
newAction == Check

\* The release is a Secret: created before the resources, updated after them,
\* and updated to failed when something in between goes wrong.
performInstall ==
    Attempt(Maybe(Apart("create", "Resource")) \o Apart("get", "Resource")
            \o Apart("create", "Resource") \o Apart("update", "Secret"),
            Detached("update", "Secret") \o Fail)

\* A cancelled install answers at once and goes on behind the answer: the
\* call is followed to the end of the install, which may have been cancelled.
Install ==
    validateChartReference \o newAction \o Apart("read", "ChartRegistry")
    \o Check \o Apart("list", "Secret") \o Check \o Apart("create", "Secret")
    \o performInstall \o Check

List == newAction \o Apart("list", "Secret")

\* A release that is not there is not an error.
Uninstall ==
    newAction \o Apart("list", "Secret") \o Maybe(Return)
    \o Apart("update", "Secret") \o Apart("delete", "Resource")
    \o Apart("delete", "Secret")

helmInstall == Check \o Install
helmList == Check \o List
helmUninstall == Check \o Call(Uninstall)

initHelm ==
    { Adds("helm_install", helmInstall), Reads("helm_list", helmList),
      Destroys("helm_uninstall", helmUninstall) }

-----------------------------------------------------------------------------
(* pkg/toolsets/oadp: one prompt, every part best effort.                   *)

ListDataProtectionApplications == Do("list", "DataProtectionApplication")
ListBackupStorageLocations == Do("list", "BackupStorageLocation")
ListBackups == Do("list", "Backup")
GetBackup == Do("get", "Backup")
ListRestores == Do("list", "Restore")
GetRestore == Do("get", "Restore")

fetchDPAStatus == Section(ListDataProtectionApplications)
fetchBSLStatus == Section(ListBackupStorageLocations)
fetchRecentBackups == Section(ListBackups)
fetchBackupDetails == Section(GetBackup)
fetchRecentRestores == Section(ListRestores)
fetchRestoreDetails == Section(GetRestore)

\* Without the server's pods there is no point in listing the agents'.
fetchVeleroPods == Section(Do("list", "Pod") \o Try("list", "Pod"))
fetchVeleroPodLogs == Each(Section(PodsLog))
fetchOADPEvents == Section(EventsList)

oadpTroubleshootHandler ==
    fetchDPAStatus \o fetchBSLStatus \o fetchVeleroPods \o fetchVeleroPodLogs
    \o fetchOADPEvents \o Either({fetchBackupDetails, fetchRecentBackups})
    \o Either({fetchRestoreDetails, fetchRecentRestores})

initOADPTroubleshoot == { Reads("oadp-troubleshoot", oadpTroubleshootHandler) }

-----------------------------------------------------------------------------
(* pkg/toolsets/kcp over pkg/kcp.                                          *)

\* The walk skips a workspace whose children it cannot list.
DiscoverWorkspacesRecursive ==
    Try("list", "Workspace") \o Each(Try("list", "Workspace"))
ListWorkspaces == DiscoverWorkspacesRecursive
DescribeWorkspace == Do("get", "Workspace")
workspacesList == ListWorkspaces
workspaceDescribe == Check \o DescribeWorkspace \o Check

initWorkspaceTools ==
    { Reads("kcp_workspaces_list", workspacesList),
      Reads("kcp_workspace_describe", workspaceDescribe) }

-----------------------------------------------------------------------------
(* pkg/ocp/mustgather: the plan is a text, nothing of it is applied.        *)

getComponentImages ==
    Do("list", "ClusterOperator") \o Check
    \o Do("list", "ClusterServiceVersion") \o Check

\* Commands, registries and the number of images (at most eight) are checked;
\* the access reviews of the five rights the plan needs only add warnings.
validatePlan == Check \o Maybe(getComponentImages) \o Check
namespaceExists == Section(ResourcesGet("Namespace"))
allowChecks == canIUse \o canIUse \o canIUse \o canIUse \o canIUse
PlanMustGather == validatePlan \o namespaceExists \o allowChecks
planMustGatherHandler == PlanMustGather

MustGatherPrompts == { Reads("plan_mustgather", planMustGatherHandler) }

PlatformTools ==
    pipelineTools \cup taskTools \cup taskRunTools \cup pipelineRunTools
    \cup initHelm \cup initWorkspaceTools

PlatformPrompts ==
    pipelineTroubleshootPrompts \cup initOADPTroubleshoot \cup MustGatherPrompts
=============================================================================
