----------------------- MODULE VirtualMachineHandlers -----------------------
(***************************************************************************)
(* The kubevirt toolset (pkg/toolsets/kubevirt) over pkg/kubevirt.          *)
(***************************************************************************)
EXTENDS CoreHandlers

\* Every tool is offered only where the VirtualMachine kind is served.
HasVirtualMachine(tools) ==
    {[tool EXCEPT !.requires = {"VirtualMachine"}] : tool \in tools}
HasVirtualMachineTemplate(tools) ==
    {[tool EXCEPT !.requires = {"VirtualMachineTemplate"}] : tool \in tools}

-----------------------------------------------------------------------------
(* pkg/kubevirt: virtual machines.                                         *)

GetVirtualMachine == Do("get", "VirtualMachine")
UpdateVirtualMachine == Do("update", "VirtualMachine")

\* Nothing is sent when the machine already has the wanted run strategy.
StartVM == GetVirtualMachine \o Check \o Maybe(UpdateVirtualMachine)
StopVM == GetVirtualMachine \o Check \o Maybe(UpdateVirtualMachine)

\* Halted, then Always: two updates.
RestartVM ==
    GetVirtualMachine \o UpdateVirtualMachine \o UpdateVirtualMachine

CloneVM == Do("create", "VirtualMachineClone")

\* A PUT on the instance, then the machine is read for the answer.
PauseVM == Check \o Do("update", "VirtualMachineInstance") \o GetVirtualMachine
UnpauseVM == Check \o Do("update", "VirtualMachineInstance") \o GetVirtualMachine

\* The template's create subresource makes the machine server-side; then the
\* answer is decoded.
CreateVMFromTemplate == Check \o Do("create", "VirtualMachineTemplate") \o Check

\* What is on offer, read without complaining.
collectDataSources ==
    Try("list", "DataSource") \o Try("list", "DataSource")
    \o Try("list", "DataSource")
SearchDataSources == collectDataSources
SearchPreferences ==
    Try("list", "VirtualMachineClusterPreference")
    \o Try("list", "VirtualMachinePreference")
SearchInstancetypes ==
    Try("list", "VirtualMachineClusterInstancetype")
    \o Try("list", "VirtualMachineInstancetype")

\* The subresources of the guest agent; all of them together fail only when
\* none could be read.
getVMISubresource == Check \o Do("get", "VirtualMachineInstance")
GetGuestOSInfo == getVMISubresource
GetFilesystemInfo == getVMISubresource
GetUserInfo == getVMISubresource
GetNetworkInfo == getVMISubresource
GetAllGuestInfo ==
    Section(GetGuestOSInfo) \o Section(GetFilesystemInfo)
    \o Section(GetUserInfo) \o Section(GetNetworkInfo) \o Check

-----------------------------------------------------------------------------
(* The tools.                                                              *)

parseNetworks == Check
parseCreateParameters == Check \o parseNetworks
renderVMYaml == Check

\* What was made is printed at the end, here and in the next two.
create ==
    parseCreateParameters \o SearchDataSources \o SearchPreferences
    \o SearchInstancetypes \o renderVMYaml
    \o Check \o createOrUpdateOne("VirtualMachine") \o Check

cloneVM == Check \o CloneVM \o Check

lifecycle ==
    Check \o Either({StartVM, StopVM, RestartVM, PauseVM, UnpauseVM, Fail})

extractParameters == Check
createFromTemplate == Check \o extractParameters \o CreateVMFromTemplate \o Check

validateVMI == Do("get", "VirtualMachineInstance") \o Check
fetchGuestInfo ==
    Either({GetGuestOSInfo, GetFilesystemInfo, GetUserInfo, GetNetworkInfo,
            GetAllGuestInfo, Fail})
guestInfo == Check \o validateVMI \o fetchGuestInfo

CloneTools == HasVirtualMachine({ Destroys("vm_clone", cloneVM) })
CreateTools == HasVirtualMachine({ Destroys("vm_create", create) })
GuestAgentTools == HasVirtualMachine({ Reads("vm_guest_info", guestInfo) })
LifecycleTools == HasVirtualMachine({ Destroys("vm_lifecycle", lifecycle) })
TemplateTools ==
    HasVirtualMachineTemplate(
        { Destroys("vm_create_from_template", createFromTemplate) })

-----------------------------------------------------------------------------
(* vm_troubleshoot: a report of what could be read, and its analysis.       *)

fetchVMStatus == Try("get", "VirtualMachine")
fetchVMIStatus == Try("get", "VirtualMachineInstance")

\* A claim is looked up when its data volume is gone.
fetchDataVolumeStatus ==
    Each(Try("get", "DataVolume") \o Maybe(Try("get", "PersistentVolumeClaim")))

fetchVirtLauncherPod == Try("list", "Pod")
fetchVirtLauncherPodLogs == Each(Section(PodsLog))
fetchEvents == Section(EventsList) \o Each(Section(EventsList))

listAvailableStorageClasses == Try("list", "StorageClass")
checkStorageClass ==
    Each(Try("get", "StorageClass") \o Maybe(listAvailableStorageClasses))
checkMigrationStatus == Try("list", "VirtualMachineInstanceMigration")
analyzeIssues == Maybe(checkStorageClass) \o checkMigrationStatus

troubleshoot ==
    Check \o fetchVMStatus \o fetchVMIStatus \o Maybe(fetchDataVolumeStatus)
    \o fetchVirtLauncherPod \o fetchVirtLauncherPodLogs \o fetchEvents
    \o analyzeIssues

TroubleshootTools == HasVirtualMachine({ Reads("vm_troubleshoot", troubleshoot) })

-----------------------------------------------------------------------------
(* The prompts.                                                            *)

fetchVirtualMachineStatus == Try("get", "VirtualMachine")
fetchVirtualMachineInstanceStatus == Try("get", "VirtualMachineInstance")
fetchLauncherPod == Try("list", "Pod")

\* The first log that cannot be read ends the section.
fetchLauncherPodLogs == Section(Each(PodsLog))
fetchVMEvents == Section(EventsList \o EventsList)

vmTroubleshootHandler ==
    Check \o fetchVirtualMachineStatus \o fetchVirtualMachineInstanceStatus
    \o fetchLauncherPod \o fetchLauncherPodLogs \o fetchVMEvents

initVMTroubleshoot == { Reads("vm-troubleshoot", vmTroubleshootHandler) }

\* The only prompt that needs the object it reports on.
discoverHyperConvergedCR == Do("list", "HyperConverged") \o Check
fetchComponentCR(kind) == Try("list", kind)
fetchManagedComponentStatus ==
    fetchComponentCR("KubeVirt") \o fetchComponentCR("CDI")
    \o fetchComponentCR("NetworkAddonsConfig")
fetchHCOEvents == Section(EventsList)

hcoStatusHandler ==
    discoverHyperConvergedCR \o fetchManagedComponentStatus \o fetchHCOEvents

initHCOStatus == { Reads("hco-status", hcoStatusHandler) }

\* Accepted, declined, not supported by the client, or an error; nothing is
\* sent to the cluster: the prompt answers with a document to apply.
requestEULAConsent == Either({<<>>, Return, Fail})
buildStaticPipelineRun == Check
windowsGoldenImageHandler ==
    Check \o requestEULAConsent \o buildStaticPipelineRun

initWindowsGoldenImage ==
    { Reads("windows-golden-image", windowsGoldenImageHandler) }

VirtualMachineTools ==
    CloneTools \cup CreateTools \cup GuestAgentTools \cup LifecycleTools
    \cup TemplateTools \cup TroubleshootTools

VirtualMachinePrompts ==
    initVMTroubleshoot \cup initHCOStatus \cup initWindowsGoldenImage
=============================================================================
