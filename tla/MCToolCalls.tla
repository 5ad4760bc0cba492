---------------------------- MODULE MCToolCalls ----------------------------
EXTENDS HandlerDisciplines, NetworkHandlers, VirtualMachineHandlers,
        PlatformHandlers, ServiceHandlers, ArchiveHandlers

\* Every setting one at a time, starting from the default configuration.
Default == [ReadOnly |-> FALSE, DisableDestructive |-> FALSE,
            EnabledTools |-> NoList, DisabledTools |-> NoList,
            CompatibilityFilters |-> FALSE, Rules |-> {},
            Fallback |-> "allow", Denied |-> {}, Validation |-> FALSE]

MCSettings ==
    { Default,
      [Default EXCEPT !.ReadOnly = TRUE],
      [Default EXCEPT !.DisableDestructive = TRUE, !.Validation = TRUE],
      [Default EXCEPT !.Denied = {"Pod", "Service"}],
      [Default EXCEPT !.Fallback = "deny",
                      !.Rules = {Rule([destructive |-> "true"]),
                                 Rule([verb |-> "patch"]),
                                 Rule([kind |-> "Service"])}],
      [Default EXCEPT !.Rules = {Rule([tool |-> "pods_list"]),
                                 Rule([verb |-> "create", kind |-> "Pod"])}] }

AllTools ==
    CoreTools \cup NetworkTools \cup VirtualMachineTools \cup PlatformTools
    \cup MeshTools \cup FlowTools \cup ArchiveTools
AllPrompts ==
    CorePrompts \cup VirtualMachinePrompts \cup PlatformPrompts \cup MeshPrompts
AllServices ==
    NetworkServices \cup PlatformServices \cup MeshServices \cup ArchiveServices

\* Deleting a pod needs the user's consent.
ConfirmDeletes ==
    { [Default EXCEPT !.Rules = {Rule([verb |-> "delete", kind |-> "Pod"])}] }
ReadOnly == { [Default EXCEPT !.ReadOnly = TRUE] }
=============================================================================
