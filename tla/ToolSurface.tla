---------------------------- MODULE ToolSurface ----------------------------
(***************************************************************************)
(* Which tools, prompts, resources and resource templates a configuration   *)
(* exposes (collectApplicableX in pkg/mcp/mcp.go): the mutators, the        *)
(* filters and the prompt merge, as operators on records.                   *)
(*                                                                         *)
(* A configuration c is a record of the StaticConfig fields these functions *)
(* read; EnabledTools and DisabledTools are NoList (a nil slice) or a set   *)
(* of names.  A provider state p is what the functions ask the provider:    *)
(* the target parameter name, whether it is multi-target, its default       *)
(* target and which cluster capabilities the compatibility filters find.    *)
(***************************************************************************)
EXTENDS SequencesExt

CONSTANTS Toolset,      \* toolset name -> the sequences of its items
          NoList        \* a nil slice in the configuration

\* KubeConfigTargetParameterName and TargetsListToolName.
ContextParameter == "context"
TargetsListToolName == "targets_list"

\* The name WithTargetListTool gives the generic list tool for a provider.
MutatedTargetsListName(parameter) ==
    CASE parameter = ContextParameter -> "context_list"
      [] parameter = "cluster" -> "cluster_list"
      [] parameter = "workspace" -> "workspace_list"
      [] OTHER -> "_list"

-----------------------------------------------------------------------------
(* Plausible mistakes in this code, used to show that the properties checked *)
(* of it notice them.                                                        *)

\* Every target list tool is renamed, not only the generic one.
RenamesEveryList(p, tool) ==
    IF tool.targetListProvider
    THEN [tool EXCEPT !.name = MutatedTargetsListName(p.parameter),
                      !.description = "list"]
    ELSE tool

\* The generic list tool is not hidden from the kubeconfig provider.
BothListTools(p, tool) ==
    \/ ~ tool.targetListProvider
    \/ p.multi

\* An empty enabled_tools list is taken for a missing one.
EmptyListIsNoList(c, p, tool) ==
    /\ c.ReadOnly => tool.readOnly
    /\ c.DisableDestructive => ~ tool.destructive
    /\ c.EnabledTools \notin {NoList, {}} => tool.name \in c.EnabledTools
    /\ c.DisabledTools # NoList => tool.name \notin c.DisabledTools
    /\ c.CompatibilityFilters => tool.requires \subseteq p.capabilities

\* The filter forgets read_only; it forgets disable_destructive.
IgnoresReadOnly(c, p, tool) ==
    /\ c.DisableDestructive => ~ tool.destructive
    /\ c.EnabledTools # NoList => tool.name \in c.EnabledTools
    /\ c.DisabledTools # NoList => tool.name \notin c.DisabledTools
    /\ c.CompatibilityFilters => tool.requires \subseteq p.capabilities
IgnoresDestructive(c, p, tool) ==
    /\ c.ReadOnly => tool.readOnly
    /\ c.EnabledTools # NoList => tool.name \in c.EnabledTools
    /\ c.DisabledTools # NoList => tool.name \notin c.DisabledTools
    /\ c.CompatibilityFilters => tool.requires \subseteq p.capabilities

-----------------------------------------------------------------------------
(* Mutators, in the order ComposeMutators applies them.                    *)

WithTargetParameter(p, tool) ==
    IF tool.clusterAware /\ p.multi
    THEN [tool EXCEPT !.properties = @ \cup {<<p.parameter, p.default>>}]
    ELSE tool

WithTargetListTool(p, tool) ==
    IF tool.name = TargetsListToolName
    THEN [tool EXCEPT !.name = MutatedTargetsListName(p.parameter),
                      !.description = "list"]
    ELSE tool

WithToolOverrides(c, tool) ==
    IF tool.name \in c.ToolOverrides
    THEN [tool EXCEPT !.description = "override"]
    ELSE tool

Mutate(c, p, tool) ==
    WithToolOverrides(c, WithTargetListTool(p, WithTargetParameter(p, tool)))

-----------------------------------------------------------------------------
(* Filters, on the mutated tool.                                           *)

IsToolApplicable(c, p, tool) ==
    /\ c.ReadOnly => tool.readOnly
    /\ c.DisableDestructive => ~ tool.destructive
    /\ c.EnabledTools # NoList => tool.name \in c.EnabledTools
    /\ c.DisabledTools # NoList => tool.name \notin c.DisabledTools
    /\ c.CompatibilityFilters => tool.requires \subseteq p.capabilities

ShouldIncludeTargetListTool(p, tool) ==
    \/ ~ tool.targetListProvider
    \/ /\ p.multi
       /\ tool.name = "configuration_contexts_list" =>
             p.parameter = ContextParameter
       /\ tool.name = MutatedTargetsListName(p.parameter) =>
             p.parameter # ContextParameter

\* The items of all toolsets of the configuration, in its order.
Offered(c, field) ==
    FlattenSeq([i \in DOMAIN c.Toolsets |-> Toolset[c.Toolsets[i]][field]])

\* The tools that pass both filters, each at its position among the offered.
CollectApplicableTools(c, p) ==
    LET offered == Offered(c, "tools")
        mutated == [i \in DOMAIN offered |-> Mutate(c, p, offered[i])]
        kept == {i \in DOMAIN offered : /\ IsToolApplicable(c, p, mutated[i])
                                        /\ ShouldIncludeTargetListTool(p, mutated[i])}
    IN  [i \in kept |-> mutated[i]]

-----------------------------------------------------------------------------
(* Prompts: the toolsets' prompts, then the configuration's, which win.     *)

ItemNames(items) == {items[i].name : i \in DOMAIN items}

WithPromptTargetParameter(p, prompt) ==
    IF prompt.clusterAware /\ p.multi
    THEN [prompt EXCEPT !.arguments = @ \cup {<<p.parameter, p.default>>}]
    ELSE prompt

MergePrompts(base, override) ==
    LET Kept(prompt) == prompt.name \notin ItemNames(override)
    IN  SelectSeq(base, Kept) \o override

CollectApplicablePrompts(c, p) ==
    LET offered == Offered(c, "prompts")
    IN  MergePrompts([i \in DOMAIN offered |->
                        WithPromptTargetParameter(p, offered[i])],
                     c.Prompts)

\* No filter and no mutator is installed for resources and templates.
CollectApplicableResources(c) == Offered(c, "resources")

CollectApplicableResourceTemplates(c) == Offered(c, "templates")

\* The item an SDK registry ends with under name n: a later AddTool, AddPrompt
\* ... replaces an earlier one of the same name.
RegisteredAs(items, n) ==
    items[CHOOSE i \in DOMAIN items :
            /\ items[i].name = n
            /\ \A j \in DOMAIN items : items[j].name = n => j <= i]

=============================================================================
