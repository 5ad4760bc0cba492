-------------------------- MODULE MCToolsetReload --------------------------
(***************************************************************************)
(* ToolsetReload with the surfaces that ToolSurface computes for three      *)
(* configurations and two provider states.                                  *)
(***************************************************************************)
EXTENDS ToolsetReload, ToolSurface

Tool(name, readOnly, list) ==
    [name |-> name, readOnly |-> readOnly, destructive |-> FALSE,
     clusterAware |-> ~ list, targetListProvider |-> list, requires |-> {},
     description |-> "own", properties |-> {}, broken |-> FALSE]

Template == [name |-> "run", broken |-> FALSE]

\* One writing tool and the two list tools; a toolset whose template does not
\* convert.
MCToolset ==
    [core |-> [tools |-> <<Tool("run", FALSE, FALSE)>>,
               prompts |-> << >>, resources |-> << >>, templates |-> <<Template>>],
     config |-> [tools |-> <<Tool("configuration_contexts_list", TRUE, TRUE),
                             Tool("targets_list", TRUE, TRUE)>>,
                 prompts |-> <<[name |-> "run", clusterAware |-> TRUE,
                                arguments |-> {}, broken |-> FALSE]>>,
                 resources |-> << >>, templates |-> << >>],
     broken |-> [tools |-> << >>, prompts |-> << >>, resources |-> << >>,
                 templates |-> <<[Template EXCEPT !.broken = TRUE]>>]]

Settings(readOnly, names) ==
    [ReadOnly |-> readOnly, DisableDestructive |-> FALSE,
     EnabledTools |-> NoList, DisabledTools |-> NoList,
     CompatibilityFilters |-> FALSE, ToolOverrides |-> {},
     Toolsets |-> names, Prompts |-> << >>]

\* "rw" exposes the writing tool, "ro" only lists, "bad" does not convert.
Setting == [rw |-> Settings(FALSE, <<"core">>),
            ro |-> Settings(TRUE, <<"core", "config">>),
            bad |-> Settings(FALSE, <<"config", "broken">>)]
MCConfig == {"rw", "ro", "bad"}

Provider == [one |-> [parameter |-> "context", multi |-> FALSE, default |-> "t1",
                      capabilities |-> {}],
             two |-> [parameter |-> "context", multi |-> TRUE, default |-> "t1",
                      capabilities |-> {}]]
MCTarget == {"one", "two"}

\* The tool "run", and the same name for the one item of each other kind.
MCName == {"run", "configuration_contexts_list"}

Collected(c, t, k) ==
    CASE k = 1 -> CollectApplicableTools(Setting[c], Provider[t])
      [] k = 2 -> CollectApplicablePrompts(Setting[c], Provider[t])
      [] k = 3 -> CollectApplicableResources(Setting[c])
      [] k = 4 -> CollectApplicableResourceTemplates(Setting[c])

Table == [c \in MCConfig, t \in MCTarget, k \in Kind, n \in MCName |->
            LET items == Collected(c, t, k)
            IN  IF n \in ItemNames(items) THEN RegisteredAs(items, n) ELSE Nil]

MCSurface(c, t, k, n) == Table[c, t, k, n]
MCItem == {Table[i] : i \in DOMAIN Table} \ {Nil}
MCBad == {i \in MCItem : i.broken}
MCValid(c) == TRUE
=============================================================================
