---------------------------- MODULE Confirmation ----------------------------
(***************************************************************************)
(* Confirmation rules (pkg/api/confirmation.go, pkg/confirmation): a rule   *)
(* is a record of strings, empty where the configuration sets no field.     *)
(* The two halves of a rule never mix: Validate refuses such a rule.        *)
(***************************************************************************)
ToolFields == {"tool", "destructive"}
KubeFields == {"verb", "kind", "group", "version", "name", "namespace"}

\* A rule that sets the given fields only.
Rule(set) ==
    [f \in ToolFields \cup KubeFields |-> IF f \in DOMAIN set THEN set[f] ELSE ""]

-----------------------------------------------------------------------------
(* Plausible mistakes, used to show that the properties notice them.        *)

\* One matching field is enough.
MatchesAnyField(rule, fields, subject) ==
    \E f \in fields : rule[f] = subject[f]

\* An error of the elicitation is taken for a missing capability.
ErrorsFallBack(fallback, session, supported) ==
    CASE session /\ supported -> "ask"
      [] OTHER -> IF fallback = "deny" THEN "refuse" ELSE "accept"

-----------------------------------------------------------------------------
IsToolLevel(rule) == \E f \in ToolFields : rule[f] # ""
IsKubeLevel(rule) == \E f \in KubeFields : rule[f] # ""

\* Exactly one of the two halves is set.
Validate(rule) == IsToolLevel(rule) # IsKubeLevel(rule)

\* All the fields a rule sets are those of the subject.
Matches(rule, fields, subject) ==
    \A f \in fields : rule[f] \in {"", subject[f]}

\* An unset destructiveHint equals neither value of a rule.
MatchToolLevelRules(rules, tool) ==
    {rule \in rules : IsToolLevel(rule) /\ Matches(rule, ToolFields, tool)}

MatchKubeLevelRules(rules, request) ==
    {rule \in rules : IsKubeLevel(rule) /\ Matches(rule, KubeFields, request)}

\* CheckConfirmation with the elicitors of pkg/mcp and pkg/kubernetes: whether
\* the user is asked, and what happens when he cannot be.  A context without
\* the MCP session is an error, which only a client without elicitation
\* is not: that one takes the fallback.
CheckConfirmation(fallback, session, supported) ==
    CASE ~ session -> "refuse"
      [] session /\ supported -> "ask"
      [] OTHER -> IF fallback = "deny" THEN "refuse" ELSE "accept"
=============================================================================
