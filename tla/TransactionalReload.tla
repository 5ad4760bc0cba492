------------------------ MODULE TransactionalReload ------------------------
(***************************************************************************)
(* What mcp.Server promises about its configuration, with no tools, no     *)
(* locks and no phases: one configuration is installed at a time; a        *)
(* submitted candidate is answered once, either by being installed or by   *)
(* being dropped; re-applying the installed configuration (the provider's  *)
(* WatchTargets callback) never changes which one is installed; and a      *)
(* tool call only ever reads a configuration that was installed.           *)
(* ToolsetReload is shown to implement this specification.                 *)
(***************************************************************************)

CONSTANTS Config,   \* configurations that can be read from disk
          Caller,   \* goroutines that reload or re-apply
          Call,     \* concurrent tool calls
          Nil       \* the nil *Configuration / no value

VARIABLES installed,  \* the live configuration
          ask,        \* ask[p]: p's unanswered candidate, or Nil
          seen        \* seen[h]: the configuration h's snapshot holds, or Nil

vars == <<installed, ask, seen>>

Init == /\ installed \in Config
        /\ ask = [p \in Caller |-> Nil]
        /\ seen = [h \in Call |-> Nil]

\* ReloadConfiguration is called with a candidate that passed validation.
Submit(p) == /\ ask[p] = Nil
             /\ \E c \in Config : ask' = [ask EXCEPT ![p] = c]
             /\ UNCHANGED <<installed, seen>>

\* The candidate becomes the live configuration, in one step.
Accept(p) == /\ ask[p] # Nil
             /\ installed' = ask[p]
             /\ ask' = [ask EXCEPT ![p] = Nil]
             /\ UNCHANGED seen

\* The candidate is refused and nothing that can be observed changes.
Reject(p) == /\ ask[p] # Nil
             /\ ask' = [ask EXCEPT ![p] = Nil]
             /\ UNCHANGED <<installed, seen>>

\* A call takes its one snapshot of the live configuration, or returns.
Snapshot(h) == /\ seen[h] = Nil
               /\ seen' = [seen EXCEPT ![h] = installed]
               /\ UNCHANGED <<installed, ask>>

Return(h) == /\ seen[h] # Nil
             /\ seen' = [seen EXCEPT ![h] = Nil]
             /\ UNCHANGED <<installed, ask>>

Answer(p) == Accept(p) \/ Reject(p)

Next == \/ \E p \in Caller : Submit(p) \/ Answer(p)
        \/ \E h \in Call : Snapshot(h) \/ Return(h)

\* The safety part, and with it the promise that every candidate is answered.
SafeSpec == Init /\ [][Next]_vars

Spec == SafeSpec /\ \A p \in Caller : WF_vars(Answer(p))

=============================================================================
