----------------------- MODULE MCKubeconfigProvider -----------------------
(* KubeconfigProvider with one-context and two-context kubeconfig files.   *)
EXTENDS KubeconfigProvider

\* A file with one context and no current-context (auto-selected), and one
\* with a second context that is current.
MCContent ==
    {[contexts |-> {"c1"}, current |-> NoContext],
     [contexts |-> {"c1", "c2"}, current |-> "c2"]}
=============================================================================
