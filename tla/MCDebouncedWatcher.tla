------------------------ MODULE MCDebouncedWatcher ------------------------
(* DebouncedWatcher for TLC: its constants are given in the cfg files.     *)
EXTENDS DebouncedWatcher
=============================================================================
