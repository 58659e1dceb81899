---------------------------- MODULE MCShellLife ----------------------------
(* Room for the shell and for two more sensor threads than main starts;    *)
(* the third `restart' finds too little.                                   *)
EXTENDS ShellLife

MCShellSize == 3
MCSensorSize == 2
MCHeapSize == MCShellSize + 3 * MCSensorSize + 1
=============================================================================
