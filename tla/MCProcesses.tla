---------------------------- MODULE MCProcesses ----------------------------
(* The example programs on Processes, as TLC checks them.                  *)
EXTENDS ProcessPrograms

BookPrograms == DOMAIN BookCode
=============================================================================
