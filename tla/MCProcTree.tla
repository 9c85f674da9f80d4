------------------------------ MODULE MCProcTree ------------------------------
(* A child and two more processes in any relation: one that leaves the group,  *)
(* and one of its making that keeps the pipe.                                  *)
EXTENDS ProcTree

CONSTANTS c, g, h
=============================================================================
