---------------------------- MODULE MCGroupSystem ----------------------------
(* Constants of the runs of GroupSystem are given in their configurations.  *)
EXTENDS GroupSystem
=============================================================================
