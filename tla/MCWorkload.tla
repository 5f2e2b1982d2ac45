---------------------------- MODULE MCWorkload ------------------------------
(* A small profile for TLC. *)
EXTENDS Workload

SmallProfile == [large : {FALSE}, size : {1}] \cup [large : {TRUE}, size : {3}]
=============================================================================
