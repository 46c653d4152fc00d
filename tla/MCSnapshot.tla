------------------------------ MODULE MCSnapshot ------------------------------
(* The download with two hosts, two ports and two paths. *)
EXTENDS Snapshot
================================================================================
