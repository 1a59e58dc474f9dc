------------------------------- MODULE MCStartup -------------------------------
(* Three processes, either way of discovery, one crash. *)
EXTENDS Startup
================================================================================
