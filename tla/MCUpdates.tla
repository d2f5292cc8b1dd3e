---- MODULE MCUpdates ----
(* A small instance of Updates for TLC. *)
EXTENDS Updates
====
