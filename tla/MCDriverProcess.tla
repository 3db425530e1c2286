-------------------------- MODULE MCDriverProcess ---------------------------
(* A small instance of DriverProcess for TLC. *)
EXTENDS DriverProcess
=============================================================================
