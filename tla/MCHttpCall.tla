------------------------------- MODULE MCHttpCall -------------------------------
(* A small instance of HttpCall for TLC. *)
EXTENDS HttpCall
================================================================================
