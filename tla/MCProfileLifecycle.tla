--------------------------- MODULE MCProfileLifecycle ---------------------------
(* A small instance of ProfileLifecycle for TLC. *)
EXTENDS ProfileLifecycle
================================================================================
