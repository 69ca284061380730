---------------------------- MODULE MCCredRefScanner ----------------------------
(* Small instances of CredRefScanner for TLC. *)
EXTENDS CredRefScanner
================================================================================
