---------------------------- MODULE MCTestDriver ----------------------------
(* Instances of TestDriver for TLC. *)
EXTENDS TestDriver
=============================================================================
