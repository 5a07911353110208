------------------------------ MODULE MCServer ------------------------------
(* Instances of Server for TLC. *)
EXTENDS ServerLobby, TLC

\* Names are interchangeable, and so are clients when all of them may fail.
Interchangeable == Permutations(Client) \cup Permutations(Name)
=============================================================================
