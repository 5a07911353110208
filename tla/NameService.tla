----------------------------- MODULE NameService ----------------------------
(***************************************************************************)
(* What the callers of add_player_name, remove_player_name and             *)
(* is_player_name_taken may rely on: each call takes effect at one moment  *)
(* between its beginning and its return, and does to the array what the    *)
(* operator of PlayerNames does.  This is the level at which module Server *)
(* uses the three functions; module NameLocks implements it.               *)
(***************************************************************************)
EXTENDS PlayerNames

CONSTANT Thread   \* the threads of the server

VARIABLES
  names,    \* the array
  status,   \* each thread's call: idle, called or done
  op,       \* the function called
  arg,      \* the name it is given, or NULL
  taken     \* what is_player_name_taken returned last

vars == <<names, status, op, arg, taken>>

Op == {"add", "remove", "is_taken"}

Init ==
  /\ names = <<>>
  /\ status = [t \in Thread |-> "idle"]
  /\ op \in [Thread -> Op]
  /\ arg \in [Thread -> Name \cup {NULL}]
  /\ taken = [t \in Thread |-> FALSE]

Call(t, o, n) ==
  /\ status[t] = "idle"
  /\ status' = [status EXCEPT ![t] = "called"]
  /\ op' = [op EXCEPT ![t] = o]
  /\ arg' = [arg EXCEPT ![t] = n]
  /\ UNCHANGED <<names, taken>>

Execute(t) ==
  /\ status[t] = "called"
  /\ status' = [status EXCEPT ![t] = "done"]
  /\ names' = CASE op[t] = "add"      -> add_player_name(names, arg[t])
                [] op[t] = "remove"   -> remove_player_name(names, arg[t])
                [] op[t] = "is_taken" -> names
  /\ taken' = IF op[t] = "is_taken"
              THEN [taken EXCEPT ![t] = is_player_name_taken(names, arg[t])]
              ELSE taken
  /\ UNCHANGED <<op, arg>>

Return(t) ==
  /\ status[t] = "done"
  /\ status' = [status EXCEPT ![t] = "idle"]
  /\ UNCHANGED <<names, op, arg, taken>>

Next == \E t \in Thread :
          \/ \E o \in Op, n \in Name \cup {NULL} : Call(t, o, n)
          \/ Execute(t)
          \/ Return(t)

Spec == Init /\ [][Next]_vars
=============================================================================
