----------------------------- MODULE PlayerNames ----------------------------
(***************************************************************************)
(* The array player_names of ttts.c and what its three functions do to it. *)
(* The array is a sequence of slots; a slot holds a name or the NULL that  *)
(* remove_player_name leaves behind.  Every function runs from beginning   *)
(* to end under players_mutex, so here each is one operator.  A name may   *)
(* be missing: parse_play makes one of a PLAY with too few fields, and it  *)
(* counts as taken; add and remove do nothing with it.                     *)
(* (misses_last_slot and add_always_grows are faulty variants of the       *)
(* definitions that follow them, for the mutation of the checks.)          *)
(***************************************************************************)
EXTENDS Naturals, Sequences

CONSTANTS
  Name,   \* the names players ask for: non-empty strings
  NULL    \* no name: a pointer that is NULL

ASSUME NullAssumption == NULL \notin Name

\* The slots that hold x, and the first of a set of slots.
Slots(names, x) == {i \in DOMAIN names : names[i] = x}
First(S)        == CHOOSE i \in S : \A j \in S : i <= j

misses_last_slot(names, n) ==
  n = NULL \/ \E i \in Slots(names, n) : i < Len(names)

is_player_name_taken(names, n) == n = NULL \/ Slots(names, n) # {}

add_always_grows(names, n) == IF n = NULL THEN names ELSE Append(names, n)

\* The first free slot is used again; only when there is none does the array
\* grow by one.
add_player_name(names, n) ==
  IF n = NULL THEN names
  ELSE IF Slots(names, NULL) = {} THEN Append(names, n)
  ELSE [names EXCEPT ![First(Slots(names, NULL))] = n]

\* The first slot that holds the name becomes free; the array never shrinks.
remove_player_name(names, n) ==
  IF n = NULL \/ Slots(names, n) = {}
  THEN names
  ELSE [names EXCEPT ![First(Slots(names, n))] = NULL]

\* The names in the array.
Names(names) == {n \in Name : Slots(names, n) # {}}
=============================================================================
