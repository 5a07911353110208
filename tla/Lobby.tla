------------------------------- MODULE Lobby --------------------------------
(***************************************************************************)
(* What the server promises the players it lets in: a name of their own    *)
(* for as long as they wait and play, and the next player as opponent.     *)
(* There is no main thread, array or socket; module Server, with           *)
(* get_client, simulate_server and free_game, is shown to implement it.    *)
(***************************************************************************)
EXTENDS Naturals

CONSTANTS Client, Name, NULL

VARIABLES
  inUse,    \* the names that are taken
  called,   \* the name of each client that has one
  waiting,  \* the player without an opponent
  games     \* the pairs whose names are not all given back

vars == <<inUse, called, waiting, games>>

Init ==
  /\ inUse = {}
  /\ called = [c \in Client |-> NULL]
  /\ waiting = NULL
  /\ games = {}

\* A client is let in under a name nobody has.  It waits, or plays with the one
\* that waits, who moves first.
Join(c, n) ==
  /\ n \notin inUse
  /\ called[c] = NULL /\ \A g \in games : c \notin {g[1], g[2]}
  /\ inUse' = inUse \cup {n}
  /\ called' = [called EXCEPT ![c] = n]
  /\ IF waiting = NULL
     THEN waiting' = c /\ UNCHANGED games
     ELSE waiting' = NULL /\ games' = games \cup {<<waiting, c>>}

\* The end of a game gives back the name of the first player, then that of the
\* second; the names become free, whoever asks for them next.
GiveBack(c) ==
  /\ inUse' = inUse \ {called[c]}
  /\ called' = [called EXCEPT ![c] = NULL]
  /\ UNCHANGED waiting

EndFirst(g)  == called[g[1]] # NULL /\ GiveBack(g[1]) /\ UNCHANGED games
EndSecond(g) == /\ called[g[1]] = NULL
                /\ GiveBack(g[2])
                /\ games' = games \ {g}

Next ==
  \/ \E c \in Client, n \in Name : Join(c, n)
  \/ \E g \in games : EndFirst(g) \/ EndSecond(g)

Spec == Init /\ [][Next]_vars
=============================================================================
