---------------------------- MODULE ServerLobby -----------------------------
(* Server implements Lobby.                                                 *)
EXTENDS Server

\* The two the main thread has just paired are a game before the thread that
\* plays it exists; a game is over when its second name has been given back.
Pairs ==
  {<<g, client2[g]>> :
     g \in {c \in Client : thread[c] \in {"begin1", "begin2", "play",
                                          "remove1", "remove2"}}}
  \cup (IF pc = "spawn" THEN {<<client1, cur>>} ELSE {})

LobbyView == INSTANCE Lobby WITH
  inUse   <- Names(player_names),
  called  <- [c \in Client |-> IF c \in Holders THEN name[c] ELSE NULL],
  waiting <- IF pc = "spawn" THEN NULL ELSE client1,
  games   <- Pairs

\* get_client, simulate_server and free_game, on the shared array and with any
\* game thread running between two steps of the main thread, do nothing but let
\* clients in under free names, pair the one that waits with the next, and give
\* back the names of a game that is over, the first player's first.
KeepsTheLobby == LobbyView!Spec
=============================================================================
