------------------------------ MODULE NameLocks -----------------------------
(***************************************************************************)
(* The three functions on player_names a step at a time: the lock          *)
(* players_mutex, the scan slot by slot, the reallocation, in which        *)
(* number_of_players is ahead of the array and the new slot holds nothing  *)
(* yet, and the removal, which frees a string before it clears its slot.   *)
(* The callers are the ones of ttts.c: the main thread asks whether a name *)
(* is taken and may then add it; game threads remove names that were       *)
(* added, each once.  The main thread may ask with NULL, which parse_play  *)
(* makes of a PLAY with too few fields; NULL is taken, so that nobody adds *)
(* or removes it, though those functions have an exit for it as well.      *)
(* (The definitions no other uses are faulty variants of the one that      *)
(* follows them, for the mutation of the checks.)                          *)
(***************************************************************************)
EXTENDS PlayerNames, FiniteSets

CONSTANTS
  Main,        \* the main thread
  GameThread,  \* the game threads
  Uninit,      \* a slot that realloc has made
  Freed        \* a slot whose string is freed

Thread == GameThread \cup {Main}

ASSUME LocksAssumption ==
  /\ Main \notin GameThread
  /\ NULL \notin Thread
  /\ Name # {}
  /\ Uninit \notin Name \cup {NULL} /\ Freed \notin Name \cup {NULL}
  /\ Uninit # Freed

VARIABLES
  player_names,       \* the array; before the first malloc it is empty
  number_of_players,
  players_mutex,      \* the thread that holds it, or NULL
  pc,                 \* where each thread is in its call
  op, arg,            \* the call: function and name, or NULL
  i,                  \* the loop variable of each thread's scan
  taken,              \* what is_player_name_taken returned last
  approved,           \* the name the main thread may add
  registered          \* the names that were added and that no thread frees

array == <<player_names, number_of_players>>
calls == <<op, arg, approved, registered>>
vars  == <<array, players_mutex, pc, calls, i, taken>>

\* The nine places where the functions release the lock: for want of a name,
\* after the first slot was made, a free one filled or a new one appended, when
\* the name was found, and after the loop.
Exits == {<<"add", "empty">>, <<"add", "counted">>, <<"add", "reused">>,
          <<"add", "appended">>,
          <<"remove", "empty">>, <<"remove", "ended">>,
          <<"is_taken", "empty">>, <<"is_taken", "found">>,
          <<"is_taken", "ended">>}

\* The places of a call.
Place == {"idle", "obtain", "first", "scan", "grow", "assign", "clear"}
           \cup {exit[2] : exit \in Exits}

TypeOK ==
  /\ player_names \in Seq(Name \cup {NULL, Uninit, Freed})
  /\ number_of_players \in Nat
  /\ players_mutex \in Thread \cup {NULL}
  /\ pc \in [Thread -> Place]
  /\ op \in [Thread -> {"add", "remove", "is_taken"}]
  /\ arg \in [Thread -> Name \cup {NULL}]
  /\ i \in [Thread -> Nat \ {0}]
  /\ taken \in [Thread -> BOOLEAN]
  /\ approved \in Name \cup {NULL}
  /\ registered \subseteq Name

Init ==
  /\ player_names = <<>>
  /\ number_of_players = 0
  /\ players_mutex = NULL
  /\ pc = [t \in Thread |-> "idle"]
  /\ op = [t \in Thread |-> "is_taken"]
  /\ arg = [t \in Thread |-> CHOOSE n \in Name : TRUE]
  /\ i = [t \in Thread |-> 1]
  /\ taken = [t \in Thread |-> FALSE]
  /\ approved = NULL
  /\ registered = {}

Goto(t, where) == pc' = [pc EXCEPT ![t] = where]

-----------------------------------------------------------------------------
(* The calls.                                                               *)

Begin(t, o, n) ==
  /\ pc[t] = "idle"
  /\ op' = [op EXCEPT ![t] = o]
  /\ arg' = [arg EXCEPT ![t] = n]
  /\ Goto(t, "obtain")
  /\ UNCHANGED <<array, players_mutex, i, taken>>

\* get_client asks for each PLAY, whether or not the last one was added.
AskTaken(n) == Begin(Main, "is_taken", n) /\ approved' = NULL
                                          /\ UNCHANGED registered
Add         == /\ approved # NULL
               /\ Begin(Main, "add", approved)
               /\ approved' = NULL /\ UNCHANGED registered
\* free_game.
Remove(t)   == \E n \in registered : /\ Begin(t, "remove", n)
                                     /\ registered' = registered \ {n}
                                     /\ UNCHANGED approved

-----------------------------------------------------------------------------
\* Where a function begins once it has the lock: without a name it returns, and
\* the first name of all is put into an array that is not there yet.
Entry(t) == CASE arg[t] = NULL -> "empty"
              [] arg[t] # NULL /\ op[t] = "add" /\ player_names = <<>> -> "first"
              [] OTHER -> "scan"

obtain_mutex_lock_NotForRemove(t) ==
  /\ pc[t] = "obtain"
  /\ players_mutex = NULL \/ op[t] = "remove"
  /\ players_mutex' = IF op[t] = "remove" THEN players_mutex ELSE t
  /\ Goto(t, Entry(t))
  /\ i' = [i EXCEPT ![t] = 1]
  /\ taken' = [taken EXCEPT ![t] = @ \/ (op[t] = "is_taken" /\ arg[t] = NULL)]
  /\ UNCHANGED <<array, calls>>

\* obtain_mutex_lock, and the start of the function: i = 0 in C.  To
\* is_player_name_taken no name is a name that is taken.
obtain_mutex_lock(t) ==
  /\ pc[t] = "obtain"
  /\ players_mutex = NULL
  /\ players_mutex' = t
  /\ Goto(t, Entry(t))
  /\ i' = [i EXCEPT ![t] = 1]
  /\ taken' = [taken EXCEPT ![t] = @ \/ (op[t] = "is_taken" /\ arg[t] = NULL)]
  /\ UNCHANGED <<array, calls>>

\* What follows the return: the main thread goes on with the answer.
Answered(t) ==
  /\ approved' = IF op[t] = "is_taken" /\ ~taken[t] THEN arg[t] ELSE approved
  /\ registered' = IF op[t] = "add" THEN registered \cup {arg[t]} ELSE registered

release_mutex_lock_NotWhenFound(t) ==
  /\ <<op[t], pc[t]>> \in Exits
  /\ players_mutex' = IF pc[t] = "found" THEN players_mutex ELSE NULL
  /\ Goto(t, "idle")
  /\ Answered(t)
  /\ UNCHANGED <<array, op, arg, i, taken>>

\* release_mutex_lock and the return.
release_mutex_lock(t) ==
  /\ <<op[t], pc[t]>> \in Exits
  /\ players_mutex' = NULL
  /\ Goto(t, "idle")
  /\ Answered(t)
  /\ UNCHANGED <<array, op, arg, i, taken>>

-----------------------------------------------------------------------------
(* The bodies.  A step reads or writes one shared place.                    *)

Slot(t)  == player_names[i[t]]
Found(t) == IF op[t] = "add" THEN Slot(t) = NULL ELSE Slot(t) = arg[t]

\* malloc of the first slot; the count follows.
AddFirst(t) ==
  /\ pc[t] = "first"
  /\ player_names = <<>>
  /\ player_names' = <<arg[t]>>
  /\ UNCHANGED <<number_of_players, players_mutex, pc, calls, i, taken>>

CountFirst_Forgets(t) ==
  /\ pc[t] = "first"
  /\ player_names # <<>>
  /\ Goto(t, "counted")
  /\ UNCHANGED <<array, players_mutex, calls, i, taken>>

CountFirst(t) ==
  /\ pc[t] = "first"
  /\ player_names # <<>>
  /\ number_of_players' = number_of_players + 1
  /\ Goto(t, "counted")
  /\ UNCHANGED <<player_names, players_mutex, calls, i, taken>>

ScanNext(t) ==
  /\ pc[t] = "scan"
  /\ i[t] <= number_of_players /\ ~Found(t)
  /\ i' = [i EXCEPT ![t] = @ + 1]
  /\ UNCHANGED <<array, players_mutex, pc, calls, taken>>

TakenFound(t) ==
  /\ pc[t] = "scan" /\ op[t] = "is_taken"
  /\ i[t] <= number_of_players /\ Found(t)
  /\ taken' = [taken EXCEPT ![t] = TRUE]
  /\ Goto(t, "found")
  /\ UNCHANGED <<array, players_mutex, calls, i>>

\* The first free slot is used again.
AddReuse(t) ==
  /\ pc[t] = "scan" /\ op[t] = "add"
  /\ i[t] <= number_of_players /\ Found(t)
  /\ player_names' = [player_names EXCEPT ![i[t]] = arg[t]]
  /\ Goto(t, "reused")
  /\ UNCHANGED <<number_of_players, players_mutex, calls, i, taken>>

\* free, then the assignment of NULL.
RemoveFree(t) ==
  /\ pc[t] = "scan" /\ op[t] = "remove"
  /\ i[t] <= number_of_players /\ Found(t)
  /\ player_names' = [player_names EXCEPT ![i[t]] = Freed]
  /\ Goto(t, "clear")
  /\ UNCHANGED <<number_of_players, players_mutex, calls, i, taken>>

RemoveClear(t) ==
  /\ pc[t] = "clear"
  /\ player_names' = [player_names EXCEPT ![i[t]] = NULL]
  /\ Goto(t, "ended")
  /\ UNCHANGED <<number_of_players, players_mutex, calls, i, taken>>

\* The end of the loop: no such name, or no free slot.
ScanEnd(t) ==
  /\ pc[t] = "scan"
  /\ i[t] > number_of_players
  /\ taken' = IF op[t] = "is_taken" THEN [taken EXCEPT ![t] = FALSE] ELSE taken
  /\ IF op[t] = "add"
     THEN Goto(t, "grow") /\ number_of_players' = number_of_players + 1
     ELSE Goto(t, "ended") /\ UNCHANGED number_of_players
  /\ UNCHANGED <<player_names, players_mutex, calls, i>>

\* realloc; the assignment to the new slot follows.
AddGrow(t) ==
  /\ pc[t] = "grow"
  /\ player_names' = Append(player_names, Uninit)
  /\ Goto(t, "assign")
  /\ UNCHANGED <<number_of_players, players_mutex, calls, i, taken>>

AddAssign(t) ==
  /\ pc[t] = "assign"
  /\ player_names' = [player_names EXCEPT ![number_of_players] = arg[t]]
  /\ Goto(t, "appended")
  /\ UNCHANGED <<number_of_players, players_mutex, calls, i, taken>>

Run(t) ==
  \/ obtain_mutex_lock(t) \/ release_mutex_lock(t)
  \/ AddFirst(t) \/ CountFirst(t)
  \/ ScanNext(t) \/ ScanEnd(t)
  \/ TakenFound(t) \/ AddReuse(t) \/ RemoveFree(t) \/ RemoveClear(t)
  \/ AddGrow(t) \/ AddAssign(t)

Next ==
  \/ \E n \in Name \cup {NULL} : AskTaken(n)
  \/ Add
  \/ \E t \in GameThread : Remove(t)
  \/ \E t \in Thread : Run(t)

\* Threads run; the lock is granted while it is free for good, not more.
Fairness == \A t \in Thread : WF_vars(Run(t))
Spec     == Init /\ [][Next]_vars /\ Fairness

-----------------------------------------------------------------------------
\* No thread looks at a slot beyond the array, at one that realloc made and
\* nobody filled, or at a string that is freed: the count runs ahead of the
\* array and a slot is freed before it is cleared, and only the lock keeps
\* other threads away meanwhile.
NoWildRead ==
  \A t \in Thread :
    (pc[t] = "scan" /\ i[t] <= number_of_players) =>
      /\ i[t] \in DOMAIN player_names
      /\ Slot(t) \notin {Uninit, Freed}

\* The three functions are atomic to their callers: the array as their steps
\* leave it, without the slot being made and the string being freed, goes
\* through the states of NameService.  A call takes effect in its last write
\* to the array, or when its scan ends.
Committed(t) == \/ <<op[t], pc[t]>> \in Exits
                \/ pc[t] = "clear"
                \/ pc[t] = "first" /\ player_names # <<>>

Valid == [k \in {j \in DOMAIN player_names : player_names[j] # Uninit} |->
            IF player_names[k] = Freed THEN NULL ELSE player_names[k]]

Service == INSTANCE NameService WITH
  names  <- Valid,
  status <- [t \in Thread |-> IF pc[t] = "idle" THEN "idle"
                              ELSE IF Committed(t) THEN "done" ELSE "called"]

CallsAreAtomic == Service!Spec

\* Once no more calls are begun every call returns: whichever of its exits a
\* function takes, for want of a name too, it has released the lock, or the next
\* call of another thread would wait for ever.
CallsReturn ==
  <>[][\A t \in Thread : ~(pc[t] = "idle" /\ pc'[t] = "obtain")]_vars
    => \A t \in Thread : pc[t] # "idle" ~> pc[t] = "idle"
=============================================================================
