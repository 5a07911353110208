-------------------------- MODULE NameLocksProofs ---------------------------
(***************************************************************************)
(* Proofs about NameLocks, for any number of threads and names: at most    *)
(* one thread is in one of the three functions, none looks at a slot that  *)
(* is not there, and the calls are atomic to their callers.                *)
(***************************************************************************)
EXTENDS NameLocks, PlayerNamesProofs, SequenceTheorems

-----------------------------------------------------------------------------
(* The inductive invariant: who holds the lock, and what the array looks    *)
(* like at each place of the function the holder runs.                      *)

InFunction(t) == pc[t] \notin {"idle", "obtain"}

Exit == {"empty", "counted", "reused", "appended", "found", "ended"}

\* Only is_player_name_taken is called without a name.
Named == \A t \in Thread : op[t] # "is_taken" => arg[t] \in Name

\* The lock belongs to the thread between obtain_mutex_lock and
\* release_mutex_lock.
Exclusive == \A t \in Thread : InFunction(t) <=> players_mutex = t

\* Names and free slots, as many as counted.
Whole == /\ number_of_players = Len(player_names)
         /\ \A k \in DOMAIN player_names : player_names[k] \in Name \cup {NULL}

Sought(t) == IF op[t] = "add" THEN NULL ELSE arg[t]

\* Nothing the thread seeks is in the slots its scan has passed.
Scanned(t) ==
  /\ i[t] <= number_of_players + 1
  /\ \A k \in DOMAIN player_names : k < i[t] => player_names[k] # Sought(t)

Made(t) == /\ op[t] = "add"
           /\ \/ player_names = <<>>
              \/ player_names = <<arg[t]>>
           /\ number_of_players = 0

\* The count is ahead of the array.
Counted(t) == /\ op[t] = "add"
              /\ number_of_players = Len(player_names) + 1
              /\ \A k \in DOMAIN player_names : player_names[k] \in Name

\* The last slot holds nothing yet.
Grown(t) == /\ op[t] = "add"
            /\ number_of_players = Len(player_names) /\ number_of_players > 0
            /\ player_names[number_of_players] = Uninit
            /\ \A k \in DOMAIN player_names :
                 k # number_of_players => player_names[k] \in Name

\* The string of a slot is freed.
Dangling(t) == /\ op[t] = "remove"
               /\ number_of_players = Len(player_names)
               /\ i[t] \in DOMAIN player_names /\ player_names[i[t]] = Freed
               /\ \A k \in DOMAIN player_names :
                    k # i[t] => player_names[k] \in Name \cup {NULL}

Holding(t) ==
  /\ pc[t] \in {"scan"} \cup Exit => Whole
  /\ pc[t] = "scan"   => Scanned(t) /\ arg[t] \in Name
  /\ pc[t] = "first"  => Made(t)
  /\ pc[t] = "grow"   => Counted(t)
  /\ pc[t] = "assign" => Grown(t)
  /\ pc[t] = "clear"  => Dangling(t)

LInv == /\ TypeOK
        /\ Exclusive
        /\ Named
        /\ players_mutex = NULL => Whole
        /\ \A t \in Thread : Holding(t)

-----------------------------------------------------------------------------
(* LInv is inductive.                                                       *)

LEMMA Places ==
  /\ Place = {"idle", "obtain", "first", "scan", "grow", "assign", "clear"} \cup Exit
  /\ \A o, w : <<o, w>> \in Exits => o \in {"add", "remove", "is_taken"} /\ w \in Exit
<1>1. \A exit \in Exits : exit[2] \in Exit
  BY DEF Exits, Exit
<1>2. \A w \in Exit : \E exit \in Exits : exit[2] = w
  BY DEF Exits, Exit
<1>3. {exit[2] : exit \in Exits} = Exit
  BY <1>1, <1>2
<1>4. \A o, w : <<o, w>> \in Exits => o \in {"add", "remove", "is_taken"} /\ w \in Exit
  BY DEF Exits, Exit
<1> QED BY <1>3, <1>4 DEF Place

LEMMA InitLocks == Init => LInv
<1> SUFFICES ASSUME Init PROVE LInv
  OBVIOUS
<1>1. player_names = <<>> /\ Len(player_names) = 0 /\ DOMAIN player_names = {}
  BY DEF Init
<1>2. PICK n \in Name : arg = [t \in Thread |-> n]
  BY LocksAssumption DEF Init
<1>0. Named
  BY <1>2 DEF Named
<1>3. TypeOK
  <2>1. /\ player_names \in Seq(Name \cup {NULL, Uninit, Freed})
        /\ number_of_players \in Nat
    BY <1>1 DEF Init
  <2>2. arg \in [Thread -> Name \cup {NULL}]
    BY <1>2
  <2>3. /\ players_mutex = NULL /\ approved = NULL /\ registered = {}
        /\ pc = [t \in Thread |-> "idle"] /\ op = [t \in Thread |-> "is_taken"]
        /\ i = [t \in Thread |-> 1] /\ taken = [t \in Thread |-> FALSE]
    BY DEF Init
  <2>4. i \in [Thread -> Nat \ {0}]
    BY <2>3
  <2>5. taken \in [Thread -> BOOLEAN]
    BY <2>3
  <2>6. pc \in [Thread -> Place]
    BY <2>3, Places
  <2> QED BY <2>1, <2>2, <2>3, <2>4, <2>5, <2>6 DEF TypeOK
<1>4. Exclusive
  BY LocksAssumption DEF Init, Exclusive, InFunction
<1>5. Whole
  BY <1>1 DEF Init, Whole
<1>6. \A t \in Thread : Holding(t)
  BY DEF Init, Holding, Exit
<1> QED BY <1>0, <1>3, <1>4, <1>5, <1>6 DEF LInv

\* The thread that holds the lock is alone in the functions, and the array is
\* what it left behind.
LEMMA Alone ==
  ASSUME LInv, NEW t \in Thread, InFunction(t)
  PROVE  /\ players_mutex = t /\ t # NULL
         /\ \A u \in Thread : u # t => pc[u] \in {"idle", "obtain"}
         /\ Holding(t)
<1>1. players_mutex = t /\ t # NULL
  BY LocksAssumption DEF LInv, Exclusive
<1>2. \A u \in Thread : u # t => ~InFunction(u)
  BY <1>1 DEF LInv, Exclusive
<1> QED BY <1>1, <1>2 DEF LInv, InFunction

\* A step of that thread leaves the others outside.
LEMMA StepInside ==
  ASSUME LInv, NEW t \in Thread, InFunction(t), UNCHANGED players_mutex,
         \A u \in Thread : u # t => pc'[u] = pc[u],
         InFunction(t)', TypeOK', Holding(t)', UNCHANGED <<op, arg>>
  PROVE  LInv'
<1>1. /\ players_mutex = t /\ t # NULL
      /\ \A u \in Thread : u # t => pc[u] \in {"idle", "obtain"}
  BY Alone
<1>2. \A u \in Thread : u # t => pc'[u] \in {"idle", "obtain"}
  BY <1>1
<1>3. Exclusive'
  BY <1>1, <1>2 DEF Exclusive, InFunction
<1>4. \A u \in Thread : u # t => Holding(u)'
  BY <1>2 DEF Holding, Exit
<1>5. Named'
  BY DEF LInv, Named
<1> QED BY <1>1, <1>3, <1>4, <1>5 DEF LInv

\* A call begins outside.
LEMMA BeginLocks ==
  ASSUME LInv, NEW t \in Thread,
         NEW o \in {"add", "remove", "is_taken"}, NEW n \in Name \cup {NULL},
         Begin(t, o, n), o # "is_taken" => n \in Name,
         approved' \in Name \cup {NULL}, registered' \subseteq Name
  PROVE  LInv'
<1>1. /\ pc[t] = "idle" /\ pc' = [pc EXCEPT ![t] = "obtain"]
      /\ op' = [op EXCEPT ![t] = o] /\ arg' = [arg EXCEPT ![t] = n]
      /\ UNCHANGED <<player_names, number_of_players, players_mutex, i, taken>>
  BY DEF Begin, Goto, array
<1>2. TypeOK'
  BY <1>1, Places DEF LInv, TypeOK
<1>3. \A u \in Thread : InFunction(u)' <=> InFunction(u)
  BY <1>1 DEF InFunction, LInv, TypeOK
<1>4. Exclusive'
  BY <1>1, <1>3 DEF LInv, Exclusive
<1>5. ASSUME NEW u \in Thread PROVE Holding(u)'
  <2>1. CASE u = t
    BY <1>1, <2>1 DEF Holding, Exit, LInv, TypeOK
  <2>2. CASE u # t
    <3>1. pc'[u] = pc[u] /\ op'[u] = op[u] /\ arg'[u] = arg[u]
      BY <1>1, <2>2 DEF LInv, TypeOK
    <3>2. Holding(u)
      BY DEF LInv
    <3> QED
      BY <1>1, <3>1, <3>2
      DEF Holding, Whole, Scanned, Sought, Made, Counted, Grown, Dangling
  <2> QED BY <2>1, <2>2
<1>6. players_mutex' = NULL => Whole'
  BY <1>1 DEF LInv, Whole
<1>7. Named'
  BY <1>1 DEF LInv, TypeOK, Named
<1> QED BY <1>2, <1>4, <1>5, <1>6, <1>7 DEF LInv

\* With the lock a thread finds the array whole.
LEMMA ObtainLocks ==
  ASSUME LInv, NEW t \in Thread, obtain_mutex_lock(t) PROVE LInv'
<1> DEFINE where == Entry(t)
<1>0. /\ where \in {"empty", "first", "scan"}
      /\ where = "first" => op[t] = "add"
      /\ where = "first" => player_names = <<>>
      /\ where # "empty" => arg[t] \in Name
  BY DEF Entry, LInv, TypeOK
<1> HIDE DEF where
<1>1. /\ pc[t] = "obtain" /\ players_mutex = NULL /\ players_mutex' = t
      /\ pc' = [pc EXCEPT ![t] = where]
      /\ i' = [i EXCEPT ![t] = 1]
      /\ taken' = [taken EXCEPT ![t] = @ \/ (op[t] = "is_taken" /\ arg[t] = NULL)]
      /\ UNCHANGED <<player_names, number_of_players, op, arg, approved, registered>>
  BY DEF obtain_mutex_lock, Goto, array, calls, where
<1>2. TypeOK'
  <2>1. taken' \in [Thread -> BOOLEAN]
    BY <1>1 DEF LInv, TypeOK
  <2>2. pc' \in [Thread -> Place] /\ i' \in [Thread -> Nat \ {0}]
    BY <1>0, <1>1, Places DEF LInv, TypeOK, Exit
  <2> QED BY <1>1, <2>1, <2>2 DEF LInv, TypeOK
<1>3. \A u \in Thread : ~InFunction(u)
  BY <1>1, LocksAssumption DEF LInv, Exclusive
<1>4. Exclusive'
  BY <1>0, <1>1, <1>3 DEF Exclusive, InFunction, LInv, TypeOK
<1>5. Whole /\ Whole'
  BY <1>1 DEF LInv, Whole
<1>6. Holding(t)'
  <2>1. i'[t] = 1 /\ pc'[t] = where
    BY <1>1 DEF LInv, TypeOK
  <2>2. Scanned(t)'
    BY <1>1, <1>5, <2>1 DEF Scanned, Whole, LInv, TypeOK
  <2>3. pc'[t] = "first" => Made(t)'
    BY <1>0, <1>1, <1>5, <2>1 DEF Made, Whole
  <2>4. pc'[t] = "scan" => arg'[t] \in Name
    BY <1>0, <1>1, <2>1
  <2> QED BY <1>0, <1>5, <2>1, <2>2, <2>3, <2>4 DEF Holding, Exit
<1>7. ASSUME NEW u \in Thread, u # t PROVE Holding(u)'
  <2>1. pc'[u] \in {"idle", "obtain"}
    BY <1>1, <1>3, <1>7 DEF InFunction, LInv, TypeOK
  <2> QED BY <2>1 DEF Holding, Exit
<1>8. Named'
  BY <1>1 DEF LInv, Named
<1> QED BY <1>1, <1>2, <1>4, <1>6, <1>7, <1>8, LocksAssumption DEF LInv

\* It leaves it whole.
LEMMA ReleaseLocks ==
  ASSUME LInv, NEW t \in Thread, release_mutex_lock(t) PROVE LInv'
<1>1. /\ pc[t] \in Exit /\ players_mutex' = NULL
      /\ pc' = [pc EXCEPT ![t] = "idle"]
      /\ approved' \in {arg[t], approved}
      /\ \/ registered' = registered
         \/ op[t] = "add" /\ registered' = registered \cup {arg[t]}
      /\ UNCHANGED <<player_names, number_of_players, op, arg, i, taken>>
  BY Places DEF release_mutex_lock, Answered, Goto, array
<1>0. Named /\ Named'
  BY <1>1 DEF LInv, Named
<1>2. TypeOK'
  <2>1. registered' \subseteq Name /\ approved' \in Name \cup {NULL}
    BY <1>0, <1>1 DEF LInv, TypeOK, Named
  <2> QED BY <1>1, <2>1, Places DEF LInv, TypeOK
<1>3. /\ \A u \in Thread : u # t => pc[u] \in {"idle", "obtain"}
      /\ Whole
  BY <1>1, Alone DEF InFunction, Holding, Exit
<1>4. \A u \in Thread : pc'[u] \in {"idle", "obtain"}
  BY <1>1, <1>3 DEF LInv, TypeOK
<1>5. Exclusive'
  BY <1>1, <1>4, LocksAssumption DEF Exclusive, InFunction
<1>6. Whole'
  BY <1>1, <1>3 DEF Whole
<1>7. \A u \in Thread : Holding(u)'
  BY <1>4 DEF Holding, Exit
<1> QED BY <1>0, <1>2, <1>5, <1>6, <1>7 DEF LInv

\* The first slot.
LEMMA FirstLocks ==
  ASSUME LInv, NEW t \in Thread, AddFirst(t) \/ CountFirst(t) PROVE LInv'
<1>1. /\ pc[t] = "first" /\ InFunction(t) /\ Holding(t) /\ Made(t)
      /\ arg[t] \in Name /\ pc \in [Thread -> Place]
  <2>1. pc[t] = "first" /\ InFunction(t) /\ Holding(t) /\ Made(t)
    BY Alone DEF AddFirst, CountFirst, InFunction, Holding
  <2>2. op[t] = "add"
    BY <2>1 DEF Made
  <2> QED BY <2>1, <2>2 DEF LInv, TypeOK, Named
<1>2. CASE AddFirst(t)
  <2>1. /\ player_names' = <<arg[t]>>
        /\ UNCHANGED <<number_of_players, players_mutex, pc, op, arg, approved,
                       registered, i, taken>>
    BY <1>2 DEF AddFirst, calls
  <2>2. player_names' \in Seq(Name \cup {NULL, Uninit, Freed})
    BY <1>1, <2>1
  <2>3. TypeOK'
    BY <2>1, <2>2 DEF LInv, TypeOK
  <2>4. Holding(t)'
    BY <1>1, <2>1 DEF Holding, Made, Exit
  <2> QED BY <1>1, <2>1, <2>3, <2>4, StepInside DEF InFunction
<1>3. CASE CountFirst(t)
  <2>1. /\ number_of_players' = number_of_players + 1
        /\ player_names # <<>>
        /\ pc' = [pc EXCEPT ![t] = "counted"]
        /\ UNCHANGED <<player_names, players_mutex, op, arg, approved,
                       registered, i, taken>>
    BY <1>3 DEF CountFirst, Goto, calls
  <2>2. player_names = <<arg[t]>> /\ number_of_players' = 1
    BY <1>1, <2>1 DEF Made
  <2>3. TypeOK'
    BY <2>1, Places DEF LInv, TypeOK, Exit
  <2>4. Whole'
    BY <1>1, <2>1, <2>2 DEF Whole
  <2>5. Holding(t)' /\ InFunction(t)'
    BY <1>1, <2>1, <2>4 DEF Holding, InFunction, Exit
  <2> QED BY <1>1, <2>1, <2>3, <2>5, StepInside
<1> QED BY <1>2, <1>3

\* The scan.
LEMMA ScanLocks ==
  ASSUME LInv, NEW t \in Thread, ScanNext(t) \/ ScanEnd(t) \/ TakenFound(t)
  PROVE  LInv'
<1>1. /\ pc[t] = "scan" /\ InFunction(t) /\ Holding(t) /\ Whole /\ Scanned(t)
      /\ arg[t] \in Name
      /\ i[t] \in Nat \ {0} /\ number_of_players \in Nat
      /\ DOMAIN player_names = 1..number_of_players
      /\ player_names \in Seq(Name \cup {NULL, Uninit, Freed})
  BY Alone DEF ScanNext, ScanEnd, TakenFound, InFunction, Holding, Whole, LInv, TypeOK
<1>2. CASE ScanNext(t)
  <2>1. /\ i[t] <= number_of_players /\ ~Found(t)
        /\ i' = [i EXCEPT ![t] = i[t] + 1]
        /\ UNCHANGED <<player_names, number_of_players, players_mutex, pc, op, arg,
                       approved, registered, taken>>
    BY <1>2 DEF ScanNext, array, calls
  <2>2. TypeOK' /\ i'[t] = i[t] + 1
    BY <1>1, <2>1 DEF LInv, TypeOK
  <2>3. player_names[i[t]] # Sought(t)
    BY <2>1 DEF Found, Slot, Sought
  <2>4. Scanned(t)'
    <3>1. i'[t] <= number_of_players' + 1
      BY <1>1, <2>1, <2>2
    <3>2. ASSUME NEW k \in DOMAIN player_names, k < i[t] + 1
          PROVE  player_names[k] # Sought(t)
      <4>1. k < i[t] \/ k = i[t]
        BY <1>1, <3>2
      <4> QED BY <1>1, <2>3, <4>1 DEF Scanned
    <3> QED BY <2>1, <2>2, <3>1, <3>2 DEF Scanned, Sought
  <2>5. Holding(t)' /\ InFunction(t)'
    BY <1>1, <2>1, <2>4 DEF Holding, Whole, InFunction, Exit
  <2> QED BY <1>1, <2>1, <2>2, <2>5, StepInside
<1>3. CASE ScanEnd(t)
  <2>1. /\ i[t] > number_of_players
        /\ UNCHANGED <<player_names, players_mutex, op, arg, approved, registered, i>>
        /\ taken' \in {[taken EXCEPT ![t] = FALSE], taken}
        /\ \/ /\ op[t] = "add" /\ pc' = [pc EXCEPT ![t] = "grow"]
              /\ number_of_players' = number_of_players + 1
           \/ /\ op[t] # "add" /\ pc' = [pc EXCEPT ![t] = "ended"]
              /\ number_of_players' = number_of_players
    BY <1>3 DEF ScanEnd, Goto, calls
  <2>2. TypeOK'
    <3>1. taken \in [Thread -> BOOLEAN]
      BY DEF LInv, TypeOK
    <3>2. taken' \in [Thread -> BOOLEAN]
      BY <2>1, <3>1
    <3>3. number_of_players' \in Nat
      BY <1>1, <2>1
    <3>4. pc' \in [Thread -> Place]
      BY <2>1, Places DEF LInv, TypeOK, Exit
    <3> QED BY <2>1, <3>2, <3>3, <3>4 DEF LInv, TypeOK
  <2>3. \A k \in DOMAIN player_names : player_names[k] # Sought(t)
    BY <1>1, <2>1 DEF Scanned
  <2>4. op[t] = "add" => \A k \in DOMAIN player_names : player_names[k] \in Name
    BY <1>1, <2>3 DEF Sought, Whole
  <2>5. Holding(t)' /\ InFunction(t)'
    BY <1>1, <2>1, <2>4 DEF Holding, Whole, Counted, InFunction, Exit, LInv, TypeOK
  <2>6. \A u \in Thread : u # t => pc'[u] = pc[u]
    BY <2>1 DEF LInv, TypeOK
  <2> QED BY <1>1, <2>1, <2>2, <2>5, <2>6, StepInside
<1>4. CASE TakenFound(t)
  <2>1. /\ taken' = [taken EXCEPT ![t] = TRUE]
        /\ pc' = [pc EXCEPT ![t] = "found"]
        /\ UNCHANGED <<player_names, number_of_players, players_mutex, op, arg,
                       approved, registered, i>>
    BY <1>4 DEF TakenFound, Goto, array, calls
  <2>2. TypeOK'
    BY <2>1, Places DEF LInv, TypeOK, Exit
  <2>3. Holding(t)' /\ InFunction(t)'
    BY <1>1, <2>1 DEF Holding, Whole, InFunction, Exit, LInv, TypeOK
  <2>4. \A u \in Thread : u # t => pc'[u] = pc[u]
    BY <2>1 DEF LInv, TypeOK
  <2> QED BY <1>1, <2>1, <2>2, <2>3, <2>4, StepInside
<1> QED BY <1>2, <1>3, <1>4

\* One slot is written: a free one filled, a string freed, its slot cleared, or
\* the new slot filled.
LEMMA WriteLocks ==
  ASSUME LInv, NEW t \in Thread,
         AddReuse(t) \/ RemoveFree(t) \/ RemoveClear(t) \/ AddAssign(t)
  PROVE  LInv'
<1> DEFINE Value == Name \cup {NULL, Uninit, Freed}
<1>1. /\ InFunction(t) /\ Holding(t)
      /\ i[t] \in Nat \ {0} /\ number_of_players \in Nat
      /\ op[t] # "is_taken" => arg[t] \in Name
      /\ player_names \in Seq(Value)
      /\ DOMAIN player_names = 1..Len(player_names) /\ Len(player_names) \in Nat
      /\ pc \in [Thread -> Place]
  BY Alone DEF AddReuse, RemoveFree, RemoveClear, AddAssign, InFunction, LInv, TypeOK, Named
<1>2. ASSUME NEW k, NEW x \in Value, NEW where \in {"clear"} \cup Exit,
             player_names' = [player_names EXCEPT ![k] = x],
             pc' = [pc EXCEPT ![t] = where],
             UNCHANGED <<number_of_players, players_mutex, op, arg, approved,
                         registered, i, taken>>,
             where \in Exit => Whole',
             where = "clear" => Dangling(t)'
      PROVE  LInv'
  <2>1. player_names' \in Seq(Value)
    BY <1>1, <1>2, Overwrite
  <2>2. TypeOK'
    BY <1>1, <1>2, <2>1, Places DEF LInv, TypeOK
  <2>3. pc'[t] = where /\ \A u \in Thread : u # t => pc'[u] = pc[u]
    BY <1>1, <1>2
  <2>4. Holding(t)' /\ InFunction(t)'
    BY <1>2, <2>3 DEF Holding, InFunction, Exit
  <2> QED BY <1>1, <1>2, <2>2, <2>3, <2>4, StepInside
<1>3. ASSUME NEW k, NEW x \in Value, player_names' = [player_names EXCEPT ![k] = x]
      PROVE  /\ Len(player_names') = Len(player_names)
             /\ DOMAIN player_names' = DOMAIN player_names
             /\ \A j \in DOMAIN player_names :
                  player_names'[j] = IF j = k THEN x ELSE player_names[j]
  <2>1. /\ player_names' \in Seq(Value) /\ DOMAIN player_names' = DOMAIN player_names
        /\ \A j \in DOMAIN player_names :
             player_names'[j] = IF j = k THEN x ELSE player_names[j]
    BY <1>1, <1>3, Overwrite
  <2>2. Len(player_names') = Len(player_names)
    BY <1>1, <2>1, LenProperties
  <2> QED BY <2>1, <2>2
<1>4. CASE AddReuse(t)
  <2>1. /\ pc[t] = "scan" /\ op[t] = "add"
        /\ player_names' = [player_names EXCEPT ![i[t]] = arg[t]]
        /\ pc' = [pc EXCEPT ![t] = "reused"]
        /\ UNCHANGED <<number_of_players, players_mutex, op, arg, approved,
                       registered, i, taken>>
    BY <1>4 DEF AddReuse, Goto, calls
  <2>2. Whole
    BY <1>1, <2>1 DEF Holding
  <2>3. Whole'
    BY <1>1, <1>3, <2>1, <2>2 DEF Whole
  <2> QED BY <1>1, <1>2, <2>1, <2>3 DEF Exit
<1>5. CASE RemoveFree(t)
  <2>1. /\ pc[t] = "scan" /\ op[t] = "remove" /\ i[t] <= number_of_players
        /\ player_names' = [player_names EXCEPT ![i[t]] = Freed]
        /\ pc' = [pc EXCEPT ![t] = "clear"]
        /\ UNCHANGED <<number_of_players, players_mutex, op, arg, approved,
                       registered, i, taken>>
    BY <1>5 DEF RemoveFree, Goto, calls
  <2>2. Whole
    BY <1>1, <2>1 DEF Holding
  <2>3. Dangling(t)'
    BY <1>1, <1>3, <2>1, <2>2 DEF Whole, Dangling
  <2> QED BY <1>1, <1>2, <2>1, <2>3 DEF Exit
<1>6. CASE RemoveClear(t)
  <2>1. /\ pc[t] = "clear"
        /\ player_names' = [player_names EXCEPT ![i[t]] = NULL]
        /\ pc' = [pc EXCEPT ![t] = "ended"]
        /\ UNCHANGED <<number_of_players, players_mutex, op, arg, approved,
                       registered, i, taken>>
    BY <1>6 DEF RemoveClear, Goto, calls
  <2>2. Dangling(t)
    BY <1>1, <2>1 DEF Holding
  <2>3. Whole'
    BY <1>1, <1>3, <2>1, <2>2 DEF Whole, Dangling
  <2> QED BY <1>1, <1>2, <2>1, <2>3 DEF Exit
<1>7. CASE AddAssign(t)
  <2>1. /\ pc[t] = "assign"
        /\ player_names' = [player_names EXCEPT ![number_of_players] = arg[t]]
        /\ pc' = [pc EXCEPT ![t] = "appended"]
        /\ UNCHANGED <<number_of_players, players_mutex, op, arg, approved,
                       registered, i, taken>>
    BY <1>7 DEF AddAssign, Goto, calls
  <2>2. Grown(t)
    BY <1>1, <2>1 DEF Holding
  <2>3. Whole' /\ op[t] = "add"
    BY <1>1, <1>3, <2>1, <2>2 DEF Whole, Grown
  <2> QED BY <1>1, <1>2, <2>1, <2>3 DEF Exit
<1> QED BY <1>4, <1>5, <1>6, <1>7

\* realloc.
LEMMA GrowLocks ==
  ASSUME LInv, NEW t \in Thread, AddGrow(t) PROVE LInv'
<1>1. /\ pc[t] = "grow" /\ player_names' = Append(player_names, Uninit)
      /\ pc' = [pc EXCEPT ![t] = "assign"]
      /\ UNCHANGED <<number_of_players, players_mutex, op, arg, approved,
                     registered, i, taken>>
  BY DEF AddGrow, Goto, calls
<1>2. InFunction(t) /\ Counted(t)
  BY <1>1, Alone DEF InFunction, Holding
<1>3. player_names \in Seq(Name \cup {NULL, Uninit, Freed})
  BY DEF LInv, TypeOK
<1>4. /\ player_names' \in Seq(Name \cup {NULL, Uninit, Freed})
      /\ Len(player_names') = Len(player_names) + 1 /\ Len(player_names) \in Nat
      /\ DOMAIN player_names' = 1..(Len(player_names) + 1)
      /\ DOMAIN player_names = 1..Len(player_names)
      /\ \A k \in DOMAIN player_names : player_names'[k] = player_names[k]
      /\ player_names'[Len(player_names) + 1] = Uninit
  BY <1>1, <1>3
<1>5. TypeOK'
  BY <1>1, <1>4, Places DEF LInv, TypeOK
<1>6. Grown(t)'
  BY <1>1, <1>2, <1>4 DEF Grown, Counted
<1>7. Holding(t)' /\ InFunction(t)' /\ \A u \in Thread : u # t => pc'[u] = pc[u]
  BY <1>1, <1>6 DEF Holding, InFunction, Exit, LInv, TypeOK
<1> QED BY <1>1, <1>2, <1>5, <1>7, StepInside

LEMMA NextLocks == LInv /\ [Next]_vars => LInv'
<1> SUFFICES ASSUME LInv, [Next]_vars PROVE LInv'
  OBVIOUS
<1>1. CASE UNCHANGED vars
  BY <1>1
  DEF vars, array, calls, LInv, TypeOK, Exclusive, InFunction, Holding, Whole,
      Scanned, Sought, Made, Counted, Grown, Dangling, Named, Exit
<1>2. CASE \E n \in Name \cup {NULL} : AskTaken(n)
  <2>1. PICK n \in Name \cup {NULL} : AskTaken(n)
    BY <1>2
  <2>2. Begin(Main, "is_taken", n) /\ approved' = NULL /\ registered' = registered
    BY <2>1 DEF AskTaken
  <2> QED BY <2>2, BeginLocks DEF Thread, LInv, TypeOK
<1>3. CASE Add
  <2>1. /\ Begin(Main, "add", approved) /\ approved' = NULL
        /\ approved \in Name /\ registered' = registered
    BY <1>3 DEF Add, LInv, TypeOK
  <2>2. PICK n \in Name : n = approved
    BY <2>1
  <2>3. Begin(Main, "add", n)
    BY <2>1, <2>2 DEF Begin
  <2> QED BY <2>1, <2>3, BeginLocks DEF Thread, LInv, TypeOK
<1>4. CASE \E t \in GameThread : Remove(t)
  <2>1. PICK t \in GameThread, n \in registered :
          /\ Begin(t, "remove", n) /\ registered' = registered \ {n}
          /\ approved' = approved
    BY <1>4 DEF Remove
  <2>2. n \in Name /\ registered' \subseteq Name /\ approved' \in Name \cup {NULL}
        /\ t \in Thread
    BY <2>1 DEF Thread, LInv, TypeOK
  <2> QED BY <2>1, <2>2, BeginLocks
<1>5. CASE \E t \in Thread : Run(t)
  BY <1>5, ObtainLocks, ReleaseLocks, FirstLocks, ScanLocks, WriteLocks,
     GrowLocks DEF Run
<1> QED BY <1>1, <1>2, <1>3, <1>4, <1>5 DEF Next

LEMMA Locks == Spec => []LInv
  BY InitLocks, NextLocks, PTL DEF Spec

\* players_mutex is the thread's from obtain_mutex_lock to release_mutex_lock,
\* on every path through the three functions.
THEOREM MutualExclusion == Spec => []Exclusive
<1>1. LInv => Exclusive
  BY DEF LInv
<1> QED BY <1>1, Locks, PTL

\* No scan reads a slot beyond the array, one that realloc made and nobody
\* filled, or a string that is freed, for any number of threads and names.
THEOREM ReadsAreSafe == Spec => []NoWildRead
<1>1. LInv => NoWildRead
  <2> SUFFICES ASSUME LInv, NEW t \in Thread, pc[t] = "scan",
                      i[t] <= number_of_players
               PROVE  i[t] \in DOMAIN player_names /\ Slot(t) \notin {Uninit, Freed}
    BY DEF NoWildRead
  <2>1. Whole
    BY Alone DEF InFunction, Holding
  <2>2. i[t] \in DOMAIN player_names
    BY <2>1 DEF Whole, LInv, TypeOK
  <2> QED BY <2>1, <2>2, LocksAssumption DEF Whole, Slot
<1> QED BY <1>1, Locks, PTL

-----------------------------------------------------------------------------
(* The calls are atomic.  First what the callers see of the array in the     *)
(* course of a call.                                                         *)

Shown(s) == [k \in {j \in DOMAIN s : s[j] # Uninit} |->
               IF s[k] = Freed THEN NULL ELSE s[k]]

LEMMA SeqOver ==
  ASSUME NEW S, NEW T, NEW s \in Seq(S), \A k \in DOMAIN s : s[k] \in T
  PROVE  s \in Seq(T)
<1>1. DOMAIN s = 1..Len(s) /\ Len(s) \in Nat /\ s = [k \in DOMAIN s |-> s[k]]
  OBVIOUS
<1>2. s \in [1..Len(s) -> T]
  BY <1>1
<1> QED BY <1>1, <1>2, SeqDef

LEMMA ShownWhole ==
  ASSUME NEW s \in Seq(Name \cup {NULL}) PROVE Shown(s) = s
<1>1. \A k \in DOMAIN s : s[k] \notin {Uninit, Freed}
  <2>1. \A k \in DOMAIN s : s[k] \in Name \cup {NULL}
    OBVIOUS
  <2> QED BY <2>1, LocksAssumption
<1>2. {j \in DOMAIN s : s[j] # Uninit} = DOMAIN s
  BY <1>1
<1>3. Shown(s) = [k \in DOMAIN s |-> s[k]]
  BY <1>1, <1>2 DEF Shown
<1>4. s = [k \in DOMAIN s |-> s[k]]
  OBVIOUS
<1> QED BY <1>3, <1>4

\* The slot that realloc made does not show.
LEMMA ShownGrown ==
  ASSUME NEW s \in Seq(Name \cup {NULL}) PROVE Shown(Append(s, Uninit)) = s
<1> DEFINE p == Append(s, Uninit)
<1>1. /\ DOMAIN p = 1..(Len(s) + 1) /\ DOMAIN s = 1..Len(s) /\ Len(s) \in Nat
      /\ \A k \in DOMAIN s : p[k] = s[k]
      /\ p[Len(s) + 1] = Uninit
  OBVIOUS
<1>2. \A k \in DOMAIN s : s[k] \notin {Uninit, Freed}
  <2>1. \A k \in DOMAIN s : s[k] \in Name \cup {NULL}
    OBVIOUS
  <2> QED BY <2>1, LocksAssumption
<1> HIDE DEF p
<1>3. {j \in DOMAIN p : p[j] # Uninit} = DOMAIN s
  BY <1>1, <1>2
<1>4. Shown(p) = [k \in DOMAIN s |-> s[k]]
  BY <1>1, <1>2, <1>3 DEF Shown
<1>5. s = [k \in DOMAIN s |-> s[k]]
  OBVIOUS
<1> QED BY <1>4, <1>5 DEF p

\* Filling it appends to what shows.
LEMMA ShownAssigned ==
  ASSUME NEW s \in Seq(Name \cup {NULL, Uninit, Freed}), Len(s) > 0,
         s[Len(s)] = Uninit, \A k \in DOMAIN s : k # Len(s) => s[k] \in Name,
         NEW n \in Name
  PROVE  /\ Shown(s) \in Seq(Name \cup {NULL})
         /\ Slots(Shown(s), NULL) = {}
         /\ [s EXCEPT ![Len(s)] = n] = Append(Shown(s), n)
<1> DEFINE v == Shown(s)
           l == Len(s) - 1
           r == [s EXCEPT ![Len(s)] = n]
<1>1. /\ DOMAIN s = 1..(l + 1) /\ l \in Nat /\ Len(s) = l + 1
      /\ s[l + 1] = Uninit
      /\ \A k \in 1..l : s[k] \in Name /\ k \in DOMAIN s /\ k # l + 1
  OBVIOUS
<1>2. \A k \in 1..l : s[k] \notin {Uninit, Freed, NULL}
  BY <1>1, LocksAssumption, NullAssumption
<1> HIDE DEF l
<1>3. {j \in DOMAIN s : s[j] # Uninit} = 1..l
  BY <1>1, <1>2
<1>4. v = [k \in 1..l |-> s[k]]
  BY <1>2, <1>3 DEF Shown
<1> HIDE DEF v
<1>5. v \in Seq(Name) /\ Len(v) = l
  <2>1. v \in [1..l -> Name]
    BY <1>1, <1>4
  <2> QED BY <2>1, <1>1, SeqDef, LenProperties
<1>6. v \in Seq(Name \cup {NULL}) /\ DOMAIN v = 1..l
  BY <1>5, <1>4
<1>7. Slots(v, NULL) = {}
  BY <1>2, <1>4 DEF Slots
<1>8. r = Append(v, n)
  <2>1. /\ DOMAIN Append(v, n) = 1..(l + 1)
        /\ \A k \in 1..l : Append(v, n)[k] = v[k]
        /\ Append(v, n)[l + 1] = n
    BY <1>5
  <2>2. /\ DOMAIN r = 1..(l + 1)
        /\ \A k \in 1..(l + 1) : r[k] = IF k = l + 1 THEN n ELSE s[k]
    BY <1>1
  <2>3. \A k \in 1..(l + 1) : k = l + 1 \/ k \in 1..l
    BY <1>1
  <2>4. \A k \in 1..(l + 1) : r[k] = Append(v, n)[k]
    BY <1>1, <1>4, <2>1, <2>2, <2>3
  <2>5. Append(v, n) = [k \in 1..(l + 1) |-> Append(v, n)[k]]
    <3> DEFINE w == Append(v, n)
    <3>1. w \in Seq(Name) /\ DOMAIN w = 1..(l + 1)
      BY <1>5, <2>1
    <3> HIDE DEF w
    <3>2. w = [k \in DOMAIN w |-> w[k]]
      BY <3>1
    <3>3. w = [k \in 1..(l + 1) |-> w[k]]
      BY <3>1, <3>2
    <3> QED BY <3>3 DEF w
  <2>6. r = [k \in 1..(l + 1) |-> r[k]]
    BY <2>2
  <2> HIDE DEF r
  <2> QED BY <2>4, <2>5, <2>6
<1> QED BY <1>6, <1>7, <1>8 DEF v

\* A slot whose string is freed shows as free.
LEMMA ShownFreed ==
  ASSUME NEW s \in Seq(Name \cup {NULL, Uninit, Freed}),
         NEW i0 \in DOMAIN s, s[i0] = Freed,
         \A k \in DOMAIN s : k # i0 => s[k] \in Name \cup {NULL}
  PROVE  Shown(s) = [s EXCEPT ![i0] = NULL]
<1>1. \A k \in DOMAIN s : k # i0 => s[k] \notin {Uninit, Freed}
  BY LocksAssumption
<1>2. \A k \in DOMAIN s : s[k] # Uninit
  BY <1>1, LocksAssumption
<1>3. {j \in DOMAIN s : s[j] # Uninit} = DOMAIN s
  BY <1>2
<1>4. Shown(s) = [k \in DOMAIN s |-> IF k = i0 THEN NULL ELSE s[k]]
  BY <1>1, <1>3 DEF Shown
<1> QED BY <1>4

LEMMA FoundFirst ==
  ASSUME NEW s \in Seq(Name \cup {NULL}), NEW x, NEW k \in DOMAIN s, s[k] = x,
         \A j \in DOMAIN s : j < k => s[j] # x
  PROVE  Slots(s, x) # {} /\ First(Slots(s, x)) = k
<1>1. Slots(s, x) # {}
  BY DEF Slots
<1> DEFINE f == First(Slots(s, x))
<1>2. /\ f \in DOMAIN s /\ f \in Nat /\ s[f] = x
      /\ \A j \in DOMAIN s : j < f => s[j] # x
  BY <1>1, FirstSlot
<1>3. k \in Nat
  OBVIOUS
<1> HIDE DEF f
<1>4. ~(f < k) /\ ~(k < f)
  BY <1>2
<1>5. f = k
  BY <1>2, <1>3, <1>4
<1> QED BY <1>1, <1>5 DEF f

\* What Service does to the array is what PlayerNames says.
LEMMA SameFunctions ==
  ASSUME NEW s, NEW n
  PROVE  /\ Service!add_player_name(s, n) = add_player_name(s, n)
         /\ Service!remove_player_name(s, n) = remove_player_name(s, n)
         /\ Service!is_player_name_taken(s, n) = is_player_name_taken(s, n)
BY DEF Service!add_player_name, add_player_name, Service!remove_player_name,
       remove_player_name, Service!is_player_name_taken, is_player_name_taken,
       Service!Slots, Slots, Service!First, First

Status == [t \in Thread |-> IF pc[t] = "idle" THEN "idle"
                            ELSE IF Committed(t) THEN "done" ELSE "called"]

\* A step is one thread's, and only the holder of the lock writes the array.
LEMMA StatusMoves ==
  ASSUME LInv, NEW t \in Thread, \A u \in Thread : u # t => pc'[u] = pc[u],
         \A u \in Thread : u # t => op'[u] = op[u],
         player_names' = player_names \/ InFunction(t),
         NEW x, x = Status'[t]
  PROVE  Status' = [Status EXCEPT ![t] = x]
<1>1. ASSUME NEW u \in Thread, u # t PROVE Status'[u] = Status[u]
  <2>1. CASE player_names' = player_names
    BY <1>1, <2>1 DEF Status, Committed
  <2>2. CASE InFunction(t)
    <3>1. pc[u] \in {"idle", "obtain"}
      BY <1>1, <2>2, Alone
    <3> QED BY <1>1, <3>1 DEF Status, Committed, Exits
  <2> QED BY <2>1, <2>2
<1>2. Status = [u \in Thread |-> Status[u]] /\ Status' = [u \in Thread |-> Status'[u]]
  BY DEF Status
<1> QED BY <1>1, <1>2

LEMMA StatusStays ==
  ASSUME LInv, NEW t \in Thread, \A u \in Thread : u # t => pc'[u] = pc[u],
         \A u \in Thread : u # t => op'[u] = op[u],
         player_names' = player_names \/ InFunction(t),
         Status'[t] = Status[t]
  PROVE  Status' = Status
<1>1. PICK x : x = Status'[t]
  OBVIOUS
<1>2. Status' = [Status EXCEPT ![t] = x]
  BY <1>1, StatusMoves
<1>3. Status = [u \in Thread |-> Status[u]]
  BY DEF Status
<1> QED BY <1>1, <1>2, <1>3

\* The instance in terms of Shown and Status.
LEMMA ServiceView ==
  /\ Valid = Shown(player_names)
  /\ Valid' = Shown(player_names')
BY DEF Valid, Shown

LEMMA InitService == Init => Service!Init
<1> SUFFICES ASSUME Init PROVE Service!Init
  OBVIOUS
<1>1. Valid = <<>>
  <2>1. player_names = <<>> /\ <<>> \in Seq(Name \cup {NULL})
    BY DEF Init
  <2> QED BY <2>1, ShownWhole, ServiceView
<1>2. Status = [t \in Thread |-> "idle"]
  BY DEF Init, Status
<1>3. LInv
  BY InitLocks
<1>4. op \in [Thread -> Service!Op] /\ arg \in [Thread -> Name \cup {NULL}]
  BY <1>3 DEF LInv, TypeOK, Service!Op
<1> QED BY <1>1, <1>2, <1>4 DEF Service!Init, Status, Init

\* The beginning of a call.
LEMMA CallStep ==
  ASSUME LInv, NEW t \in Thread,
         NEW o \in {"add", "remove", "is_taken"}, NEW n \in Name \cup {NULL}, Begin(t, o, n)
  PROVE  Service!Next
<1>1. /\ pc[t] = "idle" /\ pc' = [pc EXCEPT ![t] = "obtain"]
      /\ op' = [op EXCEPT ![t] = o] /\ arg' = [arg EXCEPT ![t] = n]
      /\ UNCHANGED <<player_names, taken>>
  BY DEF Begin, Goto, array
<1>2. \A u \in Thread : u # t => pc'[u] = pc[u] /\ op'[u] = op[u]
  BY <1>1 DEF LInv, TypeOK
<1>3. Status[t] = "idle" /\ Status'[t] = "called"
  BY <1>1 DEF Status, Committed, Exits, LInv, TypeOK
<1>4. Status' = [Status EXCEPT ![t] = "called"]
  BY <1>1, <1>2, <1>3, StatusMoves
<1>5. Valid' = Valid
  BY <1>1, ServiceView
<1>6. Service!Call(t, o, n)
  BY <1>1, <1>3, <1>4, <1>5 DEF Service!Call, Status
<1> QED BY <1>6 DEF Service!Next, Service!Op

\* The moment a call takes effect.
LEMMA ExecuteStep ==
  ASSUME LInv, NEW t \in Thread, player_names' = player_names \/ InFunction(t),
         \A u \in Thread : u # t => pc'[u] = pc[u], UNCHANGED <<op, arg>>,
         Status[t] = "called", Status'[t] = "done",
         op[t] = "add"      => Valid' = add_player_name(Valid, arg[t]) /\ taken' = taken,
         op[t] = "remove"   => Valid' = remove_player_name(Valid, arg[t]) /\ taken' = taken,
         op[t] = "is_taken" => /\ Valid' = Valid
                               /\ taken' = [taken EXCEPT ![t] =
                                              is_player_name_taken(Valid, arg[t])]
  PROVE  Service!Next
<1>1. Status' = [Status EXCEPT ![t] = "done"]
  BY StatusMoves
<1>2. op[t] \in {"add", "remove", "is_taken"}
  BY DEF LInv, TypeOK
<1>3. Service!Execute(t)
  BY <1>1, <1>2, SameFunctions DEF Service!Execute, Status
<1> QED BY <1>3 DEF Service!Next

LEMMA ReturnStep ==
  ASSUME LInv, NEW t \in Thread, release_mutex_lock(t)
  PROVE  Service!Next
<1>1. /\ <<op[t], pc[t]>> \in Exits /\ pc' = [pc EXCEPT ![t] = "idle"]
      /\ UNCHANGED <<player_names, op, arg, taken>>
  BY DEF release_mutex_lock, Goto, array
<1>2. \A u \in Thread : u # t => pc'[u] = pc[u]
  BY <1>1 DEF LInv, TypeOK
<1>3. Status[t] = "done" /\ Status'[t] = "idle"
  BY <1>1, Places DEF Status, Committed, Exit, LInv, TypeOK
<1>4. Status' = [Status EXCEPT ![t] = "idle"]
  BY <1>1, <1>2, <1>3, StatusMoves
<1>5. Service!Return(t)
  BY <1>1, <1>3, <1>4, ServiceView DEF Service!Return, Status
<1> QED BY <1>5 DEF Service!Next

LEMMA InnerStep ==
  ASSUME LInv, NEW t \in Thread, \A u \in Thread : u # t => pc'[u] = pc[u],
         player_names' = player_names \/ InFunction(t),
         Status'[t] = Status[t], Valid' = Valid, UNCHANGED <<op, arg, taken>>
  PROVE  UNCHANGED Service!vars
<1>1. Status' = Status
  BY StatusStays
<1> QED BY <1>1 DEF Service!vars, Status

\* Every action of a thread, as its callers see it.
LEMMA RunStep ==
  ASSUME LInv, LInv', NEW t \in Thread, Run(t)
  PROVE  Service!Next \/ UNCHANGED Service!vars
<1> DEFINE Value == Name \cup {NULL, Uninit, Freed}
<1>1. /\ player_names \in Seq(Value) /\ number_of_players \in Nat
      /\ i[t] \in Nat \ {0}
      /\ op[t] # "is_taken" => arg[t] \in Name
      /\ op[t] \in {"add", "remove", "is_taken"}
      /\ pc \in [Thread -> Place]
  BY DEF LInv, TypeOK, Named
<1>2. InFunction(t) => Holding(t) /\ (InFunction(t)' => Holding(t)')
  BY DEF LInv
<1>3. ASSUME Whole
      PROVE  /\ player_names \in Seq(Name \cup {NULL})
             /\ Valid = player_names
             /\ DOMAIN player_names = 1..number_of_players
  <2>1. player_names \in Seq(Name \cup {NULL})
    BY <1>1, <1>3, SeqOver DEF Whole
  <2>2. DOMAIN player_names = 1..Len(player_names)
    BY <1>1
  <2> QED BY <1>3, <2>1, <2>2, ShownWhole, ServiceView DEF Whole
<1>4. CASE obtain_mutex_lock(t)
  <2>1. /\ pc[t] = "obtain" /\ players_mutex = NULL
        /\ pc' = [pc EXCEPT ![t] = Entry(t)]
        /\ taken' = [taken EXCEPT ![t] = @ \/ (op[t] = "is_taken" /\ arg[t] = NULL)]
        /\ UNCHANGED <<player_names, op, arg>>
    BY <1>4 DEF obtain_mutex_lock, Goto, array, calls
  <2>2. /\ pc'[t] = Entry(t) /\ \A u \in Thread : u # t => pc'[u] = pc[u]
        /\ Status[t] = "called" /\ Valid' = Valid
        /\ taken \in [Thread -> BOOLEAN]
    BY <1>1, <2>1, ServiceView DEF Status, Committed, Exits, LInv, TypeOK
  <2>3. CASE arg[t] = NULL
    <3>1. op[t] = "is_taken" /\ Entry(t) = "empty"
      BY <1>1, <2>3, NullAssumption DEF Entry
    <3>2. Status'[t] = "done"
      BY <2>1, <2>2, <3>1 DEF Status, Committed, Exits
    <3>3. taken' = [taken EXCEPT ![t] = is_player_name_taken(Valid, arg[t])]
      BY <2>1, <2>2, <2>3, <3>1 DEF is_player_name_taken
    <3> QED BY <2>1, <2>2, <3>1, <3>2, <3>3, ExecuteStep
  <2>4. CASE arg[t] # NULL
    <3>1. /\ Entry(t) \in {"first", "scan"}
          /\ Entry(t) = "first" => player_names = <<>>
      BY <2>4 DEF Entry
    <3>2. Status'[t] = Status[t]
      BY <2>1, <2>2, <3>1 DEF Status, Committed, Exits
    <3>3. taken' = taken
      BY <2>1, <2>2, <2>4
    <3> QED BY <2>1, <2>2, <3>2, <3>3, InnerStep
  <2> QED BY <2>3, <2>4
<1>5. CASE release_mutex_lock(t)
  BY <1>5, ReturnStep
<1>6. CASE AddFirst(t)
  <2>1. /\ pc[t] = "first" /\ player_names = <<>> /\ player_names' = <<arg[t]>>
        /\ UNCHANGED <<pc, op, arg, taken>>
    BY <1>6 DEF AddFirst, calls
  <2>2. op[t] = "add"
    BY <1>2, <2>1 DEF InFunction, Holding, Made
  <2>3. Status[t] = "called" /\ Status'[t] = "done"
    <3>1. <<arg[t]>> # <<>>
      OBVIOUS
    <3>2. <<op[t], "first">> \notin Exits
      BY Places DEF Exit
    <3>3. pc'[t] = "first" /\ player_names' # <<>>
      BY <2>1, <3>1
    <3>4. ~Committed(t) /\ Committed(t)'
      BY <2>1, <3>2, <3>3 DEF Committed
    <3> QED BY <2>1, <3>3, <3>4 DEF Status
  <2>4. player_names \in Seq(Name \cup {NULL}) /\ player_names' \in Seq(Name \cup {NULL})
    BY <1>1, <2>1, <2>2
  <2>5. Valid = <<>> /\ Valid' = <<arg[t]>>
    BY <2>1, <2>4, ShownWhole, ServiceView
  <2>6. add_player_name(<<>>, arg[t]) = <<arg[t]>>
    <3>1. Slots(<<>>, NULL) = {}
      BY DEF Slots
    <3> QED BY <1>1, <2>2, <3>1, NullAssumption DEF add_player_name
  <2> QED BY <2>1, <2>2, <2>3, <2>5, <2>6, ExecuteStep DEF InFunction
<1>7. CASE CountFirst(t)
  <2>1. /\ pc[t] = "first" /\ player_names # <<>>
        /\ pc' = [pc EXCEPT ![t] = "counted"]
        /\ UNCHANGED <<player_names, op, arg, taken>>
    BY <1>7 DEF CountFirst, Goto, calls
  <2>2. op[t] = "add"
    BY <1>2, <2>1 DEF InFunction, Holding, Made
  <2>3. Status'[t] = Status[t] /\ \A u \in Thread : u # t => pc'[u] = pc[u]
    BY <1>1, <2>1, <2>2 DEF Status, Committed, Exits
  <2> QED BY <2>1, <2>3, ServiceView, InnerStep
<1>8. CASE ScanNext(t)
  <2>1. pc[t] = "scan" /\ UNCHANGED <<player_names, pc, op, arg, taken>>
    BY <1>8 DEF ScanNext, array, calls
  <2>2. Status'[t] = Status[t]
    BY <2>1 DEF Status, Committed, Exits
  <2> QED BY <2>1, <2>2, ServiceView, InnerStep
<1>9. CASE ScanEnd(t)
  <2>1. /\ pc[t] = "scan" /\ i[t] > number_of_players
        /\ UNCHANGED <<player_names, op, arg>>
        /\ op[t] = "add" => /\ pc' = [pc EXCEPT ![t] = "grow"]
                            /\ taken' = taken
        /\ op[t] # "add" => pc' = [pc EXCEPT ![t] = "ended"]
        /\ op[t] = "remove" => taken' = taken
        /\ op[t] = "is_taken" => taken' = [taken EXCEPT ![t] = FALSE]
    BY <1>9 DEF ScanEnd, Goto, calls
  <2>2. InFunction(t) /\ Whole /\ Scanned(t) /\ arg[t] \in Name
    BY <1>2, <2>1 DEF InFunction, Holding
  <2>3. \A u \in Thread : u # t => pc'[u] = pc[u]
    BY <1>1, <2>1
  <2>4. Valid = player_names /\ Valid' = Valid
    BY <1>3, <2>1, <2>2, ServiceView
  <2>5. op[t] # "add" => Slots(Valid, arg[t]) = {}
    BY <1>1, <1>3, <2>1, <2>2, <2>4 DEF Scanned, Sought, Slots
  <2>6. CASE op[t] = "add"
    <3>1. Status'[t] = Status[t]
      BY <1>1, <2>1, <2>6 DEF Status, Committed, Exits
    <3> QED BY <2>1, <2>3, <2>4, <2>6, <3>1, InnerStep
  <2>7. CASE op[t] # "add"
    <3>1. Status[t] = "called" /\ Status'[t] = "done"
      BY <1>1, <2>1, <2>7 DEF Status, Committed, Exits
    <3>2. /\ remove_player_name(Valid, arg[t]) = Valid
          /\ is_player_name_taken(Valid, arg[t]) = FALSE
      BY <2>2, <2>5, <2>7, NullAssumption DEF remove_player_name, is_player_name_taken
    <3> QED BY <2>1, <2>2, <2>3, <2>4, <2>7, <3>1, <3>2, ExecuteStep
  <2> QED BY <2>6, <2>7
<1>10. ASSUME pc[t] = "scan", i[t] <= number_of_players, Found(t)
       PROVE  /\ InFunction(t) /\ Whole
              /\ i[t] \in DOMAIN player_names
              /\ LET S == Slots(player_names, Sought(t))
                 IN  S # {} /\ First(S) = i[t]
  <2>1. InFunction(t) /\ Whole /\ Scanned(t)
    BY <1>2, <1>10 DEF InFunction, Holding
  <2>2. i[t] \in DOMAIN player_names /\ player_names[i[t]] = Sought(t)
    BY <1>1, <1>3, <1>10, <2>1 DEF Found, Slot, Sought
  <2>3. \A k \in DOMAIN player_names : k < i[t] => player_names[k] # Sought(t)
    BY <2>1 DEF Scanned
  <2>4. player_names \in Seq(Name \cup {NULL})
    BY <1>3, <2>1
  <2> QED BY <2>1, <2>2, <2>3, <2>4, FoundFirst
<1>11. CASE TakenFound(t)
  <2>1. /\ pc[t] = "scan" /\ op[t] = "is_taken"
        /\ i[t] <= number_of_players /\ Found(t)
        /\ taken' = [taken EXCEPT ![t] = TRUE]
        /\ pc' = [pc EXCEPT ![t] = "found"]
        /\ UNCHANGED <<player_names, op, arg>>
    BY <1>11 DEF TakenFound, Goto, array, calls
  <2>2. /\ InFunction(t) /\ Valid = player_names /\ Valid' = Valid
        /\ Slots(player_names, arg[t]) # {}
    BY <1>3, <1>10, <2>1, ServiceView DEF Sought
  <2>3. is_player_name_taken(Valid, arg[t]) = TRUE
    BY <2>2 DEF is_player_name_taken
  <2>4. /\ \A u \in Thread : u # t => pc'[u] = pc[u]
        /\ Status[t] = "called" /\ Status'[t] = "done"
    BY <1>1, <2>1 DEF Status, Committed, Exits
  <2> QED BY <2>1, <2>2, <2>3, <2>4, ExecuteStep
<1>12. CASE AddReuse(t)
  <2>1. /\ pc[t] = "scan" /\ op[t] = "add"
        /\ i[t] <= number_of_players /\ Found(t)
        /\ player_names' = [player_names EXCEPT ![i[t]] = arg[t]]
        /\ pc' = [pc EXCEPT ![t] = "reused"]
        /\ UNCHANGED <<op, arg, taken>>
    BY <1>12 DEF AddReuse, Goto, calls
  <2>2. /\ InFunction(t) /\ Valid = player_names
        /\ player_names \in Seq(Name \cup {NULL})
        /\ Slots(player_names, NULL) # {} /\ First(Slots(player_names, NULL)) = i[t]
    BY <1>3, <1>10, <2>1 DEF Sought
  <2>3. add_player_name(Valid, arg[t]) = player_names'
    BY <1>1, <2>1, <2>2, NullAssumption DEF add_player_name
  <2>4. player_names' \in Seq(Name \cup {NULL})
    <3>1. PICK n \in Name : n = arg[t]
      BY <1>1, <2>1
    <3>2. [player_names EXCEPT ![i[t]] = n] \in Seq(Name \cup {NULL})
      BY <2>2, Overwrite
    <3> QED BY <2>1, <3>1, <3>2
  <2>5. Valid' = player_names'
    BY <2>4, ShownWhole, ServiceView
  <2>6. /\ \A u \in Thread : u # t => pc'[u] = pc[u]
        /\ Status[t] = "called" /\ Status'[t] = "done"
    BY <1>1, <2>1 DEF Status, Committed, Exits
  <2> QED BY <2>1, <2>2, <2>3, <2>5, <2>6, ExecuteStep
<1>13. CASE RemoveFree(t)
  <2>1. /\ pc[t] = "scan" /\ op[t] = "remove"
        /\ i[t] <= number_of_players /\ Found(t)
        /\ player_names' = [player_names EXCEPT ![i[t]] = Freed]
        /\ pc' = [pc EXCEPT ![t] = "clear"]
        /\ UNCHANGED <<op, arg, taken>>
    BY <1>13 DEF RemoveFree, Goto, calls
  <2>2. /\ InFunction(t) /\ Valid = player_names
        /\ player_names \in Seq(Name \cup {NULL}) /\ i[t] \in DOMAIN player_names
        /\ Slots(player_names, arg[t]) # {}
        /\ First(Slots(player_names, arg[t])) = i[t]
    BY <1>3, <1>10, <2>1 DEF Sought
  <2>3. remove_player_name(Valid, arg[t]) = [player_names EXCEPT ![i[t]] = NULL]
    BY <1>1, <2>1, <2>2, NullAssumption DEF remove_player_name
  <2>4. Valid' = [player_names EXCEPT ![i[t]] = NULL]
    <3> DEFINE s == [player_names EXCEPT ![i[t]] = Freed]
    <3>1. /\ s \in Seq(Value) /\ DOMAIN s = DOMAIN player_names
          /\ \A k \in DOMAIN player_names :
               s[k] = IF k = i[t] THEN Freed ELSE player_names[k]
      BY <1>1, Overwrite
    <3>2. \A k \in DOMAIN s : k # i[t] => s[k] \in Name \cup {NULL}
      BY <2>2, <3>1
    <3>3. Shown(s) = [s EXCEPT ![i[t]] = NULL]
      <4> HIDE DEF s
      <4> QED BY <2>2, <3>1, <3>2, ShownFreed
    <3>4. [s EXCEPT ![i[t]] = NULL] = [player_names EXCEPT ![i[t]] = NULL]
      OBVIOUS
    <3> QED BY <2>1, <3>3, <3>4, ServiceView
  <2>5. /\ \A u \in Thread : u # t => pc'[u] = pc[u]
        /\ Status[t] = "called" /\ Status'[t] = "done"
    BY <1>1, <2>1 DEF Status, Committed, Exits
  <2> QED BY <2>1, <2>2, <2>3, <2>4, <2>5, ExecuteStep
<1>14. CASE RemoveClear(t)
  <2>1. /\ pc[t] = "clear"
        /\ player_names' = [player_names EXCEPT ![i[t]] = NULL]
        /\ pc' = [pc EXCEPT ![t] = "ended"]
        /\ UNCHANGED <<op, arg, taken>>
    BY <1>14 DEF RemoveClear, Goto, calls
  <2>2. InFunction(t) /\ Dangling(t)
    BY <1>2, <2>1 DEF InFunction, Holding
  <2>3. Valid = player_names'
    BY <1>1, <2>1, <2>2, ShownFreed, ServiceView DEF Dangling
  <2>4. pc'[t] = "ended" /\ \A u \in Thread : u # t => pc'[u] = pc[u]
    BY <1>1, <2>1
  <2>5. Whole'
    BY <2>4 DEF LInv, Holding, Exit
  <2>6. player_names' \in Seq(Name \cup {NULL})
    <3>1. player_names' \in Seq(Value)
      BY DEF LInv, TypeOK
    <3> QED BY <2>5, <3>1, SeqOver DEF Whole
  <2>7. Valid' = Valid
    BY <2>3, <2>6, ShownWhole, ServiceView
  <2>8. Status'[t] = Status[t]
    BY <2>1, <2>2, <2>4 DEF Status, Committed, Exits, Dangling
  <2> QED BY <2>1, <2>2, <2>4, <2>7, <2>8, InnerStep
<1>15. CASE AddGrow(t)
  <2>1. /\ pc[t] = "grow" /\ player_names' = Append(player_names, Uninit)
        /\ pc' = [pc EXCEPT ![t] = "assign"]
        /\ UNCHANGED <<op, arg, taken>>
    BY <1>15 DEF AddGrow, Goto, calls
  <2>2. InFunction(t) /\ Counted(t)
    BY <1>2, <2>1 DEF InFunction, Holding
  <2>3. player_names \in Seq(Name \cup {NULL})
    <3>1. \A k \in DOMAIN player_names : player_names[k] \in Name \cup {NULL}
      BY <2>2 DEF Counted
    <3> QED BY <1>1, <3>1, SeqOver
  <2>4. Valid = player_names /\ Valid' = player_names
    BY <2>1, <2>3, ShownWhole, ShownGrown, ServiceView
  <2>5. Status'[t] = Status[t] /\ \A u \in Thread : u # t => pc'[u] = pc[u]
    BY <1>1, <2>1 DEF Status, Committed, Exits
  <2> QED BY <2>1, <2>2, <2>4, <2>5, InnerStep
<1>16. CASE AddAssign(t)
  <2>1. /\ pc[t] = "assign"
        /\ player_names' = [player_names EXCEPT ![number_of_players] = arg[t]]
        /\ pc' = [pc EXCEPT ![t] = "appended"]
        /\ UNCHANGED <<op, arg, taken>>
    BY <1>16 DEF AddAssign, Goto, calls
  <2>2. InFunction(t) /\ Grown(t)
    BY <1>2, <2>1 DEF InFunction, Holding
  <2>3. /\ Valid \in Seq(Name \cup {NULL}) /\ Slots(Valid, NULL) = {}
        /\ player_names' = Append(Valid, arg[t])
    <3>1. PICK n \in Name : n = arg[t]
      BY <1>1, <2>2 DEF Grown
    <3> QED BY <1>1, <2>1, <2>2, <3>1, ShownAssigned, ServiceView DEF Grown
  <2>4. add_player_name(Valid, arg[t]) = player_names'
    BY <1>1, <2>2, <2>3, NullAssumption DEF add_player_name, Grown
  <2>5. player_names' \in Seq(Name \cup {NULL})
    BY <1>1, <2>2, <2>3 DEF Grown
  <2>6. Valid' = player_names'
    BY <2>5, ShownWhole, ServiceView
  <2>7. /\ \A u \in Thread : u # t => pc'[u] = pc[u]
        /\ Status[t] = "called" /\ Status'[t] = "done"
    BY <1>1, <2>1, <2>2 DEF Status, Committed, Exits, Grown
  <2> QED BY <2>1, <2>2, <2>2, <2>4, <2>6, <2>7, ExecuteStep DEF Grown
<1> QED BY <1>4, <1>5, <1>6, <1>7, <1>8, <1>9, <1>11, <1>12, <1>13, <1>14, <1>15, <1>16
    DEF Run

LEMMA NextService ==
  LInv /\ LInv' /\ [Next]_vars => [Service!Next]_(Service!vars)
<1> SUFFICES ASSUME LInv, LInv', [Next]_vars
             PROVE  Service!Next \/ UNCHANGED Service!vars
  OBVIOUS
<1>1. CASE UNCHANGED vars
  BY <1>1, ServiceView DEF vars, array, calls, Service!vars, Committed
<1>2. CASE \E n \in Name \cup {NULL} : AskTaken(n)
  BY <1>2, CallStep DEF AskTaken, Thread
<1>3. CASE Add
  <2>1. PICK n \in Name : n = approved
    BY <1>3 DEF Add, LInv, TypeOK
  <2>2. Begin(Main, "add", n)
    BY <1>3, <2>1 DEF Add, Begin
  <2> QED BY <2>2, CallStep DEF Thread
<1>4. CASE \E t \in GameThread : Remove(t)
  <2>1. PICK t \in GameThread, n \in registered : Begin(t, "remove", n)
    BY <1>4 DEF Remove
  <2>2. n \in Name /\ t \in Thread
    BY <2>1 DEF LInv, TypeOK, Thread
  <2> QED BY <2>1, <2>2, CallStep
<1>5. CASE \E t \in Thread : Run(t)
  BY <1>5, RunStep
<1> QED BY <1>1, <1>2, <1>3, <1>4, <1>5 DEF Next

\* Each of the three functions takes effect at one moment between its call and
\* its return, with the effect PlayerNames gives it, for any number of threads:
\* a slot that realloc made, one whose string is freed, and a count that is ahead
\* of the array are seen by nobody.
THEOREM FunctionsAreAtomic == Spec => CallsAreAtomic
  BY InitService, NextService, Locks, PTL DEF Spec, CallsAreAtomic, Service!Spec
=============================================================================
