-------------------------- MODULE PlayerNamesProofs -------------------------
(***************************************************************************)
(* What the three functions on player_names do, for any array.             *)
(***************************************************************************)
EXTENDS PlayerNames, FiniteSetTheorems, WellFoundedInduction, TLAPS

-----------------------------------------------------------------------------
(* The first slot of a set of slots.                                        *)

LEMMA Least ==
  ASSUME NEW S, S \subseteq Nat, S # {}
  PROVE  First(S) \in S /\ \A j \in S : First(S) <= j
<1> DEFINE R == {ss \in Nat \X Nat : ss[1] < ss[2]}
<1>1. IsWellFoundedOn(R, Nat)
  BY NatLessThanWellFounded DEF OpToRel
<1> HIDE DEF R
<1>2. PICK x \in S : \A y \in S : ~ (<<y, x>> \in R)
  BY <1>1, WFMin
<1>3. ASSUME NEW y \in S PROVE x <= y
  <2>1. x \in Nat /\ y \in Nat
    OBVIOUS
  <2>2. <<y, x>> \in R <=> y < x
    BY <2>1 DEF R
  <2> QED BY <1>2, <2>1, <2>2
<1> QED BY <1>3 DEF First

LEMMA FirstSlot ==
  ASSUME NEW names \in Seq(Name \cup {NULL}), NEW x, Slots(names, x) # {}
  PROVE  LET i == First(Slots(names, x))
         IN  /\ i \in DOMAIN names /\ i \in Nat /\ names[i] = x
             /\ \A j \in DOMAIN names : j < i => names[j] # x
<1>1. Slots(names, x) \subseteq Nat /\ DOMAIN names \subseteq Nat
  BY DEF Slots
<1> DEFINE i == First(Slots(names, x))
<1>2. i \in Slots(names, x) /\ \A j \in Slots(names, x) : i <= j
  BY <1>1, Least
<1> HIDE DEF i
<1>3. \A j \in DOMAIN names : j < i => names[j] # x
  BY <1>1, <1>2 DEF Slots
<1> QED BY <1>1, <1>2, <1>3 DEF Slots, i

-----------------------------------------------------------------------------
(* The three functions on the array of names.                               *)

LEMMA Overwrite ==
  ASSUME NEW S, NEW q \in Seq(S), NEW i, NEW x \in S
  PROVE  /\ [q EXCEPT ![i] = x] \in Seq(S)
         /\ DOMAIN [q EXCEPT ![i] = x] = DOMAIN q
         /\ \A j \in DOMAIN q : [q EXCEPT ![i] = x][j] = IF j = i THEN x ELSE q[j]
<1> DEFINE r == [q EXCEPT ![i] = x]
<1>1. DOMAIN r = 1..Len(q) /\ DOMAIN q = 1..Len(q) /\ Len(q) \in Nat
  OBVIOUS
<1>2. \A j \in DOMAIN q : r[j] = IF j = i THEN x ELSE q[j]
  OBVIOUS
<1>3. \A j \in DOMAIN q : q[j] \in S
  OBVIOUS
<1>4. r \in [1..Len(q) -> S]
  BY <1>1, <1>2, <1>3
<1>5. r \in Seq(S)
  BY <1>1, <1>4
<1> QED BY <1>1, <1>2, <1>5

\* remove_player_name frees at most one slot and leaves the others alone.
LEMMA RemoveFrees ==
  ASSUME NEW names \in Seq(Name \cup {NULL}), NEW n
  PROVE  LET new == remove_player_name(names, n)
         IN  /\ new \in Seq(Name \cup {NULL})
             /\ DOMAIN new = DOMAIN names
             /\ \A j \in DOMAIN names : new[j] = names[j] \/ new[j] = NULL
<1>1. CASE n = NULL \/ Slots(names, n) = {}
  BY <1>1 DEF remove_player_name
<1>2. CASE n # NULL /\ Slots(names, n) # {}
  <2> DEFINE i == First(Slots(names, n))
  <2>1. remove_player_name(names, n) = [names EXCEPT ![i] = NULL]
    BY <1>2 DEF remove_player_name
  <2> HIDE DEF i
  <2> QED BY <2>1, Overwrite
<1> QED BY <1>1, <1>2

\* add_player_name puts the name in one slot, which was free or did not exist.
LEMMA AddPutsOne ==
  ASSUME NEW names \in Seq(Name \cup {NULL}), NEW n \in Name
  PROVE  LET new == add_player_name(names, n)
         IN  /\ new \in Seq(Name \cup {NULL})
             /\ \E i : \A j \in DOMAIN new :
                  \/ j = i /\ new[j] = n
                  \/ j # i /\ j \in DOMAIN names /\ new[j] = names[j]
<1>1. CASE Slots(names, NULL) = {}
  <2>1. add_player_name(names, n) = Append(names, n)
    BY <1>1, NullAssumption DEF add_player_name
  <2>2. /\ Append(names, n) \in Seq(Name \cup {NULL})
        /\ \A j \in DOMAIN Append(names, n) :
             \/ j = Len(names) + 1 /\ Append(names, n)[j] = n
             \/ /\ j # Len(names) + 1
                /\ j \in DOMAIN names /\ Append(names, n)[j] = names[j]
    OBVIOUS
  <2> QED BY <2>1, <2>2
<1>2. CASE Slots(names, NULL) # {}
  <2> DEFINE i == First(Slots(names, NULL))
  <2> DEFINE new == [names EXCEPT ![i] = n]
  <2>1. add_player_name(names, n) = new
    BY <1>2, NullAssumption DEF add_player_name
  <2> HIDE DEF i
  <2>2. /\ new \in Seq(Name \cup {NULL}) /\ DOMAIN new = DOMAIN names
        /\ \A j \in DOMAIN new : new[j] = IF j = i THEN n ELSE names[j]
    BY Overwrite
  <2> HIDE DEF new
  <2> QED BY <2>1, <2>2
<1> QED BY <1>1, <1>2

\* So the number of names in the array is a number.
LEMMA FinitelyManyNames ==
  ASSUME NEW names \in Seq(Name \cup {NULL})
  PROVE  Cardinality(Names(names)) \in Nat
<1> DEFINE slots == 1..Len(names)
           T == {names[i] : i \in slots}
<1>1. IsFiniteSet(slots)
  BY FS_Interval
<1>2. names \in Surjection(slots, T)
  <2>1. names \in [slots -> T]
    OBVIOUS
  <2>2. \A t \in T : \E i \in slots : names[i] = t
    OBVIOUS
  <2> QED BY <2>1, <2>2 DEF Surjection
<1>3. IsFiniteSet(T)
  BY <1>1, <1>2, FS_Surjection
<1>4. Names(names) \in SUBSET T
  BY DEF Names, Slots
<1> QED BY <1>3, <1>4, FS_Subset, FS_CardinalityType

-----------------------------------------------------------------------------
(* What they do to the set of names.                                        *)

\* Adding a name adds it and nothing else.
LEMMA AddNames ==
  ASSUME NEW names \in Seq(Name \cup {NULL}), NEW n \in Name
  PROVE  Names(add_player_name(names, n)) = Names(names) \cup {n}
<1>1. CASE Slots(names, NULL) = {}
  <2>1. add_player_name(names, n) = Append(names, n)
    BY <1>1, NullAssumption DEF add_player_name
  <2>2. /\ DOMAIN Append(names, n) = 1..(Len(names) + 1)
        /\ DOMAIN names = 1..Len(names) /\ Len(names) \in Nat
        /\ \A j \in DOMAIN names : Append(names, n)[j] = names[j]
        /\ Append(names, n)[Len(names) + 1] = n
    OBVIOUS
  <2>3. \A m : (\E j \in DOMAIN Append(names, n) : Append(names, n)[j] = m)
                 <=> (m = n \/ \E j \in DOMAIN names : names[j] = m)
    <3>1. /\ \A j \in DOMAIN Append(names, n) : j = Len(names) + 1 \/ j \in DOMAIN names
          /\ \A j \in DOMAIN names : j \in DOMAIN Append(names, n)
          /\ Len(names) + 1 \in DOMAIN Append(names, n)
      BY <2>2
    <3> QED BY <2>2, <3>1
  <2> QED BY <2>1, <2>3 DEF Names, Slots
<1>2. CASE Slots(names, NULL) # {}
  <2> DEFINE i == First(Slots(names, NULL))
             new == [names EXCEPT ![i] = n]
  <2>1. add_player_name(names, n) = new
    BY <1>2, NullAssumption DEF add_player_name
  <2>2. i \in DOMAIN names /\ names[i] = NULL
    BY <1>2, FirstSlot
  <2> HIDE DEF i
  <2>3. /\ DOMAIN new = DOMAIN names
        /\ \A j \in DOMAIN names : new[j] = IF j = i THEN n ELSE names[j]
    BY Overwrite
  <2> HIDE DEF new
  <2>4. \A m \in Name : (\E j \in DOMAIN new : new[j] = m)
                 <=> (m = n \/ \E j \in DOMAIN names : names[j] = m)
    BY <2>2, <2>3, NullAssumption
  <2> QED BY <2>1, <2>4 DEF Names, Slots
<1> QED BY <1>1, <1>2

\* Removing a name that is there once removes it and nothing else.
LEMMA RemoveNames ==
  ASSUME NEW names \in Seq(Name \cup {NULL}), NEW n \in Name,
         \A i, j \in DOMAIN names : names[i] = n /\ names[j] = n => i = j
  PROVE  Names(remove_player_name(names, n)) = Names(names) \ {n}
<1>1. CASE Slots(names, n) = {}
  BY <1>1 DEF remove_player_name, Names
<1>2. CASE Slots(names, n) # {}
  <2> DEFINE i == First(Slots(names, n))
             new == [names EXCEPT ![i] = NULL]
  <2>1. remove_player_name(names, n) = new
    BY <1>2, NullAssumption DEF remove_player_name
  <2>2. i \in DOMAIN names /\ names[i] = n
    BY <1>2, FirstSlot
  <2> HIDE DEF i
  <2>3. /\ DOMAIN new = DOMAIN names
        /\ \A j \in DOMAIN names : new[j] = IF j = i THEN NULL ELSE names[j]
    BY Overwrite
  <2> HIDE DEF new
  <2>4. \A m \in Name : (\E j \in DOMAIN new : new[j] = m)
                 <=> (m # n /\ \E j \in DOMAIN names : names[j] = m)
    BY <2>2, <2>3, NullAssumption
  <2> QED BY <2>1, <2>4 DEF Names, Slots
<1> QED BY <1>1, <1>2

\* An array without repetitions has at least as many slots as names, and no
\* more when none is free.
LEMMA Crowd ==
  ASSUME NEW names \in Seq(Name \cup {NULL}),
         \A i, j \in DOMAIN names :
           names[i] # NULL /\ names[i] = names[j] => i = j
  PROVE  /\ IsFiniteSet(Names(names))
         /\ Cardinality(Names(names)) \in Nat
         /\ Cardinality(Names(names)) <= Len(names)
         /\ Slots(names, NULL) = {} => Cardinality(Names(names)) = Len(names)
<1> DEFINE slots == 1..Len(names)
           T == {names[i] : i \in slots}
<1>1. /\ slots = DOMAIN names /\ Len(names) \in Nat
      /\ IsFiniteSet(slots) /\ Cardinality(slots) = Len(names)
  <2>1. slots = DOMAIN names /\ Len(names) \in Nat
    OBVIOUS
  <2>2. /\ IsFiniteSet(slots)
        /\ Cardinality(slots) = IF 1 > Len(names) THEN 0 ELSE Len(names) - 1 + 1
    BY <2>1, FS_Interval
  <2> QED BY <2>1, <2>2
<1>2. names \in Surjection(slots, T)
  <2>1. names \in [slots -> T]
    OBVIOUS
  <2>2. \A t \in T : \E i \in slots : names[i] = t
    OBVIOUS
  <2> QED BY <2>1, <2>2 DEF Surjection
<1>3. /\ IsFiniteSet(T) /\ Cardinality(T) <= Cardinality(slots)
      /\ Cardinality(T) = Cardinality(slots) <=> names \in Injection(slots, T)
  BY <1>1, <1>2, FS_Surjection
<1>4. Names(names) \in SUBSET T
  BY DEF Names, Slots
<1>5. /\ IsFiniteSet(Names(names)) /\ Cardinality(Names(names)) <= Cardinality(T)
  BY <1>3, <1>4, FS_Subset
<1>6. Cardinality(Names(names)) \in Nat /\ Cardinality(T) \in Nat
  BY <1>3, <1>5, FS_CardinalityType
<1>7. ASSUME Slots(names, NULL) = {} PROVE Cardinality(Names(names)) = Len(names)
  <2>1. \A i \in DOMAIN names : names[i] # NULL /\ names[i] \in Name
    BY <1>7 DEF Slots
  <2>2. T = Names(names)
    BY <1>1, <2>1 DEF Names, Slots
  <2>3. names \in Injection(slots, T)
    <3>1. names \in [slots -> T]
      OBVIOUS
    <3>2. \A i, j \in slots : names[i] = names[j] => i = j
      BY <1>1, <2>1
    <3> QED BY <3>1, <3>2 DEF Injection, IsInjective
  <2> QED BY <1>1, <1>3, <2>2, <2>3
<1> HIDE DEF slots, T
<1>8. Cardinality(Names(names)) <= Len(names)
  BY <1>1, <1>3, <1>5, <1>6
<1> QED
  BY <1>5, <1>6, <1>7, <1>8
=============================================================================
