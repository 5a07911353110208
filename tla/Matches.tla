------------------------------ MODULE Matches -------------------------------
(***************************************************************************)
(* A game thread and the pair of clients it meets: two that follow the     *)
(* requirements (FairPlay), or two of test.c (TestScripts).  The thread    *)
(* does not know which.                                                    *)
(***************************************************************************)
EXTENDS FairPlay, TestScripts

allvars == <<vars, contents, fair, scripts>>

MatchInit ==
  /\ FairInit
  /\ ScriptInit

MatchNext ==
  \/ AreFair /\ FairNext /\ UNCHANGED scripts
  \/ AreScripted /\ ScriptNext /\ UNCHANGED fair

\* The thread runs.  Fair clients read, and answer a suggestion sooner or
\* later, but need not ask for anything, not even to move.  Scripts run.
MatchFairness ==
  /\ WF_allvars(ServerStep /\ UNCHANGED <<fair, scripts>>)
  /\ \A i \in Player :
       /\ WF_allvars(AreFair /\ Reads(i) /\ UNCHANGED scripts)
       /\ WF_allvars(AreFair /\ Answers(i) /\ UNCHANGED scripts)
       /\ WF_allvars(AreScripted /\ ClientStep(i) /\ UNCHANGED fair)

MatchSpec == MatchInit /\ [][MatchNext]_allvars /\ MatchFairness
=============================================================================
