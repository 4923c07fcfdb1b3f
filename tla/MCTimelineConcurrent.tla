------------------------ MODULE MCTimelineConcurrent ------------------------
(***************************************************************************)
(* Small instances of TimelineConcurrent for TLC.                          *)
(***************************************************************************)
EXTENDS TimelineConcurrent, TLC

\* Rows, missions, users, kinds of work and workers are interchangeable.
Names == Permutations(Activity) \cup Permutations(Mission)
           \cup Permutations(User) \cup Permutations(WorkType)
           \cup Permutations(Worker)
=============================================================================
