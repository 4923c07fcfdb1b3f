----------------------------- MODULE MCTimeline -----------------------------
(***************************************************************************)
(* Small instances of Timeline and of TimelineRefinement for TLC.          *)
(***************************************************************************)
EXTENDS TimelineRefinement, TLC

\* Rows are interchangeable, and so are missions and users.
Rows == Permutations(Activity) \cup Permutations(Mission)
          \cup Permutations(User) \cup Permutations(WorkType)

\* Neither Timeline nor MissionWork tells users, rows or kinds of work apart.
Renamings ==
  Permutations(Activity) \cup Permutations(User) \cup Permutations(WorkType)

\* Of the versions of a row the actions read only how many there are, and
\* so do the properties of missions.  Asking for the types first makes TLC
\* evaluate the state it looks at in part.
Present ==
  IF TypeOK
    THEN <<now, ends,
           [a \in Activity |->
              IF activities[a] = Null THEN Null
              ELSE [activities[a] EXCEPT !.versions = Len(@)]]>>
    ELSE vars
=============================================================================
