----------------------------- MODULE MissionWork -----------------------------
(***************************************************************************)
(* What Timeline promises to the code that ends, validates and cancels     *)
(* missions, which never looks at the times: whether a user has nothing on *)
(* a mission, only cancelled activities, closed activities or a running    *)
(* one, whether the mission is ended for the user and whether it records a *)
(* day off.  TimelineRefinement shows that Timeline implements this, and   *)
(* MissionValidation builds on it.                                         *)
(***************************************************************************)
CONSTANTS User, Mission

VARIABLES
  work,      \* what each user has on each mission
  ended,     \* table mission_end
  holidays   \* the missions that record a day off

workVars == <<work, ended, holidays>>

WorkState == {"none", "cancelled", "stopped", "running"}

\* The user has activities that are not dismissed.
Working(u, m) == work[<<u, m>>] \in {"stopped", "running"}

\* No user ever had an activity on the mission.
Empty(m) == \A u \in User : work[<<u, m>>] = "none"

WorkInit ==
  /\ work = [p \in User \X Mission |-> "none"]
  /\ ended = {}
  /\ holidays = {}

-----------------------------------------------------------------------------
\* The write leaves the work in state r; a mission that runs is not ended.
Becomes(u, m, r) ==
  /\ work' = [work EXCEPT ![<<u, m>>] = r]
  /\ ended' = IF r = "running" THEN ended \ {<<u, m>>} ELSE ended

\* A new activity, possibly a day off.
Log(u, m, r, off) ==
  /\ r \in {"stopped", "running"}
  /\ work[<<u, m>>] = "running" => r = "running"
  /\ m \notin holidays
  /\ off => Empty(m)
  /\ Becomes(u, m, r)
  /\ holidays' = IF off THEN holidays \cup {m} ELSE holidays

\* A correction of the times of an activity.
Edit(u, m, r) ==
  /\ Working(u, m)
  /\ r \in {"stopped", "running"}
  /\ Becomes(u, m, r)
  /\ UNCHANGED holidays

\* Some of the activities are cancelled.
Cancel(u, m, r) ==
  /\ Working(u, m)
  /\ r \in {"cancelled", "stopped", work[<<u, m>>]}
  /\ work' = [work EXCEPT ![<<u, m>>] = r]
  /\ UNCHANGED <<ended, holidays>>

\* The mission ends, which stops what is running.
End(u, m) ==
  /\ <<u, m>> \notin ended
  /\ work' = [work EXCEPT ![<<u, m>>] = IF @ = "running" THEN "stopped" ELSE @]
  /\ ended' = ended \cup {<<u, m>>}
  /\ UNCHANGED holidays

\* A day off, in a mission of its own that is over at once.
TakeDayOff(u, m) ==
  /\ Empty(m)
  /\ \A v \in User : <<v, m>> \notin ended
  /\ work' = [work EXCEPT ![<<u, m>>] = "stopped"]
  /\ ended' = ended \cup {<<u, m>>}
  /\ holidays' = holidays \cup {m}

WorkNext ==
  \E u \in User, m \in Mission :
    \/ \E r \in WorkState :
         \/ \E off \in BOOLEAN : Log(u, m, r, off)
         \/ Edit(u, m, r)
         \/ Cancel(u, m, r)
    \/ End(u, m)
    \/ TakeDayOff(u, m)

WorkSpec == WorkInit /\ [][WorkNext]_workVars
=============================================================================
