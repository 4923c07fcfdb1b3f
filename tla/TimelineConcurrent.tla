------------------------- MODULE TimelineConcurrent -------------------------
(***************************************************************************)
(* The requests of Timeline served by several workers at once.             *)
(*                                                                         *)
(* The API runs in several processes over one PostgreSQL database at its   *)
(* default isolation level, READ COMMITTED, and takes no explicit lock.  A *)
(* request loads the mission and its activities into its session when it   *)
(* is authorised, and works on that copy; it writes its changes when the   *)
(* session is flushed, queries the other missions as they are committed at *)
(* that moment, and commits.  Between these steps other requests commit.   *)
(* What the database itself guarantees: a row written by one transaction   *)
(* is locked for the others until it ends; the versions of an activity are *)
(* numbered without duplicates; a mission ends once for a user; and the    *)
(* exclusion constraint on activities is checked on commit, being          *)
(* INITIALLY DEFERRED.                                                     *)
(***************************************************************************)
EXTENDS Timeline

CONSTANT Worker   \* the requests that are served at the same time

VARIABLE tx       \* the open transaction of each worker, or Null

raceVars == <<now, activities, ends, tx>>

Open(w) == tx[w] # Null

-----------------------------------------------------------------------------
(* The session of a request.                                               *)

\* mission.activities, which the request loads once.
MissionRows(T, m) ==
  [a \in Activity |-> IF T[a] # Null /\ T[a].mission = m THEN T[a] ELSE Null]

\* A row is written when the request leaves it other than it read it.
Written(t) == {a \in Activity : t.plan[a] # t.seen[a]}

\* What the overlap check of a request sees: its own copy of the mission and
\* the other missions as committed.
Session(t) ==
  [a \in Activity |->
     IF activities[a] # Null /\ activities[a].mission # t.mission
       THEN activities[a] ELSE t.plan[a]]

LockedByOther(w, a) ==
  \E v \in Worker \ {w} : Open(v) /\ tx[v].flushed /\ a \in Written(tx[v])

\* The next version of a row has the number after those the session read.
VersionNumbersAreFree(t) ==
  \A a \in Written(t) :
    t.seen[a] # Null /\ t.plan[a].versions # t.seen[a].versions =>
      Len(activities[a].versions) = Len(t.seen[a].versions)

\* An UPDATE writes the columns that changed in the session and no other.
Changed(old, seen, plan) == IF plan = seen THEN old ELSE plan

MergedRow(old, seen, plan) ==
  IF seen = Null THEN plan
  ELSE [old EXCEPT
          !.start = Changed(@, seen.start, plan.start),
          !.end = Changed(@, seen.end, plan.end),
          !.dismissedAt = Changed(@, seen.dismissedAt, plan.dismissedAt),
          !.versions = @ \o SubSeq(plan.versions, Len(seen.versions) + 1,
                                   Len(plan.versions))]

Merged(t) ==
  [a \in Activity |->
     IF a \in Written(t) THEN MergedRow(activities[a], t.seen[a], t.plan[a])
                         ELSE activities[a]]

-----------------------------------------------------------------------------
(* The beginning of a request: what Timeline does at once, up to the plan  *)
(* of its writes.                                                          *)

Begin(w, u, m, T, checked, reopens, closes) ==
  /\ ~Open(w)
  /\ tx' = [tx EXCEPT ![w] =
       [user |-> u, mission |-> m,
        seen |-> MissionRows(activities, m), plan |-> MissionRows(T, m),
        checked |-> checked, reopens |-> reopens,
        closes |-> closes, drops |-> FALSE, flushed |-> FALSE]]
  /\ UNCHANGED <<now, activities, ends>>

\* Row ids come from a sequence: no two requests get the same one.
FreshId(a) == \A w \in Worker : Open(w) => tx[w].plan[a] = Null

BeginLog(w, a, u, m, ty, s, e, switch) ==
  /\ FreshId(a)
  /\ CanLog(a, u, m, ty, s, e, switch)
  /\ Begin(w, u, m, Insert(activities, a, u, m, ty, s, e), TRUE, e = Null, FALSE)

BeginSwitch(w, a, c, ty, s) ==
  /\ FreshId(a)
  /\ CanSwitch(a, c, ty, s)
  /\ Begin(w, activities[c].user, activities[c].mission,
           Switch(activities, a, c, ty, s), TRUE, TRUE, FALSE)

BeginEdit(w, a, s, e) ==
  /\ CanEdit(a, s, e)
  /\ Begin(w, activities[a].user, activities[a].mission,
           Revise(activities, a, s, e), TRUE, e = Null, FALSE)

BeginCancel(w, a) ==
  /\ ~InTheFuture(activities[a].start)
  /\ Begin(w, activities[a].user, activities[a].mission,
           Dismiss(activities, {a}), FALSE, FALSE, FALSE)

BeginEnd(w, u, m, t) ==
  LET mine == LiveIn(activities, u, m)
      last == Last(activities, mine)
  IN /\ CanEnd(u, m, t)
     /\ IF mine # {} /\ Running(activities, last)
          THEN /\ ~InTheFuture(t)
               /\ Len(activities[last].versions) < MaxVersions
               /\ Begin(w, u, m,
                        Revise(activities, last, activities[last].start, t),
                        TRUE, FALSE, TRUE)
          ELSE Begin(w, u, m, activities, FALSE, FALSE, TRUE)

\* A validation, of which this module keeps the mission end.
BeginClose(w, u, m) ==
  LET mine == LiveIn(activities, u, m)
  IN /\ mine # {}
     /\ \A a \in mine : ~Running(activities, a)
     /\ <<u, m>> \notin ends
     /\ Begin(w, u, m, activities, FALSE, FALSE, TRUE)

-----------------------------------------------------------------------------
(* The rest of a request.                                                  *)

\* Seeded fault: nothing numbers the versions of an activity.
FlushUnnumbered(w) ==
  LET t == tx[w]
  IN /\ Open(w) /\ ~t.flushed
     /\ \A a \in Written(t) : ~LockedByOther(w, a)
     /\ DurationsArePositive(t.plan)
     /\ t.checked => PeriodIsFree(Session(t), t.user, t.mission)
     /\ tx' = [tx EXCEPT ![w].flushed = TRUE,
                         ![w].drops = t.reopens /\ <<t.user, t.mission>> \in ends]
     /\ UNCHANGED <<now, activities, ends>>

\* The flush sends the writes, which waits for the rows other transactions
\* hold; then the mission end is looked up and the timeline checked.
Flush(w) ==
  LET t == tx[w]
  IN /\ Open(w) /\ ~t.flushed
     /\ \A a \in Written(t) : ~LockedByOther(w, a)
     /\ VersionNumbersAreFree(t)
     /\ DurationsArePositive(t.plan)
     /\ t.checked => PeriodIsFree(Session(t), t.user, t.mission)
     /\ tx' = [tx EXCEPT ![w].flushed = TRUE,
                         ![w].drops = t.reopens /\ <<t.user, t.mission>> \in ends]
     /\ UNCHANGED <<now, activities, ends>>

CommitTx(w) ==
  LET t   == tx[w]
      end == <<t.user, t.mission>>
  IN /\ Open(w) /\ t.flushed
     /\ t.closes => end \notin ends
     /\ Commit(Merged(t))
     /\ ends' = IF t.closes THEN ends \cup {end}
                ELSE IF t.drops THEN ends \ {end} ELSE ends
     /\ tx' = [tx EXCEPT ![w] = Null]
     /\ UNCHANGED now

\* A refused check, a constraint, a lost connection or a killed worker: the
\* transaction leaves nothing.
Rollback(w) ==
  /\ Open(w)
  /\ tx' = [tx EXCEPT ![w] = Null]
  /\ UNCHANGED <<now, activities, ends>>

-----------------------------------------------------------------------------
ConcurrentInit == Init /\ tx = [w \in Worker |-> Null]

BeginAny(w) ==
  \/ \E a \in Activity, u \in User, m \in Mission, ty \in WorkType,
        s \in Instant, e \in Instant \cup {Null}, switch \in BOOLEAN :
          BeginLog(w, a, u, m, ty, s, e, switch)
  \/ \E a \in Activity, c \in Live(activities), ty \in WorkType, s \in Instant :
          BeginSwitch(w, a, c, ty, s)
  \/ \E a \in Live(activities) :
       \/ BeginCancel(w, a)
       \/ \E s \in Instant \cup {activities[a].start},
             e \in Instant \cup {Null, activities[a].end} :
               BeginEdit(w, a, s, e)
  \/ \E u \in User, m \in Mission :
       \/ BeginClose(w, u, m)
       \/ \E t \in Instant : BeginEnd(w, u, m, t)

ConcurrentNext ==
  \/ Tick /\ UNCHANGED tx
  \/ \E w \in Worker :
       BeginAny(w) \/ Flush(w) \/ CommitTx(w) \/ Rollback(w)

ConcurrentSpec == ConcurrentInit /\ [][ConcurrentNext]_raceVars

-----------------------------------------------------------------------------
(* Properties.                                                             *)

\* A correction replaces the times its request has read, and no other: when
\* another request has corrected the activity since, the later one fails, and
\* the times that were committed stay.
CorrectsWhatItRead(w) ==
  \A a \in Written(tx[w]) :
    LET seen == tx[w].seen[a]
        plan == tx[w].plan[a]
    IN seen # Null /\ plan.versions # seen.versions =>
         /\ activities[a].versions = seen.versions
         /\ activities[a].start = seen.start
         /\ activities[a].end = seen.end

CommitsWhatItRead ==
  \A w \in Worker :
    Open(w) /\ tx'[w] = Null /\ activities' # activities => CorrectsWhatItRead(w)

NoCorrectionIsLost == [][CommitsWhatItRead]_raceVars

\* However two corrections of one activity interleave, its row is what its
\* last version says: columns of one never mix with columns of the other.
CorrectionsDoNotMix ==
  \A a \in Live(activities) :
    LET v == activities[a].versions
    IN /\ v[Len(v)].start = activities[a].start
       /\ v[Len(v)].end = activities[a].end
=============================================================================
