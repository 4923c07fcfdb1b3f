--------------------------- MODULE TimelineProofs ---------------------------
(***************************************************************************)
(* Proofs about Timeline for every set of users, missions and rows, every  *)
(* clock and every bound; and that it implements MissionWork.              *)
(***************************************************************************)
EXTENDS TimelineRefinement, FiniteSetTheorems, SequenceTheorems, TLAPS

-----------------------------------------------------------------------------
(* A finite set has a last and a first element: First and Last are defined *)
(* on the activities of a mission.                                         *)

LEMMA MaximumExists ==
  ASSUME NEW S, IsFiniteSet(S), S # {}, NEW f, \A x \in S : f[x] \in Int
  PROVE  \E x \in S : \A y \in S : f[y] <= f[x]
<1> DEFINE Above(x) == {z \in S : f[x] < f[z]}
           Fam == {Above(x) : x \in S}
           R == StrictSubsetOrdering(S)
<1>1. IsWellFoundedOn(R, FiniteSubsetsOf(S))
  BY FS_StrictSubsetOrderingWellFounded
<1>2. Fam \subseteq FiniteSubsetsOf(S) /\ Fam # {}
  <2>1. FiniteSubsetsOf(S) = SUBSET S
    BY FS_FiniteSubsetsOfFinite
  <2>2. Fam \subseteq SUBSET S
    OBVIOUS
  <2>3. \A x \in S : Above(x) \in Fam
    OBVIOUS
  <2> QED
    BY <2>1, <2>2, <2>3
<1>3. \E D \in Fam : \A E \in Fam : ~ (<<E, D>> \in R)
  BY <1>1, <1>2, WFMin
<1>4. PICK x \in S : \A E \in Fam : ~ (<<E, Above(x)>> \in R)
  BY <1>3
<1>5. ASSUME NEW y \in S, ~(f[y] <= f[x])
      PROVE  FALSE
  <2>1. f[x] < f[y]
    BY <1>5
  <2>2. Above(y) \subseteq Above(x) /\ y \in Above(x) /\ y \notin Above(y)
    BY <2>1
  <2>3. <<Above(y), Above(x)>> \in R
    BY <2>2 DEF StrictSubsetOrdering
  <2> QED
    BY <2>3, <1>4
<1> QED
  BY <1>5

LEMMA MinimumExists ==
  ASSUME NEW S, IsFiniteSet(S), S # {}, NEW f, \A x \in S : f[x] \in Int
  PROVE  \E x \in S : \A y \in S : f[x] <= f[y]
<1> DEFINE g == [x \in S |-> -f[x]]
<1>1. \A x \in S : g[x] \in Int /\ g[x] = -f[x]
  OBVIOUS
<1> HIDE DEF g
<1>2. PICK x \in S : \A y \in S : g[y] <= g[x]
  BY <1>1, MaximumExists
<1>3. \A y \in S : f[x] <= f[y]
  BY <1>1, <1>2
<1> QED
  BY <1>3

Table == [Activity -> Row \cup {Null}]

\* The last and the first activity of a set of live activities.
LEMMA LastIsLast ==
  ASSUME NEW T \in Table, NEW S, S \subseteq Live(T), S # {}
  PROVE  /\ Last(T, S) \in S
         /\ \A b \in S : T[b].start <= T[Last(T, S)].start
<1> DEFINE f == [a \in S |-> T[a].start]
<1>1. S \subseteq Activity /\ \A a \in S : T[a] \in Row
  BY DEF Live, Logged, Table
<1>2. IsFiniteSet(S)
  BY <1>1, FS_Subset, RowsAssumption
<1>3. \A a \in S : f[a] = T[a].start /\ f[a] \in Int
  BY <1>1 DEF Row
<1> HIDE DEF f
<1>4. \E x \in S : \A y \in S : f[y] <= f[x]
  BY <1>2, <1>3, MaximumExists
<1>5. \E x \in S : \A y \in S : T[y].start <= T[x].start
  BY <1>3, <1>4
<1> QED
  BY <1>5 DEF Last

LEMMA FirstIsFirst ==
  ASSUME NEW T \in Table, NEW S, S \subseteq Live(T), S # {}
  PROVE  /\ First(T, S) \in S
         /\ \A b \in S : T[First(T, S)].start <= T[b].start
<1> DEFINE f == [a \in S |-> T[a].start]
<1>1. S \subseteq Activity /\ \A a \in S : T[a] \in Row
  BY DEF Live, Logged, Table
<1>2. IsFiniteSet(S)
  BY <1>1, FS_Subset, RowsAssumption
<1>3. \A a \in S : f[a] = T[a].start /\ f[a] \in Int
  BY <1>1 DEF Row
<1> HIDE DEF f
<1>4. \E x \in S : \A y \in S : f[x] <= f[y]
  BY <1>2, <1>3, MinimumExists
<1>5. \E x \in S : \A y \in S : T[x].start <= T[y].start
  BY <1>3, <1>4
<1> QED
  BY <1>5 DEF First

-----------------------------------------------------------------------------
(* Type correctness.                                                       *)

LEMMA ToMinuteType ==
  /\ \A t \in Int : ToMinute(t) \in Int
  /\ ToMinute(Null) = Null
<1>1. \A t \in Int : t % Minute \in Int
  BY TimeAssumption
<1> QED
  BY <1>1, NullAssumption DEF ToMinute

LEMMA NewVersionType ==
  ASSUME now \in Int, NEW s \in Int, NEW e \in Int \cup {Null}
  PROVE  NewVersion(s, e) \in Version
BY ToMinuteType DEF NewVersion, Version

LEMMA NewRowType ==
  ASSUME now \in Int, NEW u \in User, NEW m \in Mission, NEW ty \in Type,
         NEW s \in Int, NEW e \in Int \cup {Null}
  PROVE  NewRow(u, m, ty, s, e) \in Row
<1>1. <<NewVersion(s, e)>> \in Seq(Version)
  BY NewVersionType
<1> QED
  BY <1>1, ToMinuteType DEF NewRow, Row

LEMMA RevisedType ==
  ASSUME now \in Int, NEW row \in Row,
         NEW s \in Int, NEW e \in Int \cup {Null}
  PROVE  /\ Revised(row, s, e) \in Row
         /\ Revised(row, s, e).user = row.user
         /\ Revised(row, s, e).mission = row.mission
         /\ Revised(row, s, e).dismissedAt = row.dismissedAt
         /\ Revised(row, s, e).end = ToMinute(e)
<1>1. Append(row.versions, NewVersion(s, e)) \in Seq(Version)
  BY NewVersionType, AppendProperties DEF Row
<1> QED
  BY <1>1, ToMinuteType DEF Revised, Row

LEMMA DismissedType ==
  ASSUME now \in Int, NEW row \in Row
  PROVE  /\ Dismissed(row) \in Row
         /\ Dismissed(row).dismissedAt # Null
BY NullAssumption DEF Dismissed, Row

LEMMA LiveRow ==
  ASSUME NEW T \in Table, NEW a \in Live(T)
  PROVE  a \in Activity /\ T[a] \in Row /\ T[a].dismissedAt = Null
BY DEF Table, Live, Logged

LEMMA TypeInitially == Init => TypeOK
BY DEF Init, TypeOK

LEMMA TypeStep == TypeOK /\ [Next]_vars => TypeOK'
<1> SUFFICES ASSUME TypeOK, [Next]_vars
             PROVE  TypeOK'
  OBVIOUS
<1> USE DEF TypeOK
<1>t. now \in Int /\ activities \in Table
  BY TimeAssumption DEF Table
<1>1. CASE UNCHANGED vars
  BY <1>1 DEF vars
<1>2. CASE Tick
  BY <1>2 DEF Tick
<1>3. ASSUME NEW a \in Activity, NEW u \in User, NEW m \in Mission,
             NEW ty \in Type, NEW s \in Instant,
             NEW e \in Instant \cup {Null}, NEW switch \in BOOLEAN,
             LogActivity(a, u, m, ty, s, e, switch)
      PROVE  TypeOK'
  <2>1. NewRow(u, m, ty, s, e) \in Row
    BY <1>t, NewRowType, TimeAssumption
  <2> QED
    BY <1>3, <2>1 DEF LogActivity, Insert, CheckedWrite, Commit, Reopened
<1>4. ASSUME NEW a \in Activity, NEW c \in Live(activities),
             NEW ty \in Type, NEW s \in Instant,
             SwitchActivity(a, c, ty, s)
      PROVE  TypeOK'
  <2>1. c \in Activity /\ activities[c] \in Row
    BY <1>t, LiveRow
  <2>2. /\ activities[c].user \in User /\ activities[c].mission \in Mission
        /\ activities[c].start \in Int
    BY <2>1 DEF Row
  <2>3. NewRow(activities[c].user, activities[c].mission, ty, s, Null) \in Row
    BY <1>t, <2>2, NewRowType, TimeAssumption
  <2>4. Revised(activities[c], activities[c].start, s) \in Row
    BY <1>t, <2>1, <2>2, RevisedType, TimeAssumption
  <2> QED
    BY <1>4, <2>1, <2>3, <2>4
       DEF SwitchActivity, Switch, Revise, Insert, CheckedWrite, Commit, Reopened
<1>5. ASSUME NEW a \in Live(activities), CancelActivity(a)
      PROVE  TypeOK'
  <2>1. a \in Activity /\ Dismissed(activities[a]) \in Row
    BY <1>t, LiveRow, DismissedType
  <2> QED
    BY <1>5, <2>1 DEF CancelActivity, Dismiss, Commit
<1>6. ASSUME NEW a \in Live(activities),
             NEW s \in Instant \cup {activities[a].start},
             NEW e \in Instant \cup {Null, activities[a].end},
             EditActivity(a, s, e)
      PROVE  TypeOK'
  <2>1. a \in Activity /\ activities[a] \in Row
    BY <1>t, LiveRow
  <2>2. s \in Int /\ e \in Int \cup {Null}
    BY <2>1, TimeAssumption DEF Row
  <2>3. Revised(activities[a], s, e) \in Row
    BY <1>t, <2>1, <2>2, RevisedType
  <2> QED
    BY <1>6, <2>1, <2>3
       DEF EditActivity, Revise, CheckedWrite, Commit, Reopened
<1>7. ASSUME NEW u \in User, NEW m \in Mission, CancelMission(u, m)
      PROVE  TypeOK'
  <2>1. \A a \in LiveIn(activities, u, m) : Dismissed(activities[a]) \in Row
    BY <1>t, LiveRow, DismissedType DEF LiveIn, LiveOf
  <2> QED
    BY <1>7, <2>1 DEF CancelMission, Dismiss, Commit
<1>8. ASSUME NEW u \in User, NEW m \in Mission, CloseMission(u, m)
      PROVE  TypeOK'
  BY <1>8 DEF CloseMission
<1>9. ASSUME NEW u \in User, NEW m \in Mission, NEW t \in Instant,
             EndMission(u, m, t)
      PROVE  TypeOK'
  <2> DEFINE mine == LiveIn(activities, u, m)
             last == Last(activities, mine)
  <2>1. ends' \subseteq User \X Mission /\ now' = now
    BY <1>9 DEF EndMission
  <2>2. CASE UNCHANGED activities
    BY <2>1, <2>2
  <2>3. CASE mine # {} /\ activities' =
               Revise(activities, last, activities[last].start, t)
    <3>1. mine \subseteq Live(activities)
      BY DEF LiveIn, LiveOf
    <3>2. last \in Live(activities)
      BY <1>t, <2>3, <3>1, LastIsLast
    <3>3. last \in Activity /\ activities[last] \in Row
      BY <1>t, <3>2, LiveRow
    <3>4. activities[last].start \in Int /\ t \in Int
      BY <3>3, TimeAssumption DEF Row
    <3>5. Revised(activities[last], activities[last].start, t) \in Row
      BY <1>t, <3>3, <3>4, RevisedType
    <3> QED
      BY <2>1, <2>3, <3>3, <3>5 DEF Revise
  <2> QED
    BY <1>9, <2>2, <2>3 DEF EndMission, CheckedWrite, Commit
<1>10. ASSUME NEW u \in User, NEW m \in Mission, NEW a \in Activity,
              NEW s \in Instant, NEW e \in Instant,
              LogHoliday(a, u, m, s, e)
       PROVE  TypeOK'
  <2>1. NewRow(u, m, Off, s, e) \in Row
    BY <1>t, NewRowType, TimeAssumption DEF Type
  <2> QED
    BY <1>10, <2>1 DEF LogHoliday, Insert, CheckedWrite, Commit
<1> HIDE DEF TypeOK
<1> QED
  BY <1>1, <1>2, <1>3, <1>4, <1>5, <1>6, <1>7, <1>8, <1>9, <1>10 DEF Next

\* Every reachable state has the types of the tables (TypeOK).
THEOREM TypeCorrect == Spec => []TypeOK
<1>1. Init => TypeOK
  BY TypeInitially
<1>2. TypeOK /\ [Next]_vars => TypeOK'
  BY TypeStep
<1> QED
  BY <1>1, <1>2, PTL DEF Spec

-----------------------------------------------------------------------------
(* Writes.  Every operation writes the rows of one user on one mission.    *)

OnlyWrites(T, u, m) ==
  \A a \in Activity : T[a] # activities[a] =>
    /\ T[a] \in Row /\ T[a].user = u /\ T[a].mission = m
    /\ activities[a] = Null
         \/ (activities[a].user = u /\ activities[a].mission = m)

LEMMA InsertWrites ==
  ASSUME TypeOK, NEW a \in Activity, activities[a] = Null,
         NEW u \in User, NEW m \in Mission, NEW ty \in Type,
         NEW s \in Int, NEW e \in Int \cup {Null}
  PROVE  LET T == Insert(activities, a, u, m, ty, s, e)
         IN /\ T \in Table
            /\ OnlyWrites(T, u, m)
            /\ \A b \in Activity : b # a => T[b] = activities[b]
            /\ T[a].end = ToMinute(e)
<1>1. now \in Int /\ activities \in Table
  BY TimeAssumption DEF TypeOK, Table
<1>2. NewRow(u, m, ty, s, e) \in Row
  BY <1>1, NewRowType
<1> QED
  BY <1>1, <1>2 DEF Insert, OnlyWrites, NewRow, Table

LEMMA ReviseWrites ==
  ASSUME TypeOK, NEW c \in Live(activities),
         NEW s \in Int, NEW e \in Int \cup {Null}
  PROVE  LET T == Revise(activities, c, s, e)
         IN /\ T \in Table
            /\ OnlyWrites(T, activities[c].user, activities[c].mission)
            /\ Live(T) = Live(activities)
            /\ \A b \in Activity : b # c => T[b] = activities[b]
            /\ T[c].end = ToMinute(e)
<1>1. now \in Int /\ activities \in Table
  BY TimeAssumption DEF TypeOK, Table
<1>2. c \in Activity /\ activities[c] \in Row
      /\ activities[c].dismissedAt = Null
  BY <1>1, LiveRow
<1> DEFINE r == Revised(activities[c], s, e)
           T == [activities EXCEPT ![c] = r]
<1>3. /\ r \in Row /\ r.end = ToMinute(e) /\ r.dismissedAt = Null
      /\ r.user = activities[c].user /\ r.mission = activities[c].mission
  BY <1>1, <1>2, RevisedType
<1> HIDE DEF r
<1>4. /\ T \in Table /\ T[c] = r
      /\ \A b \in Activity : b # c => T[b] = activities[b]
  BY <1>1, <1>2, <1>3 DEF Table
<1>5. OnlyWrites(T, activities[c].user, activities[c].mission)
  BY <1>3, <1>4 DEF OnlyWrites
<1>6. Live(T) = Live(activities)
  <2>1. c \in Live(T)
    BY <1>2, <1>3, <1>4, NoRowAssumption DEF Live, Logged
  <2>2. \A b \in Activity : b # c => (b \in Live(T) <=> b \in Live(activities))
    BY <1>4 DEF Live, Logged
  <2> QED
    BY <2>1, <2>2 DEF Live, Logged
<1> QED
  BY <1>3, <1>4, <1>5, <1>6 DEF r, Revise

\* What is written for u on m leaves every other timeline as it was.
LEMMA ElsewhereUnchanged ==
  ASSUME TypeOK, NEW T \in Table, NEW u, NEW m, OnlyWrites(T, u, m),
         NEW v, NEW n, <<v, n>> # <<u, m>>
  PROVE  /\ LiveIn(T, v, n) = LiveIn(activities, v, n)
         /\ \A a \in LiveIn(T, v, n) : T[a] = activities[a]
<1>1. \A a \in LiveIn(T, v, n) : a \in Activity /\ T[a] = activities[a]
  BY DEF OnlyWrites, LiveIn, LiveOf, Live, Logged
<1>2. \A a \in LiveIn(activities, v, n) : a \in Activity /\ T[a] = activities[a]
  BY DEF OnlyWrites, LiveIn, LiveOf, Live, Logged
<1> QED
  BY <1>1, <1>2 DEF LiveIn, LiveOf, Live, Logged

\* The check of the mission that is written is enough to keep all the
\* missions of the user apart.
LEMMA FreePeriodKeepsOrder ==
  ASSUME TypeOK, DoNotInterleave(activities),
         NEW T \in Table, NEW u, NEW m, OnlyWrites(T, u, m),
         DurationsArePositive(T), NoOverlap(T), PeriodIsFree(T, u, m)
  PROVE  DoNotInterleave(T)
<1> SUFFICES ASSUME NEW v \in User,
                    NEW a \in LiveOf(T, v), NEW b \in LiveOf(T, v),
                    NEW c \in LiveOf(T, v),
                    T[a].mission = T[b].mission,
                    T[a].start < T[c].start, T[c].start < T[b].start,
                    T[c].mission # T[a].mission
             PROVE  FALSE
  BY DEF DoNotInterleave
<1> DEFINE mine == LiveIn(T, u, m)
           first == First(T, mine)
           last == Last(T, mine)
           before == BeforePeriod(T, u, first)
           after == AfterPeriod(T, u, last)
<1>0. \A x \in Live(T) :
        /\ T[x] \in Row /\ T[x].start \in Int
        /\ T[x].end \in Int \cup {Null}
        /\ T[x].end # Null => T[x].end \in Int /\ T[x].start < T[x].end
  BY LiveRow DEF DurationsArePositive, Running, Row, Live
<1>1. \A x \in LiveOf(T, v) : x \in Live(T) /\ T[x].user = v
  BY DEF LiveOf
\* Activities that were not written keep the order they had.
<1>2. ASSUME NEW x \in LiveOf(T, v), <<v, T[x].mission>> # <<u, m>>
      PROVE  x \in LiveOf(activities, v) /\ T[x] = activities[x]
  <2>1. x \in LiveIn(T, v, T[x].mission)
    BY DEF LiveIn
  <2>2. /\ LiveIn(T, v, T[x].mission) = LiveIn(activities, v, T[x].mission)
        /\ T[x] = activities[x]
    BY <1>2, <2>1, ElsewhereUnchanged
  <2> QED
    BY <2>1, <2>2 DEF LiveIn
<1>3. ASSUME <<v, T[a].mission>> # <<u, m>>, <<v, T[c].mission>> # <<u, m>>
      PROVE  FALSE
  BY <1>2, <1>3 DEF DoNotInterleave
<1>4. v = u
  BY <1>3
<1>5. a \in LiveOf(T, u) /\ b \in LiveOf(T, u) /\ c \in LiveOf(T, u)
  BY <1>4
<1>6. mine # {}
  BY <1>3, <1>4, <1>5 DEF LiveIn
<1>7. /\ first \in mine /\ \A x \in mine : T[first].start <= T[x].start
      /\ last \in mine /\ \A x \in mine : T[x].start <= T[last].start
  BY <1>6, FirstIsFirst, LastIsLast DEF LiveIn, LiveOf
<1>8. mine \subseteq LiveOf(T, u)
  BY DEF LiveIn
<1> HIDE DEF first, last, mine
<1>9. \A x \in LiveOf(T, u) \ mine :
        EndsBefore(T, x, first) \/ EndsBefore(T, last, x)
  BY <1>6 DEF PeriodIsFree, first, last, mine
<1>10. CASE T[a].mission = m
  \* c is foreign and starts inside the period of m.
  <2>1. a \in mine /\ b \in mine /\ c \notin mine
    BY <1>5, <1>10 DEF mine, LiveIn
  <2>2. EndsBefore(T, c, first) \/ EndsBefore(T, last, c)
    BY <1>5, <1>9, <2>1
  <2> QED
    BY <1>0, <1>1, <1>4, <1>5, <1>7, <1>8, <2>1, <2>2 DEF EndsBefore, Running
<1>11. CASE T[a].mission # m
  \* c belongs to m; a and b surround its period.
  <2>1. T[c].mission = m /\ c \in mine /\ a \notin mine /\ b \notin mine
    BY <1>3, <1>4, <1>5, <1>11 DEF mine, LiveIn
  <2>2. EndsBefore(T, a, first) /\ EndsBefore(T, last, b)
    <3>1. ~EndsBefore(T, last, a)
      BY <1>0, <1>1, <1>4, <1>5, <1>7, <1>8, <2>1 DEF EndsBefore, Running
    <3>2. ~EndsBefore(T, b, first)
      BY <1>0, <1>1, <1>4, <1>5, <1>7, <1>8, <2>1 DEF EndsBefore, Running
    <3> QED
      BY <1>5, <1>9, <2>1, <3>1, <3>2
  <2>3. a \in before /\ b \in after
    BY <1>5, <2>2 DEF BeforePeriod, AfterPeriod
  <2> DEFINE x == Last(T, before)
             y == First(T, after)
  <2>4. /\ before \subseteq Live(T) /\ after \subseteq Live(T)
        /\ before # {} /\ after # {}
    BY <2>3 DEF BeforePeriod, AfterPeriod, LiveOf
  <2>5. /\ x \in before /\ \A z \in before : T[z].start <= T[x].start
        /\ y \in after /\ \A z \in after : T[y].start <= T[z].start
    BY <2>4, LastIsLast, FirstIsFirst
  <2>6. T[x].mission # T[y].mission
    BY <1>6, <2>4 DEF PeriodIsFree, first, last, mine
  <2> HIDE DEF x, y
  <2>7. /\ x \in LiveOf(T, u) /\ EndsBefore(T, x, first)
        /\ y \in LiveOf(T, u) /\ EndsBefore(T, last, y)
    BY <2>5 DEF BeforePeriod, AfterPeriod
  <2>8. /\ T[a].start <= T[x].start /\ T[x].start < T[b].start
        /\ T[a].start < T[y].start /\ T[y].start <= T[b].start
    <3>1. T[a].start <= T[x].start /\ T[y].start <= T[b].start
      BY <2>3, <2>5
    <3>2. T[x].start < T[first].start /\ T[first].start <= T[c].start
      BY <1>0, <1>1, <1>4, <1>7, <1>8, <2>1, <2>7 DEF EndsBefore, Running
    <3>3. T[c].start <= T[last].start /\ T[last].start < T[y].start
      BY <1>0, <1>1, <1>4, <1>7, <1>8, <2>1, <2>7 DEF EndsBefore, Running
    <3> QED
      BY <1>0, <1>1, <1>4, <1>5, <1>7, <1>8, <2>7, <3>1, <3>2, <3>3
  <2>9. x \notin mine /\ y \notin mine
    <3>1. T[x].start < T[first].start
      BY <1>0, <1>1, <1>4, <1>7, <1>8, <2>7 DEF EndsBefore, Running
    <3>2. T[last].start < T[y].start
      BY <1>0, <1>1, <1>4, <1>7, <1>8, <2>7 DEF EndsBefore, Running
    <3> QED
      BY <1>0, <1>1, <1>4, <1>7, <1>8, <2>7, <3>1, <3>2
  <2>10. \A z \in {a, b, x, y} :
           /\ z \in LiveOf(activities, u) /\ T[z] = activities[z]
    BY <1>2, <1>4, <1>5, <2>1, <2>7, <2>9 DEF mine, LiveIn
  <2>11. T[x].mission = T[a].mission
    <3>1. CASE T[a].start < T[x].start
      BY <1>4, <2>8, <2>10, <3>1 DEF DoNotInterleave
    <3>2. CASE T[a].start = T[x].start
      <4>1. a = x
        BY <1>0, <1>1, <1>4, <1>5, <2>7, <3>2
           DEF NoOverlap, EndsBefore, Running, LiveOf
      <4> QED
        BY <4>1
    <3> QED
      BY <1>0, <1>1, <1>4, <1>5, <2>7, <2>8, <3>1, <3>2
  <2>12. T[y].mission = T[a].mission
    <3>1. CASE T[y].start < T[b].start
      BY <1>4, <2>8, <2>10, <3>1 DEF DoNotInterleave
    <3>2. CASE T[y].start = T[b].start
      <4>1. b = y
        BY <1>0, <1>1, <1>4, <1>5, <2>7, <3>2
           DEF NoOverlap, EndsBefore, Running, LiveOf
      <4> QED
        BY <4>1
    <3> QED
      BY <1>0, <1>1, <1>4, <1>5, <2>7, <2>8, <3>1, <3>2
  <2> QED
    BY <2>6, <2>11, <2>12
<1> QED
  BY <1>10, <1>11

-----------------------------------------------------------------------------
(* The inductive invariant.  EndedMissionIsStopped is not inductive alone: *)
(* end_mission_for_user closes the last activity only, so that no other    *)
(* one runs follows from NoOverlap, and MissionsDoNotInterleave needs the  *)
(* activities to be disjoint and to have a positive duration.              *)

TimelineInv ==
  /\ TypeOK
  /\ DurationsArePositive(activities)
  /\ NoOverlap(activities)
  /\ EndedMissionIsStopped
  /\ MissionsDoNotInterleave

StoppedIn(T, E) ==
  \A u \in User, m \in Mission :
    <<u, m>> \in E => \A a \in LiveIn(T, u, m) : ~Running(T, a)

LEMMA WriteKeepsStopped ==
  ASSUME TypeOK, StoppedIn(activities, ends),
         NEW T \in Table, NEW u, NEW m, OnlyWrites(T, u, m),
         NEW E, E \subseteq ends \cup {<<u, m>>},
         <<u, m>> \in E => \A a \in LiveIn(T, u, m) : ~Running(T, a)
  PROVE  StoppedIn(T, E)
<1> SUFFICES ASSUME NEW v \in User, NEW n \in Mission, <<v, n>> \in E,
                    NEW a \in LiveIn(T, v, n)
             PROVE  ~Running(T, a)
  BY DEF StoppedIn
<1>1. CASE <<v, n>> = <<u, m>>
  BY <1>1
<1>2. CASE <<v, n>> # <<u, m>>
  <2>1. a \in LiveIn(activities, v, n) /\ T[a] = activities[a]
    BY <1>2, ElsewhereUnchanged
  <2> QED
    BY <1>2, <2>1 DEF StoppedIn, Running
<1> QED
  BY <1>1, <1>2

\* Cancelling removes activities and changes no other.
LEMMA CancelKeepsInvariant ==
  ASSUME TimelineInv, NEW T \in Table, NEW S, Commit(T), UNCHANGED <<now, ends>>,
         T = Dismiss(activities, S),
         S \subseteq Live(activities), TypeOK'
  PROVE  TimelineInv'
<1>1. now \in Int /\ activities \in Table
  BY TimeAssumption DEF TimelineInv, TypeOK, Table
<1>2. \A a \in S : T[a].dismissedAt # Null
  BY <1>1, LiveRow, DismissedType DEF Dismiss
<1>3. \A a \in Live(T) : a \in Live(activities) /\ T[a] = activities[a]
  BY <1>2 DEF Live, Logged, Dismiss
<1>4. activities' = T /\ DurationsArePositive(T) /\ NoOverlap(T)
  BY DEF Commit
<1>5. DoNotInterleave(T)
  BY <1>3 DEF TimelineInv, MissionsDoNotInterleave, DoNotInterleave, LiveOf
<1>6. StoppedIn(T, ends)
  BY <1>3 DEF TimelineInv, EndedMissionIsStopped, StoppedIn, LiveIn, LiveOf,
              Running
<1> QED
  BY <1>4, <1>5, <1>6 DEF TimelineInv, MissionsDoNotInterleave,
                          EndedMissionIsStopped, StoppedIn

\* What every write that is checked against the timeline preserves.
LEMMA CheckedWriteKeepsInvariant ==
  ASSUME TimelineInv, NEW T \in Table, NEW u, NEW m, OnlyWrites(T, u, m),
         CheckedWrite(T, u, m), TypeOK',
         ends' \subseteq ends \cup {<<u, m>>},
         <<u, m>> \in ends' => \A a \in LiveIn(T, u, m) : ~Running(T, a)
  PROVE  TimelineInv'
<1>1. /\ activities' = T /\ DurationsArePositive(T) /\ NoOverlap(T)
      /\ PeriodIsFree(T, u, m)
  BY DEF CheckedWrite, Commit
<1>2. DoNotInterleave(T)
  BY <1>1, FreePeriodKeepsOrder DEF TimelineInv, MissionsDoNotInterleave
<1>3. StoppedIn(T, ends')
  BY WriteKeepsStopped DEF TimelineInv, EndedMissionIsStopped, StoppedIn
<1> QED
  BY <1>1, <1>2, <1>3 DEF TimelineInv, MissionsDoNotInterleave,
                          EndedMissionIsStopped, StoppedIn

\* Beside the last activity of a mission, no other one runs.
LEMMA OnlyLastRuns ==
  ASSUME TimelineInv, NEW u, NEW m, LiveIn(activities, u, m) # {},
         NEW b \in LiveIn(activities, u, m),
         b # Last(activities, LiveIn(activities, u, m))
  PROVE  ~Running(activities, b)
<1> DEFINE mine == LiveIn(activities, u, m)
           last == Last(activities, mine)
<1>1. activities \in Table
  BY DEF TimelineInv, TypeOK, Table
<1>2. mine \subseteq Live(activities)
  BY DEF LiveIn, LiveOf
<1>3. last \in mine /\ activities[b].start <= activities[last].start
  BY <1>1, <1>2, LastIsLast
<1> HIDE DEF last
<1>4. b # last
  BY DEF last
<1>5. /\ activities[b] \in Row /\ activities[last] \in Row
      /\ activities[b].user = activities[last].user
      /\ b \in Live(activities) /\ last \in Live(activities)
  BY <1>1, <1>2, <1>3, LiveRow DEF LiveIn, LiveOf
<1>6. EndsBefore(activities, b, last) \/ EndsBefore(activities, last, b)
  BY <1>4, <1>5 DEF TimelineInv, NoOverlap
<1>7. ~Running(activities, last) => activities[last].start < activities[last].end
  BY <1>5 DEF TimelineInv, DurationsArePositive, Live
<1> QED
  BY <1>3, <1>5, <1>6, <1>7 DEF EndsBefore, Running, Row

-----------------------------------------------------------------------------
(* One lemma per action.                                                   *)

LEMMA LogKeepsInvariant ==
  ASSUME TimelineInv, TypeOK', NEW a \in Activity, NEW u \in User,
         NEW m \in Mission, NEW ty \in Type, NEW s \in Instant,
         NEW e \in Instant \cup {Null}, NEW switch \in BOOLEAN,
         LogActivity(a, u, m, ty, s, e, switch)
  PROVE  TimelineInv'
<1> DEFINE T == Insert(activities, a, u, m, ty, s, e)
<1>0. TypeOK /\ s \in Int /\ e \in Int \cup {Null} /\ activities[a] = Null
  BY TimeAssumption DEF TimelineInv, LogActivity, CanLog
<1>1. /\ T \in Table /\ OnlyWrites(T, u, m) /\ T[a].end = ToMinute(e)
      /\ \A b \in Activity : b # a => T[b] = activities[b]
  BY <1>0, InsertWrites
<1>2. CheckedWrite(T, u, m) /\ ends' = Reopened(u, m, e)
  BY DEF LogActivity
<1> HIDE DEF T
<1>3. ASSUME <<u, m>> \in ends', NEW b \in LiveIn(T, u, m)
      PROVE  ~Running(T, b)
  <2>1. e # Null /\ <<u, m>> \in ends
    BY <1>2, <1>3 DEF Reopened
  <2>2. CASE b = a
    BY <1>0, <1>1, <2>1, <2>2, ToMinuteType, NullAssumption DEF Running
  <2>3. CASE b # a
    <3>1. b \in LiveIn(activities, u, m) /\ T[b] = activities[b]
      BY <1>1, <1>3, <2>3 DEF LiveIn, LiveOf, Live, Logged
    <3> QED
      BY <2>1, <3>1 DEF TimelineInv, EndedMissionIsStopped, Running
  <2> QED
    BY <2>2, <2>3
<1> QED
  BY <1>1, <1>2, <1>3, CheckedWriteKeepsInvariant DEF Reopened

LEMMA SwitchKeepsInvariant ==
  ASSUME TimelineInv, TypeOK', NEW a \in Activity, NEW c \in Live(activities),
         NEW ty \in Type, NEW s \in Instant, SwitchActivity(a, c, ty, s)
  PROVE  TimelineInv'
<1> DEFINE u == activities[c].user
           m == activities[c].mission
           closed == Revise(activities, c, activities[c].start, s)
           T == Insert(closed, a, u, m, ty, s, Null)
<1>0. TypeOK /\ activities \in Table /\ now \in Int /\ s \in Int
      /\ activities[a] = Null
  BY TimeAssumption DEF TimelineInv, SwitchActivity, CanSwitch, TypeOK, Table
<1>1. c \in Activity /\ activities[c] \in Row /\ activities[c].start \in Int
      /\ u \in User /\ m \in Mission
  BY <1>0, LiveRow DEF Row
<1>2. /\ closed \in Table /\ OnlyWrites(closed, u, m)
      /\ \A b \in Activity : b # c => closed[b] = activities[b]
  BY <1>0, <1>1, ReviseWrites
<1>3. NewRow(u, m, ty, s, Null) \in Row
      /\ NewRow(u, m, ty, s, Null).user = u
      /\ NewRow(u, m, ty, s, Null).mission = m
  BY <1>0, <1>1, NewRowType DEF NewRow
<1>4. CheckedWrite(T, u, m) /\ ends' = ends \ {<<u, m>>}
  BY DEF SwitchActivity, Switch, Reopened
<1> HIDE DEF closed
<1>5. T \in Table /\ OnlyWrites(T, u, m)
  BY <1>0, <1>2, <1>3 DEF Insert, Table, OnlyWrites
<1> HIDE DEF u, m, T
<1> QED
  BY <1>4, <1>5, CheckedWriteKeepsInvariant

LEMMA EditKeepsInvariant ==
  ASSUME TimelineInv, TypeOK', NEW a \in Live(activities),
         NEW s \in Instant \cup {activities[a].start},
         NEW e \in Instant \cup {Null, activities[a].end},
         EditActivity(a, s, e)
  PROVE  TimelineInv'
<1> DEFINE u == activities[a].user
           m == activities[a].mission
           T == Revise(activities, a, s, e)
<1>0. TypeOK /\ activities \in Table
  BY DEF TimelineInv, TypeOK, Table
<1>1. activities[a] \in Row /\ s \in Int /\ e \in Int \cup {Null}
  BY <1>0, LiveRow, TimeAssumption DEF Row
<1>2. /\ T \in Table /\ OnlyWrites(T, u, m) /\ T[a].end = ToMinute(e)
      /\ Live(T) = Live(activities)
      /\ \A b \in Activity : b # a => T[b] = activities[b]
  BY <1>0, <1>1, ReviseWrites
<1>3. CheckedWrite(T, u, m) /\ ends' = Reopened(u, m, e)
  BY DEF EditActivity
<1> HIDE DEF T
<1>4. ASSUME <<u, m>> \in ends', NEW b \in LiveIn(T, u, m)
      PROVE  ~Running(T, b)
  <2>1. e # Null /\ <<u, m>> \in ends
    BY <1>3, <1>4 DEF Reopened
  <2>2. CASE b = a
    BY <1>1, <1>2, <2>1, <2>2, ToMinuteType, NullAssumption DEF Running
  <2>3. CASE b # a
    <3>1. b \in LiveIn(activities, u, m) /\ T[b] = activities[b]
      BY <1>2, <1>4, <2>3 DEF LiveIn, LiveOf, Live, Logged
    <3>2. u \in User /\ m \in Mission
      BY <1>1 DEF Row
    <3> QED
      BY <2>1, <3>1, <3>2 DEF TimelineInv, EndedMissionIsStopped, Running
  <2> QED
    BY <2>2, <2>3
<1> QED
  BY <1>2, <1>3, <1>4, CheckedWriteKeepsInvariant DEF Reopened

LEMMA EndKeepsInvariant ==
  ASSUME TimelineInv, TypeOK', NEW u \in User, NEW m \in Mission,
         NEW t \in Instant, EndMission(u, m, t)
  PROVE  TimelineInv'
<1> DEFINE mine == LiveIn(activities, u, m)
           last == Last(activities, mine)
           T == Revise(activities, last, activities[last].start, t)
<1>0. TypeOK /\ activities \in Table /\ t \in Int
      /\ ends' = ends \cup {<<u, m>>} /\ now' = now
  BY TimeAssumption DEF TimelineInv, TypeOK, Table, EndMission
<1>1. mine \subseteq Live(activities)
  BY DEF LiveIn, LiveOf
<1>2. mine # {} => last \in mine
  BY <1>0, <1>1, LastIsLast
<1>3. CASE UNCHANGED activities
           /\ (mine # {} => ~Running(activities, last))
  <2>1. \A b \in mine : ~Running(activities, b)
    BY <1>3, OnlyLastRuns
  <2>2. OnlyWrites(activities, u, m)
    BY DEF OnlyWrites
  <2>3. StoppedIn(activities, ends')
    BY <1>0, <2>1, <2>2, WriteKeepsStopped
       DEF TimelineInv, EndedMissionIsStopped, StoppedIn
  <2> QED
    BY <1>3, <2>3 DEF TimelineInv, StoppedIn, EndedMissionIsStopped,
       MissionsDoNotInterleave
<1>4. CASE mine # {} /\ CheckedWrite(T, u, m)
  <2>1. last \in mine /\ last \in Live(activities)
    BY <1>1, <1>2, <1>4
  <2>2. activities[last] \in Row /\ activities[last].start \in Int
        /\ activities[last].user = u /\ activities[last].mission = m
    BY <1>0, <2>1, LiveRow DEF Row, LiveIn, LiveOf
  <2> HIDE DEF last
  <2>3. /\ T \in Table /\ OnlyWrites(T, u, m) /\ T[last].end = ToMinute(t)
        /\ Live(T) = Live(activities)
        /\ \A b \in Activity : b # last => T[b] = activities[b]
    BY <1>0, <2>1, <2>2, ReviseWrites
  <2> HIDE DEF T
  <2>4. ASSUME NEW b \in LiveIn(T, u, m)
        PROVE  ~Running(T, b)
    <3>1. CASE b = last
      BY <1>0, <2>3, <3>1, ToMinuteType, NullAssumption DEF Running
    <3>2. CASE b # last
      <4>1. b \in mine /\ T[b] = activities[b]
        BY <2>3, <2>4, <3>2 DEF LiveIn, LiveOf, Live, Logged
      <4> QED
        BY <1>4, <3>2, <4>1, OnlyLastRuns DEF last, Running
    <3> QED
      BY <3>1, <3>2
  <2> QED
    BY <1>0, <1>4, <2>3, <2>4, CheckedWriteKeepsInvariant
<1> QED
  BY <1>3, <1>4 DEF EndMission

LEMMA HolidayKeepsInvariant ==
  ASSUME TimelineInv, TypeOK', NEW a \in Activity, NEW u \in User,
         NEW m \in Mission, NEW s \in Instant, NEW e \in Instant,
         LogHoliday(a, u, m, s, e)
  PROVE  TimelineInv'
<1> DEFINE T == Insert(activities, a, u, m, Off, s, e)
<1>0. TypeOK /\ s \in Int /\ e \in Int /\ activities[a] = Null /\ Off \in Type
  BY TimeAssumption DEF TimelineInv, LogHoliday, Type
<1>a. e \in Int \cup {Null}
  BY <1>0
<1>1. /\ T \in Table
      /\ OnlyWrites(T, u, m)
      /\ \A b \in Activity : b # a => T[b] = activities[b]
      /\ T[a].end = ToMinute(e)
  BY <1>0, <1>a, InsertWrites
<1>2. /\ CheckedWrite(T, u, m) /\ ends' = ends \cup {<<u, m>>}
      /\ IsEmpty(activities, m)
  BY DEF LogHoliday
<1> HIDE DEF T
<1>3. ASSUME NEW b \in LiveIn(T, u, m)
      PROVE  ~Running(T, b)
  <2>1. b = a
    BY <1>1, <1>2, <1>3 DEF LiveIn, LiveOf, Live, Logged, IsEmpty
  <2> QED
    BY <1>0, <1>1, <2>1, ToMinuteType, NullAssumption DEF Running
<1> QED
  BY <1>1, <1>2, <1>3, CheckedWriteKeepsInvariant

LEMMA InvariantStep == TimelineInv /\ [Next]_vars => TimelineInv'
<1> SUFFICES ASSUME TimelineInv, [Next]_vars
             PROVE  TimelineInv'
  OBVIOUS
<1>0. TypeOK'
  BY TypeStep DEF TimelineInv
<1>t. activities \in Table /\ activities' \in Table
  BY <1>0 DEF TimelineInv, TypeOK, Table
<1>1. CASE UNCHANGED vars \/ Tick
  <2>1. activities' = activities /\ ends' = ends
    BY <1>1 DEF vars, Tick
  <2> QED
    BY <1>0, <2>1 DEF TimelineInv, EndedMissionIsStopped,
       MissionsDoNotInterleave
<1>2. ASSUME NEW a \in Activity, NEW u \in User, NEW m \in Mission,
             NEW ty \in Type, NEW s \in Instant,
             NEW e \in Instant \cup {Null}, NEW switch \in BOOLEAN,
             LogActivity(a, u, m, ty, s, e, switch)
      PROVE  TimelineInv'
  BY <1>0, <1>2, LogKeepsInvariant
<1>3. ASSUME NEW a \in Activity, NEW c \in Live(activities),
             NEW ty \in Type, NEW s \in Instant,
             SwitchActivity(a, c, ty, s)
      PROVE  TimelineInv'
  BY <1>0, <1>3, SwitchKeepsInvariant
<1>4. ASSUME NEW a \in Live(activities), CancelActivity(a)
      PROVE  TimelineInv'
  <2>1. activities' = Dismiss(activities, {a})
    BY <1>4 DEF CancelActivity, Commit
  <2>2. Commit(activities') /\ UNCHANGED <<now, ends>>
    BY <1>4 DEF CancelActivity, Commit
  <2> QED
    BY <1>0, <1>t, <2>1, <2>2, CancelKeepsInvariant
<1>5. ASSUME NEW a \in Live(activities),
             NEW s \in Instant \cup {activities[a].start},
             NEW e \in Instant \cup {Null, activities[a].end},
             EditActivity(a, s, e)
      PROVE  TimelineInv'
  BY <1>0, <1>5, EditKeepsInvariant
<1>6. ASSUME NEW u \in User, NEW m \in Mission, CancelMission(u, m)
      PROVE  TimelineInv'
  <2>1. LiveIn(activities, u, m) \subseteq Live(activities)
    BY DEF LiveIn, LiveOf
  <2> QED
    BY <1>0, <1>t, <1>6, <2>1, CancelKeepsInvariant DEF CancelMission, Commit
<1>7. ASSUME NEW u \in User, NEW m \in Mission, CloseMission(u, m)
      PROVE  TimelineInv'
  <2>1. OnlyWrites(activities, u, m)
    BY DEF OnlyWrites
  <2>2. StoppedIn(activities, ends')
    BY <1>7, <1>t, <2>1, WriteKeepsStopped
       DEF CloseMission, TimelineInv, EndedMissionIsStopped, StoppedIn
  <2> QED
    BY <1>0, <1>7, <2>2 DEF CloseMission, TimelineInv, StoppedIn,
       EndedMissionIsStopped, MissionsDoNotInterleave
<1>8. ASSUME NEW u \in User, NEW m \in Mission, NEW t \in Instant,
             EndMission(u, m, t)
      PROVE  TimelineInv'
  BY <1>0, <1>8, EndKeepsInvariant
<1>9. ASSUME NEW u \in User, NEW m \in Mission, NEW a \in Activity,
             NEW s \in Instant, NEW e \in Instant,
             LogHoliday(a, u, m, s, e)
      PROVE  TimelineInv'
  BY <1>0, <1>9, HolidayKeepsInvariant
<1> QED
  BY <1>1, <1>2, <1>3, <1>4, <1>5, <1>6, <1>7, <1>8, <1>9 DEF Next

LEMMA InvariantInitially == Init => TimelineInv
BY DEF Init, TimelineInv, TypeOK, DurationsArePositive, NoOverlap,
       EndedMissionIsStopped, MissionsDoNotInterleave, DoNotInterleave,
       LiveIn, LiveOf, Live, Logged

LEMMA Invariance == Spec => []TimelineInv
<1>1. Init => TimelineInv
  BY InvariantInitially
<1>2. TimelineInv /\ [Next]_vars => TimelineInv'
  BY InvariantStep
<1> QED
  BY <1>1, <1>2, PTL DEF Spec

-----------------------------------------------------------------------------
(* Theorems.                                                               *)

\* The missions of every user follow one another (MissionsDoNotInterleave),
\* although each write checks only the mission it writes to.
THEOREM MissionsStayApart == Spec => []MissionsDoNotInterleave
<1>1. TimelineInv => MissionsDoNotInterleave
  BY DEF TimelineInv
<1> QED
  BY <1>1, Invariance, PTL

\* A mission that is ended for a user has no running activity of that user
\* (EndedMissionIsStopped).
THEOREM EndsAreFinal == Spec => []EndedMissionIsStopped
<1>1. TimelineInv => EndedMissionIsStopped
  BY DEF TimelineInv
<1> QED
  BY <1>1, Invariance, PTL

\* The only writes that take an end back are those of Reopened, and only when
\* the activity they write has no end.
TakenBackByRunning ==
  \A u \in User, m \in Mission :
    <<u, m>> \in ends \ ends' =>
      \E a \in LiveIn(activities', u, m) : Running(activities', a)

LEMMA ReopenedByRunning ==
  ASSUME NEW T, activities' = T, NEW u, NEW m, NEW e,
         ends' = Reopened(u, m, e),
         NEW a \in Live(T), T[a].user = u, T[a].mission = m,
         e = Null => T[a].end = Null
  PROVE  TakenBackByRunning
<1>1. a \in LiveIn(T, u, m)
  BY DEF LiveIn, LiveOf
<1>2. \A v \in User, n \in Mission :
        <<v, n>> \in ends \ ends' => e = Null /\ v = u /\ n = m
  BY DEF Reopened
<1> QED
  BY <1>1, <1>2 DEF TakenBackByRunning, Running

LEMMA TakenBackStep == TypeOK /\ [Next]_vars => [TakenBackByRunning]_vars
<1> SUFFICES ASSUME TypeOK, Next
             PROVE  TakenBackByRunning
  BY DEF vars
<1>0. activities \in Table /\ now \in Int
  BY TimeAssumption DEF TypeOK, Table
<1>1. ASSUME ends \subseteq ends'
      PROVE  TakenBackByRunning
  BY <1>1 DEF TakenBackByRunning
<1>2. ASSUME NEW a \in Activity, NEW u \in User, NEW m \in Mission,
             NEW ty \in Type, NEW s \in Instant,
             NEW e \in Instant \cup {Null}, NEW switch \in BOOLEAN,
             LogActivity(a, u, m, ty, s, e, switch)
      PROVE  TakenBackByRunning
  <2> DEFINE T == Insert(activities, a, u, m, ty, s, e)
  <2>1. NewRow(u, m, ty, s, e) \in Row
    BY <1>0, TimeAssumption, NewRowType
  <2>2. T[a] = NewRow(u, m, ty, s, e)
    BY <1>0 DEF Insert, Table
  <2>3. /\ a \in Live(T) /\ T[a].user = u /\ T[a].mission = m
        /\ e = Null => T[a].end = Null
    BY <2>1, <2>2, NoRowAssumption, ToMinuteType DEF NewRow, Live, Logged
  <2>4. activities' = T /\ ends' = Reopened(u, m, e)
    BY <1>2 DEF LogActivity, CheckedWrite, Commit
  <2> HIDE DEF T
  <2> QED
    BY <2>3, <2>4, ReopenedByRunning
<1>3. ASSUME NEW a \in Activity, NEW c \in Live(activities),
             NEW ty \in Type, NEW s \in Instant,
             SwitchActivity(a, c, ty, s)
      PROVE  TakenBackByRunning
  <2> DEFINE u == activities[c].user
             m == activities[c].mission
             closed == Revise(activities, c, activities[c].start, s)
             T == Insert(closed, a, u, m, ty, s, Null)
  <2>1. u \in User /\ m \in Mission
    BY <1>0, LiveRow DEF Row
  <2>2. NewRow(u, m, ty, s, Null) \in Row
    BY <1>0, <2>1, TimeAssumption, NewRowType
  <2>3. T[a] = NewRow(u, m, ty, s, Null)
    BY <1>0 DEF Insert, Revise, Table
  <2>4. /\ a \in Live(T) /\ T[a].user = u /\ T[a].mission = m
        /\ T[a].end = Null
    BY <2>2, <2>3, NoRowAssumption, ToMinuteType DEF NewRow, Live, Logged
  <2>5. activities' = T /\ ends' = Reopened(u, m, Null)
    BY <1>3 DEF SwitchActivity, Switch, CheckedWrite, Commit
  <2> HIDE DEF T
  <2> QED
    BY <2>4, <2>5, ReopenedByRunning
<1>4. ASSUME NEW a \in Live(activities),
             NEW s \in Instant \cup {activities[a].start},
             NEW e \in Instant \cup {Null, activities[a].end},
             EditActivity(a, s, e)
      PROVE  TakenBackByRunning
  <2> DEFINE T == Revise(activities, a, s, e)
  <2>1. /\ activities[a] \in Row /\ s \in Int /\ e \in Int \cup {Null}
        /\ a \in Activity
    BY <1>0, LiveRow, TimeAssumption DEF Row
  <2>2. Live(T) = Live(activities) /\ T[a].end = ToMinute(e)
    BY <2>1, ReviseWrites
  <2>3. T[a].user = activities[a].user /\ T[a].mission = activities[a].mission
    BY <1>0, <2>1, RevisedType DEF Revise, Table
  <2>4. activities' = T
        /\ ends' = Reopened(activities[a].user, activities[a].mission, e)
    BY <1>4 DEF EditActivity, CheckedWrite, Commit
  <2> HIDE DEF T
  <2> QED
    BY <2>2, <2>3, <2>4, ToMinuteType, ReopenedByRunning
<1> QED
  BY <1>1, <1>2, <1>3, <1>4
     DEF Next, Tick, CancelActivity, CancelMission, CloseMission, EndMission,
         LogHoliday

\* A mission end is taken back only by a write that leaves the user running
\* on the mission (EndIsTakenBackByRunning).
THEOREM EndsComeBackRunning == Spec => EndIsTakenBackByRunning
<1>1. TypeOK /\ [Next]_vars => [TakenBackByRunning]_vars
  BY TakenBackStep
<1> QED
  BY <1>1, TypeCorrect, PTL DEF Spec, EndIsTakenBackByRunning, TakenBackByRunning

-----------------------------------------------------------------------------
(* Days off.                                                               *)

\* T has the same rows of the same types in the same missions.
SameWork(T) ==
  \A b \in Logged(T) : /\ b \in Logged(activities)
                       /\ T[b].type = activities[b].type
                       /\ T[b].mission = activities[b].mission

LEMMA ReviseIsSameWork ==
  ASSUME TypeOK, NEW c \in Live(activities),
         NEW s \in Int, NEW e \in Int \cup {Null}
  PROVE  SameWork(Revise(activities, c, s, e))
<1>1. activities \in Table /\ c \in Activity /\ activities[c] \in Row
  BY LiveRow DEF TypeOK, Table
<1>2. c \in Logged(activities)
  BY DEF Live
<1>3. Revised(activities[c], s, e).type = activities[c].type
      /\ Revised(activities[c], s, e).mission = activities[c].mission
  BY <1>1 DEF Revised, Row
<1> QED
  BY <1>1, <1>2, <1>3 DEF Revise, SameWork, Logged, Table

LEMMA DismissIsSameWork ==
  ASSUME TypeOK, NEW S, S \subseteq Live(activities)
  PROVE  SameWork(Dismiss(activities, S))
<1>1. \A c \in S : /\ activities[c] \in Row /\ c \in Logged(activities)
                   /\ Dismissed(activities[c]).type = activities[c].type
                   /\ Dismissed(activities[c]).mission = activities[c].mission
  BY LiveRow DEF TypeOK, Table, Live, Dismissed, Row
<1> QED
  BY <1>1 DEF Dismiss, SameWork, Logged

LEMMA SameWorkKeepsDayOff ==
  ASSUME HolidayMissionHoldsOneDay, SameWork(activities')
  PROVE  HolidayMissionHoldsOneDay'
BY DEF HolidayMissionHoldsOneDay, SameWork

LEMMA InsertKeepsDayOff ==
  ASSUME TypeOK, HolidayMissionHoldsOneDay,
         NEW T \in Table, SameWork(T),
         NEW a \in Activity, activities[a] = Null, NEW u, NEW m, NEW ty,
         NEW s, NEW e, MayLog(m, ty, s, e),
         activities' = Insert(T, a, u, m, ty, s, e)
  PROVE  HolidayMissionHoldsOneDay'
<1>1. /\ activities'[a].mission = m /\ activities'[a].type = ty
      /\ \A b \in Activity : b # a => activities'[b] = T[b]
  BY DEF Insert, Table, NewRow
<1>2. /\ \A b \in Logged(activities) : activities[b].mission = m =>
              activities[b].type # Off /\ ty # Off
  BY DEF MayLog, IsHoliday, IsEmpty
<1>3. \A b \in Logged(activities') : b # a =>
        /\ b \in Logged(activities)
        /\ activities'[b].type = activities[b].type
        /\ activities'[b].mission = activities[b].mission
  BY <1>1 DEF SameWork, Logged
<1> QED
  BY <1>1, <1>2, <1>3 DEF HolidayMissionHoldsOneDay

LEMMA DayOffStep ==
  TypeOK /\ HolidayMissionHoldsOneDay /\ [Next]_vars => HolidayMissionHoldsOneDay'
<1> SUFFICES ASSUME TypeOK, HolidayMissionHoldsOneDay, [Next]_vars
             PROVE  HolidayMissionHoldsOneDay'
  OBVIOUS
<1>0. activities \in Table /\ SameWork(activities)
  BY DEF TypeOK, Table, SameWork
<1>1. ASSUME UNCHANGED activities
      PROVE  HolidayMissionHoldsOneDay'
  BY <1>1 DEF HolidayMissionHoldsOneDay
<1>2. ASSUME NEW a \in Activity, NEW u \in User, NEW m \in Mission,
             NEW ty \in Type, NEW s \in Instant,
             NEW e \in Instant \cup {Null}, NEW switch \in BOOLEAN,
             LogActivity(a, u, m, ty, s, e, switch)
      PROVE  HolidayMissionHoldsOneDay'
  BY <1>0, <1>2, InsertKeepsDayOff
     DEF LogActivity, CanLog, CheckedWrite, Commit
<1>3. ASSUME NEW a \in Activity, NEW c \in Live(activities),
             NEW ty \in Type, NEW s \in Instant,
             SwitchActivity(a, c, ty, s)
      PROVE  HolidayMissionHoldsOneDay'
  <2> DEFINE closed == Revise(activities, c, activities[c].start, s)
  <2>1. activities[c].start \in Int /\ s \in Int
    BY <1>0, LiveRow, TimeAssumption DEF Row
  <2>2. closed \in Table /\ SameWork(closed)
    BY <2>1, ReviseWrites, ReviseIsSameWork
  <2>3. /\ activities[a] = Null /\ MayLog(activities[c].mission, ty, s, Null)
        /\ activities' = Insert(closed, a, activities[c].user,
                                activities[c].mission, ty, s, Null)
    BY <1>3 DEF SwitchActivity, CanSwitch, Switch, CheckedWrite, Commit
  <2> HIDE DEF closed
  <2> QED
    BY <2>2, <2>3, InsertKeepsDayOff
<1>4. ASSUME NEW a \in Live(activities), CancelActivity(a)
      PROVE  HolidayMissionHoldsOneDay'
  <2>1. SameWork(Dismiss(activities, {a}))
    BY DismissIsSameWork
  <2> QED
    BY <1>4, <2>1, SameWorkKeepsDayOff DEF CancelActivity, Commit
<1>5. ASSUME NEW a \in Live(activities),
             NEW s \in Instant \cup {activities[a].start},
             NEW e \in Instant \cup {Null, activities[a].end},
             EditActivity(a, s, e)
      PROVE  HolidayMissionHoldsOneDay'
  <2>1. s \in Int /\ e \in Int \cup {Null}
    BY <1>0, LiveRow, TimeAssumption DEF Row
  <2>2. SameWork(Revise(activities, a, s, e))
    BY <2>1, ReviseIsSameWork
  <2> QED
    BY <1>5, <2>2, SameWorkKeepsDayOff DEF EditActivity, CheckedWrite, Commit
<1>6. ASSUME NEW u \in User, NEW m \in Mission, CancelMission(u, m)
      PROVE  HolidayMissionHoldsOneDay'
  <2>1. LiveIn(activities, u, m) \subseteq Live(activities)
    BY DEF LiveIn, LiveOf
  <2>2. SameWork(Dismiss(activities, LiveIn(activities, u, m)))
    BY <2>1, DismissIsSameWork
  <2> QED
    BY <1>6, <2>2, SameWorkKeepsDayOff DEF CancelMission, Commit
<1>7. ASSUME NEW u \in User, NEW m \in Mission, NEW t \in Instant,
             EndMission(u, m, t)
      PROVE  HolidayMissionHoldsOneDay'
  <2> DEFINE mine == LiveIn(activities, u, m)
             last == Last(activities, mine)
  <2>1. CASE UNCHANGED activities
    BY <1>1, <2>1
  <2>2. CASE mine # {} /\ activities' =
               Revise(activities, last, activities[last].start, t)
    <3>1. last \in Live(activities)
      BY <1>0, <2>2, LastIsLast DEF LiveIn, LiveOf
    <3>2. activities[last].start \in Int /\ t \in Int
      BY <1>0, <3>1, LiveRow, TimeAssumption DEF Row
    <3> QED
      BY <2>2, <3>1, <3>2, ReviseIsSameWork, SameWorkKeepsDayOff
  <2> QED
    BY <1>7, <2>1, <2>2 DEF EndMission, CheckedWrite, Commit
<1>8. ASSUME NEW u \in User, NEW m \in Mission, NEW a \in Activity,
             NEW s \in Instant, NEW e \in Instant,
             LogHoliday(a, u, m, s, e)
      PROVE  HolidayMissionHoldsOneDay'
  BY <1>0, <1>8, InsertKeepsDayOff DEF LogHoliday, CheckedWrite, Commit
<1> QED
  BY <1>1, <1>2, <1>3, <1>4, <1>5, <1>6, <1>7, <1>8
     DEF Next, vars, Tick, CloseMission

\* A mission that records a day off holds nothing else, whatever is logged,
\* switched to or corrected later (HolidayMissionHoldsOneDay).
THEOREM DaysOffStandAlone == Spec => []HolidayMissionHoldsOneDay
<1>1. Init => HolidayMissionHoldsOneDay
  BY DEF Init, HolidayMissionHoldsOneDay, Logged
<1>2. TypeOK /\ HolidayMissionHoldsOneDay /\ [Next]_vars
        => HolidayMissionHoldsOneDay'
  BY DayOffStep
<1> QED
  BY <1>1, <1>2, TypeCorrect, PTL DEF Spec
-----------------------------------------------------------------------------
(* The versions.                                                           *)

\* What a row says of its present: its last version has its times.
Told(r) ==
  /\ r.versions # <<>>
  /\ r.versions[Len(r.versions)].start = r.start
  /\ r.versions[Len(r.versions)].end = r.end

\* The versions of a row follow one another and nothing in it is later than
\* the clock.
Dated(r) ==
  /\ \A i, j \in DOMAIN r.versions : i <= j => r.versions[i].at <= r.versions[j].at
  /\ r.versions[Len(r.versions)].at <= now
  /\ r.dismissedAt # Null => r.dismissedAt <= now

\* What a write makes of a row: nothing, a new row, one version more, or the
\* same row dismissed.
Rewritten(r, n) ==
  LET v == [start |-> n.start, end |-> n.end, at |-> now]
  IN \/ n = r
     \/ /\ r = Null /\ n \in Row
        /\ n.versions = <<v>> /\ n.dismissedAt = Null
     \/ /\ r \in Row /\ n \in Row
        /\ n.mission = r.mission
        /\ n.versions = Append(r.versions, v) /\ n.dismissedAt = r.dismissedAt
     \/ /\ r \in Row /\ n \in Row
        /\ n.mission = r.mission
        /\ n.versions = r.versions /\ n.start = r.start /\ n.end = r.end
        /\ r.dismissedAt = Null /\ n.dismissedAt = now

LEMMA NewIsRewritten ==
  ASSUME now \in Int, NEW u \in User, NEW m \in Mission, NEW ty \in Type,
         NEW s \in Int, NEW e \in Int \cup {Null}
  PROVE  Rewritten(Null, NewRow(u, m, ty, s, e))
<1>1. NewRow(u, m, ty, s, e) \in Row
  BY NewRowType
<1> QED
  BY <1>1 DEF Rewritten, NewRow, NewVersion

LEMMA RevisedIsRewritten ==
  ASSUME now \in Int, NEW row \in Row,
         NEW s \in Int, NEW e \in Int \cup {Null}
  PROVE  Rewritten(row, Revised(row, s, e))
<1> DEFINE n == Revised(row, s, e)
<1>1. n \in Row /\ n.mission = row.mission /\ n.dismissedAt = row.dismissedAt
      /\ n.end = ToMinute(e)
  BY RevisedType
<1>2. n.start = ToMinute(s)
  BY DEF Revised, Row
<1> DEFINE v == NewVersion(s, e)
<1>3. n.versions = Append(row.versions, v)
  BY DEF Revised, Row
<1>6. v = [start |-> n.start, end |-> n.end, at |-> now]
  BY <1>1, <1>2 DEF NewVersion
<1>7. row \in Row
  OBVIOUS
<1> HIDE DEF n, v
<1>8. n.versions = Append(row.versions, [start |-> n.start, end |-> n.end, at |-> now])
  BY <1>3, <1>6
<1>9. Rewritten(row, n)
  BY <1>1, <1>7, <1>8 DEF Rewritten
<1> QED
  BY <1>9 DEF n

LEMMA DismissedIsRewritten ==
  ASSUME now \in Int, NEW row \in Row, row.dismissedAt = Null
  PROVE  Rewritten(row, Dismissed(row))
<1> DEFINE n == Dismissed(row)
<1>1. n \in Row
  BY DismissedType
<1>2. /\ n.mission = row.mission /\ n.versions = row.versions
      /\ n.start = row.start /\ n.end = row.end /\ n.dismissedAt = now
  BY DEF Dismissed, Row
<1>3. row \in Row /\ row.dismissedAt = Null
  OBVIOUS
<1> HIDE DEF n
<1>4. Rewritten(row, n)
  BY <1>1, <1>2, <1>3 DEF Rewritten
<1> QED
  BY <1>4 DEF n

TableRewritten(T) == \A a \in Activity : Rewritten(activities[a], T[a])

LEMMA InsertRewrites ==
  ASSUME TypeOK, NEW T \in Table, TableRewritten(T),
         NEW a \in Activity, activities[a] = Null, NEW u \in User, NEW m \in Mission,
         NEW ty \in Type, NEW s \in Int, NEW e \in Int \cup {Null}
  PROVE  TableRewritten(Insert(T, a, u, m, ty, s, e))
<1>1. Rewritten(Null, NewRow(u, m, ty, s, e))
  BY NewIsRewritten, TimeAssumption DEF TypeOK
<1> QED
  BY <1>1 DEF TableRewritten, Insert, Table

LEMMA ReviseRewrites ==
  ASSUME TypeOK, NEW c \in Live(activities),
         NEW s \in Int, NEW e \in Int \cup {Null}
  PROVE  TableRewritten(Revise(activities, c, s, e))
<1>1. activities \in Table /\ now \in Int
  BY TimeAssumption DEF TypeOK, Table
<1>2. c \in Activity /\ activities[c] \in Row
  BY <1>1, LiveRow
<1>3. Rewritten(activities[c], Revised(activities[c], s, e))
  BY <1>1, <1>2, RevisedIsRewritten
<1>4. \A b \in Activity : Rewritten(activities[b], activities[b])
  BY DEF Rewritten
<1> QED
  BY <1>1, <1>2, <1>3, <1>4 DEF TableRewritten, Revise, Table

LEMMA DismissRewrites ==
  ASSUME TypeOK, NEW S \in SUBSET Live(activities)
  PROVE  TableRewritten(Dismiss(activities, S))
<1>1. activities \in Table /\ now \in Int
  BY TimeAssumption DEF TypeOK, Table
<1>2. \A c \in S : Rewritten(activities[c], Dismissed(activities[c]))
  BY <1>1, LiveRow, DismissedIsRewritten
<1>3. \A b \in Activity : Rewritten(activities[b], activities[b])
  BY DEF Rewritten
<1> QED
  BY <1>2, <1>3 DEF TableRewritten, Dismiss

LEMMA SwitchRewrites ==
  ASSUME TypeOK, NEW a \in Activity, activities[a] = Null, NEW c \in Live(activities),
         NEW ty \in Type, NEW s \in Int
  PROVE  TableRewritten(Switch(activities, a, c, ty, s))
<1>1. activities \in Table /\ activities[c] \in Row
  BY LiveRow DEF TypeOK, Table
<1>2. /\ activities[c].user \in User /\ activities[c].mission \in Mission
      /\ activities[c].start \in Int
  BY <1>1 DEF Row
<1> DEFINE closed == Revise(activities, c, activities[c].start, s)
<1>3. closed \in Table /\ TableRewritten(closed)
  BY <1>2, ReviseWrites, ReviseRewrites
<1> HIDE DEF closed
<1>4. TableRewritten(Insert(closed, a, activities[c].user, activities[c].mission,
                            ty, s, Null))
  BY <1>2, <1>3, InsertRewrites
<1> QED
  BY <1>4 DEF Switch, closed

\* Every step writes so, or only lets the time pass.
LEMMA StepRewrites ==
  ASSUME TypeOK, Next
  PROVE  \/ activities' = activities /\ now <= now'
         \/ TableRewritten(activities') /\ now' = now
<1>0. activities \in Table /\ now \in Int
  BY TimeAssumption DEF TypeOK, Table
<1>1. CASE Tick
  BY <1>0, <1>1, TimeAssumption DEF Tick
<1>2. ASSUME NEW a \in Activity, NEW u \in User, NEW m \in Mission,
             NEW ty \in Type, NEW s \in Instant,
             NEW e \in Instant \cup {Null}, NEW switch \in BOOLEAN,
             LogActivity(a, u, m, ty, s, e, switch)
      PROVE  TableRewritten(activities') /\ now' = now
  <2>1. TableRewritten(activities)
    BY DEF TableRewritten, Rewritten
  <2>2. activities[a] = Null /\ activities' = Insert(activities, a, u, m, ty, s, e)
        /\ now' = now
    BY <1>2 DEF LogActivity, CanLog, CheckedWrite, Commit
  <2> QED
    BY <1>0, <2>1, <2>2, TimeAssumption, InsertRewrites
<1>3. ASSUME NEW a \in Activity, NEW c \in Live(activities),
             NEW ty \in Type, NEW s \in Instant,
             SwitchActivity(a, c, ty, s)
      PROVE  TableRewritten(activities') /\ now' = now
  <2>1. activities[a] = Null /\ activities' = Switch(activities, a, c, ty, s) /\ now' = now
    BY <1>3 DEF SwitchActivity, CanSwitch, CheckedWrite, Commit
  <2> QED
    BY <2>1, TimeAssumption, SwitchRewrites
<1>4. ASSUME NEW a \in Live(activities), CancelActivity(a)
      PROVE  TableRewritten(activities') /\ now' = now
  BY <1>4, DismissRewrites DEF CancelActivity, Commit
<1>5. ASSUME NEW a \in Live(activities),
             NEW s \in Instant \cup {activities[a].start},
             NEW e \in Instant \cup {Null, activities[a].end},
             EditActivity(a, s, e)
      PROVE  TableRewritten(activities') /\ now' = now
  <2>1. s \in Int /\ e \in Int \cup {Null}
    BY <1>0, LiveRow, TimeAssumption DEF Row
  <2> QED
    BY <1>5, <2>1, ReviseRewrites DEF EditActivity, CheckedWrite, Commit
<1>6. ASSUME NEW u \in User, NEW m \in Mission, CancelMission(u, m)
      PROVE  TableRewritten(activities') /\ now' = now
  <2>1. LiveIn(activities, u, m) \subseteq Live(activities)
    BY DEF LiveIn, LiveOf
  <2> QED
    BY <1>6, <2>1, DismissRewrites DEF CancelMission, Commit
<1>7. ASSUME NEW u \in User, NEW m \in Mission, NEW t \in Instant,
             EndMission(u, m, t)
      PROVE  TableRewritten(activities') /\ now' = now
  <2> DEFINE mine == LiveIn(activities, u, m)
             last == Last(activities, mine)
  <2>1. now' = now
    BY <1>7 DEF EndMission
  <2>2. CASE UNCHANGED activities
    BY <2>1, <2>2 DEF TableRewritten, Rewritten
  <2>3. CASE mine # {} /\ activities' =
               Revise(activities, last, activities[last].start, t)
    <3>1. last \in Live(activities)
      BY <1>0, <2>3, LastIsLast DEF LiveIn, LiveOf
    <3>2. activities[last].start \in Int /\ t \in Int
      BY <1>0, <3>1, LiveRow, TimeAssumption DEF Row
    <3> QED
      BY <2>1, <2>3, <3>1, <3>2, ReviseRewrites
  <2> QED
    BY <1>7, <2>2, <2>3 DEF EndMission, CheckedWrite, Commit
<1>8. ASSUME NEW u \in User, NEW m \in Mission, NEW a \in Activity,
             NEW s \in Instant, NEW e \in Instant,
             LogHoliday(a, u, m, s, e)
      PROVE  TableRewritten(activities') /\ now' = now
  <2>1. TableRewritten(activities)
    BY DEF TableRewritten, Rewritten
  <2>2. activities[a] = Null /\ activities' = Insert(activities, a, u, m, Off, s, e)
        /\ now' = now
    BY <1>8 DEF LogHoliday, CheckedWrite, Commit
  <2> QED
    BY <1>0, <2>1, <2>2, TimeAssumption, InsertRewrites DEF Type
<1>9. ASSUME NEW u \in User, NEW m \in Mission, CloseMission(u, m)
      PROVE  activities' = activities /\ now <= now'
  BY <1>0, <1>9 DEF CloseMission
<1> QED
  BY <1>1, <1>2, <1>3, <1>4, <1>5, <1>6, <1>7, <1>8, <1>9 DEF Next

LEMMA VersionShape ==
  ASSUME NEW r \in Row
  PROVE  /\ r.versions \in Seq(Version) /\ Len(r.versions) \in Nat
         /\ DOMAIN r.versions = 1..Len(r.versions)
         /\ \A i \in DOMAIN r.versions :
              /\ r.versions[i] \in Version
              /\ r.versions[i].at \in Int
         /\ r.versions # <<>> => Len(r.versions) \in DOMAIN r.versions
                                 /\ 1 \in DOMAIN r.versions
         /\ r.dismissedAt = Null \/ r.dismissedAt \in Int
<1>1. r.versions \in Seq(Version)
  BY DEF Row
<1>2. /\ Len(r.versions) \in Nat /\ DOMAIN r.versions = 1..Len(r.versions)
      /\ \A i \in DOMAIN r.versions : r.versions[i] \in Version
      /\ r.versions # <<>> => Len(r.versions) > 0
  BY <1>1, LenProperties, ElementOfSeq
<1>3. \A v \in Version : v.at \in Int
  BY DEF Version
<1> QED
  BY <1>1, <1>2, <1>3 DEF Row

\* The versions of a row with one version more.
LEMMA OneMore ==
  ASSUME NEW r \in Row, NEW v \in Version
  PROVE  LET vs == Append(r.versions, v)
         IN /\ vs # <<>> /\ Len(vs) = Len(r.versions) + 1
            /\ DOMAIN vs = 1..(Len(r.versions) + 1)
            /\ \A i \in DOMAIN r.versions : vs[i] = r.versions[i]
            /\ vs[Len(vs)] = v
<1>1. r.versions \in Seq(Version)
  BY DEF Row
<1> QED
  BY <1>1, AppendProperties

LEMMA RewrittenIsTold ==
  ASSUME now \in Int, NEW r \in Row \cup {Null}, NEW n \in Row, Rewritten(r, n),
         r # Null => Told(r) /\ Dated(r)
  PROVE  Told(n) /\ Dated(n)
<1> DEFINE v == [start |-> n.start, end |-> n.end, at |-> now]
<1>1. v \in Version
  BY DEF Row, Version
<1>2. CASE n = r
  BY <1>2, NoRowAssumption
<1>3. CASE r = Null /\ n.versions = <<v>> /\ n.dismissedAt = Null
  <2>1. Len(n.versions) = 1 /\ n.versions[1] = v /\ DOMAIN n.versions = {1}
        /\ n.versions # <<>>
    BY <1>3
  <2> QED
    BY <1>3, <2>1 DEF Told, Dated
<1>4. CASE r \in Row /\ n.versions = Append(r.versions, v) /\ n.dismissedAt = r.dismissedAt
  <2>1. Told(r) /\ Dated(r)
    BY <1>4, NoRowAssumption
  <2> DEFINE k == Len(r.versions)
  <2>2. /\ n.versions # <<>> /\ Len(n.versions) = k + 1 /\ DOMAIN n.versions = 1..(k + 1)
        /\ \A i \in DOMAIN r.versions : n.versions[i] = r.versions[i]
        /\ n.versions[k + 1] = v
    BY <1>1, <1>4, OneMore
  <2>3. /\ k \in Nat /\ k \in DOMAIN r.versions /\ DOMAIN r.versions = 1..k
        /\ \A i \in 1..k : r.versions[i].at \in Int
    BY <1>4, <2>1, VersionShape DEF Told
  <2>4. \A i \in 1..k : r.versions[i].at <= now
    <3>1. \A i \in 1..k : i <= k /\ i \in DOMAIN r.versions
      BY <2>3
    <3>2. \A i \in 1..k : r.versions[i].at <= r.versions[k].at /\ r.versions[k].at <= now
      BY <2>1, <2>3, <3>1 DEF Dated
    <3> QED
      BY <2>3, <3>2
  <2>5. \A i, j \in 1..(k + 1) : i <= j => n.versions[i].at <= n.versions[j].at
    <3> SUFFICES ASSUME NEW i \in 1..(k + 1), NEW j \in 1..(k + 1), i <= j
                 PROVE  n.versions[i].at <= n.versions[j].at
      OBVIOUS
    <3>1. CASE j \in 1..k
      <4>1. i \in 1..k
        BY <2>3, <3>1
      <4> QED
        BY <2>1, <2>2, <2>3, <3>1, <4>1 DEF Dated
    <3>2. CASE j = k + 1 /\ i \in 1..k
      <4>1. n.versions[i].at <= now /\ n.versions[j].at = now
        BY <2>2, <2>3, <2>4, <3>2
      <4> QED
        BY <4>1
    <3>3. CASE j = k + 1 /\ i = k + 1
      BY <2>2, <3>3
    <3> QED
      BY <2>3, <3>1, <3>2, <3>3
  <2>6. Told(n)
    BY <2>2 DEF Told
  <2>7. n.versions[Len(n.versions)].at <= now
    BY <2>2
  <2>8. n.dismissedAt # Null => n.dismissedAt <= now
    BY <1>4, <2>1 DEF Dated
  <2> QED
    BY <2>2, <2>5, <2>6, <2>7, <2>8 DEF Dated
<1>5. CASE /\ r \in Row /\ n.versions = r.versions /\ n.start = r.start /\ n.end = r.end
           /\ n.dismissedAt = now
  <2>1. Told(r) /\ Dated(r)
    BY <1>5, NoRowAssumption
  <2> QED
    BY <1>5, <2>1 DEF Told, Dated
<1> QED
  BY <1>2, <1>3, <1>4, <1>5 DEF Rewritten

HistoryInv == TypeOK /\ \A a \in Logged(activities) : Told(activities[a]) /\ Dated(activities[a])

LEMMA HistoryStep == HistoryInv /\ [Next]_vars => HistoryInv'
<1> SUFFICES ASSUME HistoryInv, [Next]_vars PROVE HistoryInv'
  OBVIOUS
<1>1. TypeOK' /\ TypeOK
  BY TypeStep DEF HistoryInv
<1>2. now \in Int /\ now' \in Int /\ activities \in Table /\ activities' \in Table
  BY <1>1, TimeAssumption DEF TypeOK, Table
<1>3. CASE activities' = activities /\ now <= now'
  <2> SUFFICES ASSUME NEW a \in Logged(activities)
               PROVE  Told(activities[a])' /\ Dated(activities[a])'
    BY <1>1, <1>3 DEF HistoryInv, Logged
  <2>1. Told(activities[a]) /\ Dated(activities[a]) /\ activities[a] \in Row
    BY <1>2 DEF HistoryInv, Logged, Table
  <2> DEFINE k == Len(activities[a].versions)
  <2>2. activities[a].versions[k].at \in Int
    BY <2>1, VersionShape DEF Told
  <2>3. activities[a].dismissedAt = Null \/ activities[a].dismissedAt \in Int
    BY <2>1, VersionShape
  <2> QED
    BY <1>2, <1>3, <2>1, <2>2, <2>3 DEF Told, Dated
<1>4. CASE TableRewritten(activities') /\ now' = now
  <2> SUFFICES ASSUME NEW a \in Logged(activities)'
               PROVE  Told(activities[a])' /\ Dated(activities[a])'
    BY <1>1 DEF HistoryInv
  <2> DEFINE r == activities[a]
             n == activities'[a]
  <2>1. a \in Activity /\ n # Null
    BY DEF Logged
  <2>2. n \in Row /\ r \in Row \cup {Null} /\ Rewritten(r, n)
    BY <1>2, <1>4, <2>1 DEF Table, TableRewritten
  <2>3. r # Null => Told(r) /\ Dated(r)
    BY <2>1 DEF HistoryInv, Logged
  <2>4. Told(n) /\ Dated(n)
    BY <1>2, <2>2, <2>3, RewrittenIsTold
  <2> QED
    BY <1>4, <2>4 DEF Told, Dated
<1> QED
  BY <1>1, <1>2, <1>3, <1>4, StepRewrites DEF vars

LEMMA HistoryInitially == Init => HistoryInv
BY TypeInitially DEF Init, HistoryInv, Logged

LEMMA HistoryInvariance == Spec => []HistoryInv
BY HistoryInitially, HistoryStep, PTL DEF Spec

\* The version of now is the last one.
LEMMA LastIsNow ==
  ASSUME now \in Int, NEW r \in Row, Told(r), Dated(r)
  PROVE  /\ r.versions[1].at <= now
         /\ VersionAt(r, now) = r.versions[Len(r.versions)]
<1> DEFINE k == Len(r.versions)
           known == VersionsBefore(r, now)
<1>1. /\ k \in Nat /\ k \in DOMAIN r.versions /\ DOMAIN r.versions = 1..k
      /\ 1 \in DOMAIN r.versions
      /\ \A i \in 1..k : r.versions[i].at \in Int
  BY VersionShape DEF Told
<1>2. \A i \in 1..k : r.versions[i].at <= now
  <2>1. \A i \in 1..k : i <= k /\ i \in DOMAIN r.versions
    BY <1>1
  <2>2. \A i \in 1..k : r.versions[i].at <= r.versions[k].at /\ r.versions[k].at <= now
    BY <1>1, <2>1 DEF Dated
  <2> QED
    BY <1>1, <2>2
<1>3. known = 1..k /\ known # {}
  BY <1>1, <1>2 DEF VersionsBefore
<1>4. \A i \in 1..k : (\A j \in 1..k : j <= i) <=> i = k
  BY <1>1
<1>5. (CHOOSE i \in known : \A j \in known : j <= i) = k
  BY <1>1, <1>3, <1>4
<1> QED
  BY <1>1, <1>2, <1>3, <1>5 DEF VersionAt

LEMMA PresentIsTold == HistoryInv => VersionsTellThePresent
<1> SUFFICES ASSUME HistoryInv PROVE VersionsTellThePresent
  OBVIOUS
<1> DEFINE D == {b \in Logged(activities) :
                   activities[b].versions[1].at <= now /\ ~IsDismissedAt(activities[b], now)}
<1>1. now \in Int
  BY TimeAssumption DEF HistoryInv, TypeOK
<1>2. \A b \in Logged(activities) :
        /\ activities[b] \in Row /\ Told(activities[b]) /\ Dated(activities[b])
  BY DEF HistoryInv, TypeOK, Logged
<1>3. \A b \in Logged(activities) :
        ~IsDismissedAt(activities[b], now) <=> activities[b].dismissedAt = Null
  <2> TAKE b \in Logged(activities)
  <2>1. activities[b].dismissedAt # Null =>
          activities[b].dismissedAt \in Int /\ activities[b].dismissedAt <= now
    BY <1>2, VersionShape DEF Dated
  <2> QED
    BY <1>1, <2>1 DEF IsDismissedAt
<1>4. D = Live(activities)
  BY <1>1, <1>2, <1>3, LastIsNow DEF Live
<1>5. KnownAt(activities, now) = [a \in D |-> VersionAt(activities[a], now)]
  BY DEF KnownAt
<1> HIDE DEF D
<1>6. DOMAIN KnownAt(activities, now) = Live(activities)
  BY <1>4, <1>5
<1>7. ASSUME NEW a \in Live(activities)
      PROVE  LET v == KnownAt(activities, now)[a]
             IN v.start = activities[a].start /\ v.end = activities[a].end
  <2>1. a \in Logged(activities)
    BY DEF Live
  <2>2. KnownAt(activities, now)[a] = VersionAt(activities[a], now)
    BY <1>4, <1>5
  <2> QED
    BY <1>1, <1>2, <2>1, <2>2, LastIsNow DEF Told
<1> QED
  BY <1>6, <1>7 DEF VersionsTellThePresent

\* What the versions say of the present is what the activity rows say
\* (VersionsTellThePresent), for any number of corrections.
THEOREM VersionsStayTrue == Spec => []VersionsTellThePresent
BY HistoryInvariance, PresentIsTold, PTL

\* What was known of a row at an earlier instant.
KnownRow(r, t) == r # Null /\ r.versions[1].at <= t /\ ~IsDismissedAt(r, t)

\* What is known of a row that is there: its version of an instant that is
\* past, and whether it was dismissed by then.
SamePast(r, n, t) ==
  /\ n.versions[1] = r.versions[1]
  /\ VersionAt(n, t) = VersionAt(r, t)
  /\ IsDismissedAt(n, t) <=> IsDismissedAt(r, t)

LEMMA OneMoreKeepsPast ==
  ASSUME now \in Int, NEW t \in Int, t < now, NEW r \in Row, NEW n \in Row, Told(r),
         NEW v \in Version, v.at = now, n.versions = Append(r.versions, v)
  PROVE  n.versions[1] = r.versions[1] /\ VersionAt(n, t) = VersionAt(r, t)
<1> DEFINE k == Len(r.versions)
<1>1. /\ k \in Nat /\ DOMAIN r.versions = 1..k /\ 1 \in DOMAIN r.versions
  BY VersionShape DEF Told
<1>2. /\ DOMAIN n.versions = 1..(k + 1)
      /\ \A i \in DOMAIN r.versions : n.versions[i] = r.versions[i]
      /\ n.versions[k + 1] = v
  BY OneMore
<1>3. VersionsBefore(n, t) = VersionsBefore(r, t)
  <2>1. \A i \in 1..(k + 1) : i \in 1..k \/ i = k + 1
    BY <1>1
  <2>2. ~(n.versions[k + 1].at <= t)
    BY <1>2
  <2> QED
    BY <1>1, <1>2, <2>1, <2>2 DEF VersionsBefore
<1> DEFINE known == VersionsBefore(r, t)
           c == CHOOSE i \in known : \A j \in known : j <= i
<1>4. CASE known = {}
  BY <1>1, <1>2, <1>3, <1>4 DEF VersionAt
<1>5. CASE known # {}
  <2>1. \E i \in known : \A j \in known : j <= i
    <3>1. known \subseteq 1..k
      BY <1>1 DEF VersionsBefore
    <3>2. IsFiniteSet(known)
      <4>1. IsFiniteSet(1..k)
        BY <1>1, FS_Interval
      <4> QED
        BY <3>1, <4>1, FS_Subset
    <3> DEFINE f == [i \in known |-> i]
    <3>3. \A i \in known : f[i] = i /\ f[i] \in Int
      BY <1>1, <3>1
    <3> HIDE DEF f, known
    <3>4. \E x \in known : \A y \in known : f[y] <= f[x]
      BY <1>5, <3>2, <3>3, MaximumExists
    <3> QED
      BY <3>3, <3>4
  <2>2. c \in known
    BY <2>1
  <2>3. c \in DOMAIN r.versions
    BY <2>2 DEF VersionsBefore
  <2>4. VersionAt(n, t) = n.versions[c] /\ VersionAt(r, t) = r.versions[c]
    BY <1>3, <1>5 DEF VersionAt
  <2> QED
    BY <1>1, <1>2, <2>3, <2>4
<1> QED
  BY <1>4, <1>5

LEMMA RewrittenKeepsPast ==
  ASSUME now \in Int, NEW t \in Int, t < now,
         NEW r \in Row \cup {Null}, NEW n \in Row \cup {Null}, Rewritten(r, n),
         r # Null => Told(r) /\ Dated(r)
  PROVE  /\ r # Null => n # Null /\ SamePast(r, n, t)
         /\ KnownRow(n, t) <=> KnownRow(r, t)
<1> DEFINE v == [start |-> n.start, end |-> n.end, at |-> now]
<1>1. CASE n = r
  BY <1>1 DEF SamePast
<1>2. CASE r = Null /\ n.versions = <<v>>
  <2>1. n.versions[1].at = now
    BY <1>2
  <2> QED
    BY <1>2, <2>1 DEF KnownRow
<1>3. CASE r \in Row /\ n \in Row /\ n.versions = Append(r.versions, v)
           /\ n.dismissedAt = r.dismissedAt
  <2>1. v \in Version /\ v.at = now
    BY <1>3 DEF Row, Version
  <2>2. Told(r)
    BY <1>3, NoRowAssumption
  <2>3. n.versions[1] = r.versions[1] /\ VersionAt(n, t) = VersionAt(r, t)
    BY <1>3, <2>1, <2>2, OneMoreKeepsPast
  <2>4. IsDismissedAt(n, t) <=> IsDismissedAt(r, t)
    BY <1>3 DEF IsDismissedAt
  <2> QED
    BY <1>3, <2>3, <2>4, NoRowAssumption DEF KnownRow, SamePast
<1>4. CASE r \in Row /\ n \in Row /\ n.versions = r.versions
           /\ r.dismissedAt = Null /\ n.dismissedAt = now
  <2>1. VersionAt(n, t) = VersionAt(r, t)
    BY <1>4 DEF VersionAt, VersionsBefore
  <2>2. ~IsDismissedAt(n, t) /\ ~IsDismissedAt(r, t)
    BY <1>4 DEF IsDismissedAt
  <2> QED
    BY <1>4, <2>1, <2>2, NoRowAssumption DEF KnownRow, SamePast
<1> QED
  BY <1>1, <1>2, <1>3, <1>4 DEF Rewritten

PastStays ==
  \A t \in Clock : t < now =>
    /\ KnownAt(activities', t) = KnownAt(activities, t)
    /\ ControlIsKept(activities, activities', t)

\* The rows a controller is shown, and what is shown of each.
LEMMA ControlShows ==
  ASSUME NEW T, NEW t
  PROVE  /\ \A a : a \in DOMAIN ControlAt(T, t) <=>
                     a \in Logged(T) /\ T[a].start <= t /\ ~IsDismissedAt(T[a], t)
         /\ \A a \in DOMAIN ControlAt(T, t) : ControlAt(T, t)[a] = VersionAt(T[a], t)
BY DEF ControlAt

LEMMA PastStep == HistoryInv /\ [Next]_vars => [PastStays]_vars
<1> SUFFICES ASSUME HistoryInv, Next PROVE PastStays
  BY DEF vars
<1> SUFFICES ASSUME NEW t \in Clock, t < now
             PROVE  KnownAt(activities', t) = KnownAt(activities, t) /\ ControlIsKept(activities, activities', t)
  BY DEF PastStays
<1>1. TypeOK /\ TypeOK'
  BY TypeStep DEF HistoryInv
<1>2. now \in Int /\ t \in Int /\ activities \in Table /\ activities' \in Table
  BY <1>1, TimeAssumption DEF TypeOK, Table
<1>3. CASE activities' = activities
  BY <1>3 DEF ControlIsKept
<1>4. CASE TableRewritten(activities')
  <2> DEFINE D(T) == {a \in Activity : KnownRow(T[a], t)}
  <2>1. \A T : KnownAt(T, t) = [a \in D(T) |-> VersionAt(T[a], t)]
    BY DEF KnownAt, KnownRow, Logged
  <2>2. \A a \in Activity :
          /\ activities[a] # Null =>
               activities'[a] # Null /\ SamePast(activities[a], activities'[a], t)
          /\ KnownRow(activities'[a], t) <=> KnownRow(activities[a], t)
    <3> TAKE a \in Activity
    <3>1. /\ activities[a] \in Row \cup {Null} /\ activities'[a] \in Row \cup {Null}
          /\ Rewritten(activities[a], activities'[a])
      BY <1>2, <1>4 DEF Table, TableRewritten
    <3>2. activities[a] # Null => Told(activities[a]) /\ Dated(activities[a])
      BY DEF HistoryInv, Logged
    <3> QED
      BY <1>2, <3>1, <3>2, RewrittenKeepsPast
  <2>3. D(activities') = D(activities)
    BY <2>2
  <2>4. \A a \in D(activities) : VersionAt(activities'[a], t) = VersionAt(activities[a], t)
    BY <2>2 DEF KnownRow, SamePast
  <2>5. KnownAt(activities', t) = KnownAt(activities, t)
    <3> HIDE DEF D
    <3> QED
      BY <2>1, <2>3, <2>4
  <2>6. ControlIsKept(activities, activities', t)
    <3>1. \A a \in Activity : activities[a] # Null =>
            activities[a].start \in Int /\ activities'[a] # Null /\ activities'[a].start \in Int
      BY <1>2, <2>2 DEF Table, Row
    <3>2. \A a \in Activity : activities[a] # Null =>
            /\ VersionAt(activities'[a], t) = VersionAt(activities[a], t)
            /\ IsDismissedAt(activities'[a], t) <=> IsDismissedAt(activities[a], t)
      BY <2>2 DEF SamePast
    <3>3. \A a \in DOMAIN ControlAt(activities, t) \cap DOMAIN ControlAt(activities', t) :
            ControlAt(activities', t)[a] = ControlAt(activities, t)[a]
      BY <3>2, ControlShows DEF Logged
    <3>4. \A a \in DOMAIN ControlAt(activities, t) \ DOMAIN ControlAt(activities', t) :
            activities'[a].start > t
      BY <1>2, <3>1, <3>2, ControlShows DEF Logged
    <3>5. \A a \in DOMAIN ControlAt(activities', t) \ DOMAIN ControlAt(activities, t) :
            activities[a] = Null \/ activities[a].start > t
      BY <1>2, <3>1, <3>2, ControlShows DEF Logged
    <3> QED
      BY <3>3, <3>4, <3>5 DEF ControlIsKept
  <2> QED
    BY <2>5, <2>6
<1> QED
  BY <1>1, <1>3, <1>4, StepRewrites

\* No write changes what was known at an earlier instant, and what a controller
\* reads of a control changes by the start of a row only (PastIsImmutable).
THEOREM PastStaysKnown == Spec => PastIsImmutable
<1>1. Spec => [][PastStays]_vars
  BY HistoryInvariance, PastStep, PTL DEF Spec
<1>2. [][PastStays]_vars <=> PastIsImmutable
  BY DEF PastStays, PastIsImmutable
<1> QED
  BY <1>1, <1>2

-----------------------------------------------------------------------------
(* Timeline implements MissionWork.  A write touches the rows of one user  *)
(* on one mission (OnlyWrites), so the work of every other pair is as      *)
(* before; what it leaves of that pair is the abstract step's state r.     *)
(* The invariant is needed for the mission end: a write that does not take *)
(* it back leaves nothing running unless the mission was not ended         *)
(* (EndedMissionIsStopped), and the end stops everything because only the  *)
(* last activity runs (OnlyLastRuns).                                      *)

(* What a write leaves of the abstract state.                              *)

\* A user with live activities on a mission is working on it.
LEMMA WorkOfLive ==
  ASSUME NEW T \in Table, NEW u, NEW m, NEW a \in LiveIn(T, u, m)
  PROVE  WorkOf(T, u, m) =
           IF \E b \in LiveIn(T, u, m) : Running(T, b) THEN "running"
                                                       ELSE "stopped"
<1>1. a \in Logged(T) /\ T[a].user = u /\ T[a].mission = m
  BY DEF LiveIn, LiveOf, Live
<1> QED
  BY <1>1 DEF WorkOf

LEMMA WorkOfIsWorkState ==
  ASSUME NEW T, NEW u, NEW m
  PROVE  WorkOf(T, u, m) \in {"none", "cancelled", "stopped", "running"}
BY DEF WorkOf

\* A user who works on a mission has live activities there.
LEMMA LiveOfWork ==
  ASSUME NEW T, NEW u, NEW m, WorkOf(T, u, m) \in {"stopped", "running"}
  PROVE  /\ LiveIn(T, u, m) # {}
         /\ WorkOf(T, u, m) = "running" <=>
              \E b \in LiveIn(T, u, m) : Running(T, b)
BY DEF WorkOf

\* A write leaves the rows of the others alone.
LEMMA WorkElsewhere ==
  ASSUME TypeOK, NEW T \in Table, NEW u, NEW m, OnlyWrites(T, u, m),
         NEW v, NEW n, <<v, n>> # <<u, m>>
  PROVE  WorkOf(T, v, n) = WorkOf(activities, v, n)
<1>1. /\ LiveIn(T, v, n) = LiveIn(activities, v, n)
      /\ \A a \in LiveIn(T, v, n) : T[a] = activities[a]
  BY ElsewhereUnchanged
<1>2. (\A a \in Logged(T) : ~(T[a].user = v /\ T[a].mission = n))
        <=> (\A a \in Logged(activities) :
               ~(activities[a].user = v /\ activities[a].mission = n))
  <2>1. \A a \in Activity :
          (T[a] # Null /\ T[a].user = v /\ T[a].mission = n)
            <=> (activities[a] # Null /\ activities[a].user = v
                   /\ activities[a].mission = n)
    BY NoRowAssumption DEF OnlyWrites
  <2> QED
    BY <2>1 DEF Logged
<1>3. (\E a \in LiveIn(T, v, n) : Running(T, a))
        <=> (\E a \in LiveIn(activities, v, n) : Running(activities, a))
  BY <1>1 DEF Running
<1> QED
  BY <1>1, <1>2, <1>3 DEF WorkOf

LEMMA WorkAfterWrite ==
  ASSUME TypeOK, NEW T \in Table, NEW u \in User, NEW m \in Mission,
         OnlyWrites(T, u, m)
  PROVE  WorkShown(T) =
           [WorkShown(activities) EXCEPT ![<<u, m>>] = WorkOf(T, u, m)]
<1> DEFINE W == WorkShown(activities)
           V == [W EXCEPT ![<<u, m>>] = WorkOf(T, u, m)]
<1>1. \A p \in User \X Mission : WorkShown(T)[p] = V[p]
  <2> SUFFICES ASSUME NEW v \in User, NEW n \in Mission
               PROVE  WorkShown(T)[<<v, n>>] = V[<<v, n>>]
    OBVIOUS
  <2>1. WorkShown(T)[<<v, n>>] = WorkOf(T, v, n)
    BY DEF WorkShown
  <2>2. W[<<v, n>>] = WorkOf(activities, v, n)
    BY DEF WorkShown
  <2>3. CASE <<v, n>> = <<u, m>>
    BY <2>1, <2>3 DEF WorkShown
  <2>4. CASE <<v, n>> # <<u, m>>
    BY <2>1, <2>2, <2>4, WorkElsewhere DEF WorkShown
  <2> QED
    BY <2>3, <2>4
<1>2. /\ WorkShown(T) = [p \in User \X Mission |-> WorkShown(T)[p]]
      /\ V = [p \in User \X Mission |-> V[p]]
  BY DEF WorkShown
<1> QED
  BY <1>1, <1>2

\* A write that creates no day off leaves the same missions as holidays.
LEMMA HolidaysAfterRevision ==
  ASSUME NEW T,
         (\A a \in Activity : (T[a] = Null) <=> (activities[a] = Null)),
         \A a \in Logged(T) : /\ T[a].type = activities[a].type
                              /\ T[a].mission = activities[a].mission
  PROVE  HolidaysShown(T) = HolidaysShown(activities)
BY DEF HolidaysShown, IsHoliday, Logged

LEMMA HolidaysAfterInsert ==
  ASSUME NEW T, NEW a \in Activity, NEW m \in Mission, NEW ty,
         activities[a] = Null, T[a] # Null,
         T[a].mission = m, T[a].type = ty,
         (\A b \in Activity \ {a} : (T[b] = Null) <=> (activities[b] = Null)),
         \A b \in Logged(T) \ {a} : /\ T[b].type = activities[b].type
                                    /\ T[b].mission = activities[b].mission
  PROVE  HolidaysShown(T) = IF ty = Off THEN HolidaysShown(activities) \cup {m}
                                        ELSE HolidaysShown(activities)
<1>1. \A n \in Mission :
        IsHoliday(T, n) <=> IsHoliday(activities, n) \/ (n = m /\ ty = Off)
  BY DEF IsHoliday, Logged
<1> QED
  BY <1>1 DEF HolidaysShown

\* A write takes the mission end back exactly when it leaves the user running
\* there: a write that closes its activity while another one runs finds the
\* mission not ended.
LEMMA EndAfterWrite ==
  ASSUME TimelineInv, NEW T \in Table, NEW u \in User, NEW m \in Mission,
         NEW e, LiveIn(T, u, m) # {},
         (e = Null => \E b \in LiveIn(T, u, m) : Running(T, b)),
         (e # Null => \A b \in LiveIn(T, u, m) : Running(T, b) =>
                        /\ b \in LiveIn(activities, u, m)
                        /\ Running(activities, b))
  PROVE  Reopened(u, m, e) =
           IF WorkOf(T, u, m) = "running" THEN ends \ {<<u, m>>} ELSE ends
<1>1. (WorkOf(T, u, m) = "running") <=> \E b \in LiveIn(T, u, m) : Running(T, b)
  BY WorkOfLive
<1>2. CASE e = Null
  BY <1>1, <1>2 DEF Reopened
<1>3. CASE e # Null /\ WorkOf(T, u, m) = "running"
  <2>1. <<u, m>> \notin ends
    BY <1>1, <1>3 DEF TimelineInv, EndedMissionIsStopped
  <2> QED
    BY <1>3, <2>1 DEF Reopened
<1>4. CASE e # Null /\ WorkOf(T, u, m) # "running"
  BY <1>4 DEF Reopened
<1> QED
  BY <1>2, <1>3, <1>4

-----------------------------------------------------------------------------
(* One lemma per action: the step it takes on the abstract state.          *)

LEMMA LogIsLog ==
  ASSUME TimelineInv, NEW a \in Activity, NEW u \in User,
         NEW m \in Mission, NEW ty \in Type, NEW s \in Instant,
         NEW e \in Instant \cup {Null}, NEW switch \in BOOLEAN,
         LogActivity(a, u, m, ty, s, e, switch)
  PROVE  Work!WorkNext
<1> DEFINE T == Insert(activities, a, u, m, ty, s, e)
           r == WorkOf(T, u, m)
<1>0. TypeOK /\ s \in Int /\ e \in Int \cup {Null} /\ activities[a] = Null
  BY TimeAssumption DEF TimelineInv, LogActivity, CanLog
<1>1. /\ T \in Table /\ OnlyWrites(T, u, m) /\ T[a].end = ToMinute(e)
      /\ \A b \in Activity : b # a => T[b] = activities[b]
  BY <1>0, InsertWrites
<1>2. /\ activities' = T /\ ends' = Reopened(u, m, e)
      /\ ~IsHoliday(activities, m) /\ (ty = Off => IsEmpty(activities, m))
  BY DEF LogActivity, CanLog, MayLog, CheckedWrite, Commit
<1>3. /\ T[a] # Null /\ T[a].user = u /\ T[a].mission = m
      /\ T[a].type = ty /\ T[a].dismissedAt = Null
  <2>1. T[a] = NewRow(u, m, ty, s, e) /\ now \in Int
    BY <1>0, TimeAssumption DEF Insert, TypeOK
  <2>2. NewRow(u, m, ty, s, e) \in Row
    BY <1>0, <2>1, NewRowType
  <2> QED
    BY <2>1, <2>2, NoRowAssumption DEF NewRow
<1> HIDE DEF T
<1>4. a \in LiveIn(T, u, m)
  BY <1>3 DEF LiveIn, LiveOf, Live, Logged
<1>5. \A b \in Activity : b # a =>
        (b \in LiveIn(T, u, m) <=> b \in LiveIn(activities, u, m))
  BY <1>1 DEF LiveIn, LiveOf, Live, Logged
<1>6. \A b \in LiveIn(T, u, m) : b \in Activity
  BY DEF LiveIn, LiveOf, Live, Logged
<1>7. a \notin LiveIn(activities, u, m)
  BY <1>0 DEF LiveIn, LiveOf, Live, Logged
<1>8. r = IF \E b \in LiveIn(T, u, m) : Running(T, b) THEN "running"
                                                     ELSE "stopped"
  BY <1>1, <1>4, WorkOfLive
<1>9. WorkOf(activities, u, m) = "running" => r = "running"
  <2> SUFFICES ASSUME WorkOf(activities, u, m) = "running"
               PROVE  r = "running"
    OBVIOUS
  <2>1. PICK b \in LiveIn(activities, u, m) : Running(activities, b)
    BY LiveOfWork
  <2>2. b \in Activity /\ b # a
    BY <1>7 DEF LiveIn, LiveOf, Live, Logged
  <2>3. b \in LiveIn(T, u, m) /\ Running(T, b)
    BY <1>1, <1>5, <2>1, <2>2 DEF Running
  <2> QED
    BY <1>8, <2>3
<1>10. ends' = IF r = "running" THEN ends \ {<<u, m>>} ELSE ends
  <2>1. e = Null => Running(T, a)
    BY <1>1, ToMinuteType DEF Running
  <2>2. e # Null => ~Running(T, a)
    BY <1>0, <1>1, ToMinuteType, NullAssumption DEF Running
  <2>3. \A b \in LiveIn(T, u, m) : e # Null /\ Running(T, b) =>
          b \in LiveIn(activities, u, m) /\ Running(activities, b)
    BY <1>1, <1>5, <1>6, <2>2 DEF Running
  <2> QED
    BY <1>1, <1>2, <1>4, <2>1, <2>3, EndAfterWrite
<1>11. WorkShown(T) = [WorkShown(activities) EXCEPT ![<<u, m>>] = r]
  BY <1>0, <1>1, WorkAfterWrite
<1>12. HolidaysShown(T) = IF ty = Off THEN HolidaysShown(activities) \cup {m}
                                      ELSE HolidaysShown(activities)
  BY <1>0, <1>1, <1>3, HolidaysAfterInsert DEF Logged
<1>13. \A v \in User : /\ WorkShown(activities)[<<v, m>>] = WorkOf(activities, v, m)
                       /\ ty = Off => WorkOf(activities, v, m) = "none"
  BY <1>2 DEF WorkShown, WorkOf, IsEmpty
<1>14. m \notin HolidaysShown(activities)
  BY <1>2 DEF HolidaysShown
<1> HIDE DEF r
<1>15. Work!Log(u, m, r, ty = Off)
  BY <1>2, <1>8, <1>9, <1>10, <1>11, <1>12, <1>13, <1>14
     DEF Work!Log, Work!Becomes, Work!Empty
<1>16. r \in Work!WorkState /\ (ty = Off) \in BOOLEAN
  BY <1>8 DEF Work!WorkState
<1> QED
  BY <1>15, <1>16 DEF Work!WorkNext

LEMMA SwitchIsLog ==
  ASSUME TimelineInv, NEW a \in Activity, NEW c \in Live(activities),
         NEW ty \in Type, NEW s \in Instant, SwitchActivity(a, c, ty, s)
  PROVE  Work!WorkNext
<1> DEFINE u == activities[c].user
           m == activities[c].mission
           closed == Revise(activities, c, activities[c].start, s)
           T == Insert(closed, a, u, m, ty, s, Null)
<1>0. TypeOK /\ activities \in Table /\ now \in Int /\ s \in Int
      /\ activities[a] = Null
  BY TimeAssumption DEF TimelineInv, SwitchActivity, CanSwitch, TypeOK, Table
<1>1. c \in Activity /\ activities[c] \in Row /\ activities[c].start \in Int
      /\ u \in User /\ m \in Mission /\ c # a /\ activities[c] # Null
  BY <1>0, LiveRow, NoRowAssumption DEF Row
<1>2. /\ closed \in Table /\ OnlyWrites(closed, u, m)
      /\ \A b \in Activity : b # c => closed[b] = activities[b]
      /\ c \in Live(closed)
  BY <1>0, <1>1, ReviseWrites
<1>3. closed[c].type = activities[c].type /\ closed[c].mission = m
  BY <1>0, <1>1 DEF Revise, Revised, Row, Table
<1>4. NewRow(u, m, ty, s, Null) \in Row
  BY <1>0, <1>1, NewRowType
<1> HIDE DEF closed
<1>5. /\ T[a] = NewRow(u, m, ty, s, Null)
      /\ \A b \in Activity : b # a => T[b] = closed[b]
  BY <1>2 DEF Insert, Table
<1>6. /\ T[a] # Null /\ T[a].user = u /\ T[a].mission = m
      /\ T[a].type = ty /\ T[a].dismissedAt = Null /\ T[a].end = Null
  BY <1>4, <1>5, NoRowAssumption, ToMinuteType DEF NewRow
<1>7. T \in Table /\ OnlyWrites(T, u, m)
  BY <1>0, <1>2, <1>4, <1>6 DEF Insert, Table, OnlyWrites
<1>8. /\ activities' = T /\ ends' = ends \ {<<u, m>>}
      /\ ~IsHoliday(activities, m) /\ (ty = Off => IsEmpty(activities, m))
  BY DEF SwitchActivity, CanSwitch, MayLog, CheckedWrite, Commit, Switch,
         Reopened, closed
<1>9. ty # Off
  BY <1>1, <1>8 DEF IsEmpty, Logged
<1>10. /\ \A b \in Activity \ {a} : (T[b] = Null) <=> (activities[b] = Null)
       /\ \A b \in Logged(T) \ {a} : /\ T[b].type = activities[b].type
                                     /\ T[b].mission = activities[b].mission
  BY <1>1, <1>2, <1>3, <1>5 DEF Logged, Live
<1> HIDE DEF T
<1>11. HolidaysShown(T) = HolidaysShown(activities)
  BY <1>0, <1>1, <1>6, <1>9, <1>10, HolidaysAfterInsert
<1>12. a \in LiveIn(T, u, m) /\ Running(T, a)
  BY <1>6 DEF LiveIn, LiveOf, Live, Logged, Running
<1>13. WorkOf(T, u, m) = "running"
  BY <1>7, <1>12, WorkOfLive
<1>14. WorkShown(T) = [WorkShown(activities) EXCEPT ![<<u, m>>] = "running"]
  BY <1>0, <1>1, <1>7, <1>13, WorkAfterWrite
<1>15. m \notin HolidaysShown(activities)
  BY <1>8 DEF HolidaysShown
<1> HIDE DEF u, m
<1>16. Work!Log(u, m, "running", FALSE)
  BY <1>8, <1>11, <1>14, <1>15 DEF Work!Log, Work!Becomes
<1> QED
  BY <1>1, <1>16 DEF Work!WorkNext, Work!WorkState

LEMMA EditIsEdit ==
  ASSUME TimelineInv, NEW a \in Live(activities),
         NEW s \in Instant \cup {activities[a].start},
         NEW e \in Instant \cup {Null, activities[a].end},
         EditActivity(a, s, e)
  PROVE  Work!WorkNext
<1> DEFINE u == activities[a].user
           m == activities[a].mission
           T == Revise(activities, a, s, e)
           r == WorkOf(T, u, m)
<1>0. TypeOK /\ activities \in Table /\ now \in Int
  BY TimeAssumption DEF TimelineInv, TypeOK, Table
<1>1. /\ activities[a] \in Row /\ s \in Int /\ e \in Int \cup {Null}
      /\ a \in Activity /\ u \in User /\ m \in Mission
  BY <1>0, LiveRow, TimeAssumption DEF Row
<1>2. /\ T \in Table /\ OnlyWrites(T, u, m) /\ T[a].end = ToMinute(e)
      /\ Live(T) = Live(activities)
      /\ \A b \in Activity : b # a => T[b] = activities[b]
  BY <1>0, <1>1, ReviseWrites
<1>3. /\ T[a].type = activities[a].type /\ T[a].mission = m
      /\ T[a].user = u /\ T[a] # Null
  <2>1. T[a] = Revised(activities[a], s, e)
    BY <1>0, <1>1 DEF Revise, Table
  <2>2. Revised(activities[a], s, e) \in Row
    BY <1>0, <1>1, RevisedType
  <2> QED
    BY <1>1, <2>1, <2>2, NoRowAssumption DEF Revised, Row
<1>4. activities' = T /\ ends' = Reopened(u, m, e)
  BY DEF EditActivity, CheckedWrite, Commit
<1> HIDE DEF T
<1>5. LiveIn(T, u, m) = LiveIn(activities, u, m) /\ a \in LiveIn(T, u, m)
  BY <1>2, <1>3 DEF LiveIn, LiveOf, Live, Logged
<1>6. \A b \in LiveIn(T, u, m) : b \in Activity
  BY DEF LiveIn, LiveOf, Live, Logged
<1>7. ends' = IF r = "running" THEN ends \ {<<u, m>>} ELSE ends
  <2>1. e = Null => Running(T, a)
    BY <1>2, ToMinuteType DEF Running
  <2>2. e # Null => ~Running(T, a)
    BY <1>1, <1>2, ToMinuteType, NullAssumption DEF Running
  <2>3. \A b \in LiveIn(T, u, m) : e # Null /\ Running(T, b) =>
          b \in LiveIn(activities, u, m) /\ Running(activities, b)
    BY <1>2, <1>5, <1>6, <2>2 DEF Running
  <2> QED
    BY <1>1, <1>2, <1>4, <1>5, <2>1, <2>3, EndAfterWrite
<1>8. WorkShown(T) = [WorkShown(activities) EXCEPT ![<<u, m>>] = r]
  BY <1>0, <1>1, <1>2, WorkAfterWrite
<1>9. HolidaysShown(T) = HolidaysShown(activities)
  <2>1. activities[a] # Null
    BY <1>1, NoRowAssumption
  <2>2. \A b \in Activity : (T[b] = Null) <=> (activities[b] = Null)
    BY <1>2, <1>3, <2>1
  <2>3. \A b \in Logged(T) : /\ T[b].type = activities[b].type
                              /\ T[b].mission = activities[b].mission
    BY <1>2, <1>3 DEF Logged
  <2> QED
    BY <2>2, <2>3, HolidaysAfterRevision
<1>10. r \in {"stopped", "running"}
       /\ WorkOf(activities, u, m) \in {"stopped", "running"}
  BY <1>0, <1>2, <1>5, WorkOfLive
<1>11. WorkShown(activities)[<<u, m>>] = WorkOf(activities, u, m)
  BY <1>1 DEF WorkShown
<1> HIDE DEF u, m, r
<1>12. Work!Edit(u, m, r)
  BY <1>4, <1>7, <1>8, <1>9, <1>10, <1>11
     DEF Work!Edit, Work!Working, Work!Becomes
<1> QED
  BY <1>1, <1>10, <1>12 DEF Work!WorkNext, Work!WorkState

\* Cancelling leaves work in one of three states, whatever is cancelled.
LEMMA CancelIsCancel ==
  ASSUME TimelineInv, NEW u \in User, NEW m \in Mission,
         NEW S, S \subseteq LiveIn(activities, u, m), S # {},
         activities' = Dismiss(activities, S), UNCHANGED ends
  PROVE  Work!WorkNext
<1> DEFINE T == Dismiss(activities, S)
           r == WorkOf(T, u, m)
<1>0. TypeOK /\ activities \in Table /\ now \in Int
  BY TimeAssumption DEF TimelineInv, TypeOK, Table
<1>1. \A b \in S : /\ b \in Activity /\ b \in LiveIn(activities, u, m)
                   /\ activities[b] \in Row /\ activities[b] # Null
                   /\ activities[b].user = u /\ activities[b].mission = m
  BY <1>0, LiveRow, NoRowAssumption DEF LiveIn, LiveOf
<1>2. \A b \in Activity \ S : T[b] = activities[b]
  BY DEF Dismiss
<1>3. \A b \in S : /\ T[b] \in Row /\ T[b] # Null
                   /\ T[b].user = u /\ T[b].mission = m
                   /\ T[b].type = activities[b].type
                   /\ T[b].dismissedAt # Null
  <2> SUFFICES ASSUME NEW b \in S
               PROVE  /\ T[b] \in Row /\ T[b] # Null
                      /\ T[b].user = u /\ T[b].mission = m
                      /\ T[b].type = activities[b].type
                      /\ T[b].dismissedAt # Null
    OBVIOUS
  <2>1. T[b] = Dismissed(activities[b])
    BY <1>1 DEF Dismiss
  <2>2. Dismissed(activities[b]) \in Row
        /\ Dismissed(activities[b]).dismissedAt # Null
    BY <1>0, <1>1, DismissedType
  <2> QED
    BY <1>1, <2>1, <2>2, NoRowAssumption DEF Dismissed, Row
<1>4. T \in Table
  BY <1>0, <1>1, <1>2, <1>3 DEF Dismiss, Table
<1>5. OnlyWrites(T, u, m)
  BY <1>1, <1>2, <1>3 DEF OnlyWrites
<1> HIDE DEF T
<1>6. WorkShown(T) = [WorkShown(activities) EXCEPT ![<<u, m>>] = r]
  BY <1>0, <1>4, <1>5, WorkAfterWrite
<1>7. HolidaysShown(T) = HolidaysShown(activities)
  <2>1. \A b \in Activity : (T[b] = Null) <=> (activities[b] = Null)
    BY <1>1, <1>2, <1>3
  <2>2. \A b \in Logged(T) : /\ T[b].type = activities[b].type
                              /\ T[b].mission = activities[b].mission
    BY <1>1, <1>2, <1>3 DEF Logged
  <2> QED
    BY <2>1, <2>2, HolidaysAfterRevision
<1>8. PICK c \in LiveIn(activities, u, m) : c \in S
  BY <1>1
<1>9. WorkOf(activities, u, m) \in {"stopped", "running"}
  BY <1>0, <1>8, WorkOfLive
<1>10. r # "none"
  <2>1. c \in Logged(T) /\ T[c].user = u /\ T[c].mission = m
    BY <1>1, <1>3, <1>8 DEF Logged
  <2> QED
    BY <2>1 DEF WorkOf
<1>11. r = "running" => WorkOf(activities, u, m) = "running"
  <2> SUFFICES ASSUME r = "running"
               PROVE  WorkOf(activities, u, m) = "running"
    OBVIOUS
  <2>1. PICK b \in LiveIn(T, u, m) : Running(T, b)
    BY LiveOfWork
  <2>2. b \in Activity \ S
    BY <1>3 DEF LiveIn, LiveOf, Live, Logged
  <2>3. b \in LiveIn(activities, u, m) /\ Running(activities, b)
    BY <1>2, <2>1, <2>2 DEF LiveIn, LiveOf, Live, Logged, Running
  <2> QED
    BY <1>0, <2>3, WorkOfLive
<1>12. r \in {"none", "cancelled", "stopped", "running"}
  BY WorkOfIsWorkState
<1>13. WorkShown(activities)[<<u, m>>] = WorkOf(activities, u, m)
  BY DEF WorkShown
<1>14. activities' = T
  BY DEF T
<1> HIDE DEF r
<1>15. Work!Cancel(u, m, r)
  BY <1>6, <1>7, <1>9, <1>10, <1>11, <1>12, <1>13, <1>14
     DEF Work!Cancel, Work!Working
<1> QED
  BY <1>12, <1>15 DEF Work!WorkNext, Work!WorkState

\* The mission ends and no activity of the user runs any more.
LEMMA StopIsEnd ==
  ASSUME TimelineInv, NEW T \in Table, NEW u \in User, NEW m \in Mission,
         OnlyWrites(T, u, m), <<u, m>> \notin ends,
         activities' = T, ends' = ends \cup {<<u, m>>},
         WorkOf(T, u, m) = IF WorkOf(activities, u, m) = "running"
                             THEN "stopped" ELSE WorkOf(activities, u, m),
         HolidaysShown(T) = HolidaysShown(activities)
  PROVE  Work!WorkNext
<1>1. WorkShown(T) =
        [WorkShown(activities) EXCEPT ![<<u, m>>] = WorkOf(T, u, m)]
  BY WorkAfterWrite DEF TimelineInv
<1>2. WorkShown(activities)[<<u, m>>] = WorkOf(activities, u, m)
  BY DEF WorkShown
<1>3. Work!End(u, m)
  BY <1>1, <1>2 DEF Work!End
<1> QED
  BY <1>3 DEF Work!WorkNext

\* A mission where the last activity does not run is ended as it is.
LEMMA StoppedIsEnd ==
  ASSUME TimelineInv, NEW u \in User, NEW m \in Mission, <<u, m>> \notin ends,
         (\A b \in LiveIn(activities, u, m) : ~Running(activities, b)),
         UNCHANGED activities, ends' = ends \cup {<<u, m>>}
  PROVE  Work!WorkNext
<1>1. activities \in Table /\ OnlyWrites(activities, u, m)
  BY DEF TimelineInv, TypeOK, Table, OnlyWrites
<1>2. WorkOf(activities, u, m) # "running"
  BY DEF WorkOf
<1> QED
  BY <1>1, <1>2, StopIsEnd

LEMMA EndIsEnd ==
  ASSUME TimelineInv, NEW u \in User, NEW m \in Mission, NEW t \in Instant,
         EndMission(u, m, t)
  PROVE  Work!WorkNext
<1> DEFINE mine == LiveIn(activities, u, m)
           last == Last(activities, mine)
           T == Revise(activities, last, activities[last].start, t)
<1>0. TypeOK /\ activities \in Table /\ t \in Int /\ now \in Int
      /\ ends' = ends \cup {<<u, m>>} /\ <<u, m>> \notin ends
  BY TimeAssumption DEF TimelineInv, TypeOK, Table, EndMission, CanEnd
<1>1. mine \subseteq Live(activities)
  BY DEF LiveIn, LiveOf
<1>2. CASE UNCHANGED activities
           /\ (mine # {} => ~Running(activities, last))
  <2>1. \A b \in mine : ~Running(activities, b)
    BY <1>2, OnlyLastRuns
  <2> QED
    BY <1>0, <1>2, <2>1, StoppedIsEnd
<1>3. CASE mine # {} /\ Running(activities, last) /\ CheckedWrite(T, u, m)
  <2>1. last \in mine /\ last \in Live(activities)
    BY <1>0, <1>1, <1>3, LastIsLast
  <2>2. /\ last \in Activity /\ activities[last] \in Row
        /\ activities[last].start \in Int /\ activities[last] # Null
        /\ activities[last].user = u /\ activities[last].mission = m
    BY <1>0, <2>1, LiveRow, NoRowAssumption DEF Row, LiveIn, LiveOf
  <2>3. \A b \in mine : b # last => ~Running(activities, b)
    BY <1>3, OnlyLastRuns
  <2> HIDE DEF last
  <2>4. /\ T \in Table /\ OnlyWrites(T, u, m) /\ T[last].end = ToMinute(t)
        /\ Live(T) = Live(activities)
        /\ \A b \in Activity : b # last => T[b] = activities[b]
    BY <1>0, <2>1, <2>2, ReviseWrites
  <2>5. /\ T[last].type = activities[last].type /\ T[last] # Null
        /\ T[last].mission = m /\ T[last].user = u
    <3>1. T[last] = Revised(activities[last], activities[last].start, t)
      BY <1>0, <2>2 DEF Revise, Table
    <3>2. Revised(activities[last], activities[last].start, t) \in Row
      BY <1>0, <2>2, RevisedType
    <3> QED
      BY <2>2, <3>1, <3>2, NoRowAssumption DEF Revised, Row
  <2>6. activities' = T
    BY <1>3 DEF CheckedWrite, Commit
  <2> HIDE DEF T
  <2>7. LiveIn(T, u, m) = mine
    BY <2>2, <2>4, <2>5 DEF LiveIn, LiveOf, Live, Logged
  <2>8. \A b \in mine : b \in Activity
    BY DEF LiveIn, LiveOf, Live, Logged
  <2>9. ~Running(T, last)
    BY <1>0, <2>4, ToMinuteType, NullAssumption DEF Running
  <2>10. \A b \in LiveIn(T, u, m) : ~Running(T, b)
    BY <2>3, <2>4, <2>7, <2>8, <2>9 DEF Running
  <2>11. WorkOf(T, u, m) = "stopped"
    BY <2>1, <2>4, <2>7, <2>10, WorkOfLive
  <2>12. WorkOf(activities, u, m) = "running"
    BY <1>0, <1>3, <2>1, WorkOfLive DEF last
  <2>13. HolidaysShown(T) = HolidaysShown(activities)
    <3>1. \A b \in Activity : (T[b] = Null) <=> (activities[b] = Null)
      BY <2>2, <2>4, <2>5
    <3>2. \A b \in Logged(T) : /\ T[b].type = activities[b].type
                                /\ T[b].mission = activities[b].mission
      BY <2>2, <2>4, <2>5 DEF Logged
    <3> QED
      BY <3>1, <3>2, HolidaysAfterRevision
  <2> QED
    BY <1>0, <2>4, <2>6, <2>11, <2>12, <2>13, StopIsEnd
<1> QED
  BY <1>2, <1>3 DEF EndMission

LEMMA HolidayIsDayOff ==
  ASSUME TimelineInv, NEW a \in Activity, NEW u \in User,
         NEW m \in Mission, NEW s \in Instant, NEW e \in Instant,
         LogHoliday(a, u, m, s, e)
  PROVE  Work!WorkNext
<1> DEFINE T == Insert(activities, a, u, m, Off, s, e)
<1>0. TypeOK /\ s \in Int /\ e \in Int /\ activities[a] = Null /\ Off \in Type
  BY TimeAssumption DEF TimelineInv, LogHoliday, Type
<1>1. /\ T \in Table /\ OnlyWrites(T, u, m) /\ T[a].end = ToMinute(e)
      /\ \A b \in Activity : b # a => T[b] = activities[b]
  BY <1>0, InsertWrites
<1>2. /\ activities' = T /\ ends' = ends \cup {<<u, m>>}
      /\ IsEmpty(activities, m) /\ \A v \in User : <<v, m>> \notin ends
  BY DEF LogHoliday, CheckedWrite, Commit
<1>3. /\ T[a] # Null /\ T[a].user = u /\ T[a].mission = m
      /\ T[a].type = Off /\ T[a].dismissedAt = Null
  <2>1. T[a] = NewRow(u, m, Off, s, e) /\ now \in Int
    BY <1>0, TimeAssumption DEF Insert, TypeOK
  <2>2. NewRow(u, m, Off, s, e) \in Row
    BY <1>0, <2>1, NewRowType
  <2> QED
    BY <2>1, <2>2, NoRowAssumption DEF NewRow
<1> HIDE DEF T
<1>4. a \in LiveIn(T, u, m)
  BY <1>3 DEF LiveIn, LiveOf, Live, Logged
<1>5. \A b \in LiveIn(T, u, m) : b = a
  BY <1>1, <1>2 DEF LiveIn, LiveOf, Live, Logged, IsEmpty
<1>6. ~Running(T, a)
  BY <1>0, <1>1, ToMinuteType, NullAssumption DEF Running
<1>7. WorkOf(T, u, m) = "stopped"
  BY <1>1, <1>4, <1>5, <1>6, WorkOfLive
<1>8. WorkShown(T) = [WorkShown(activities) EXCEPT ![<<u, m>>] = "stopped"]
  BY <1>0, <1>1, <1>7, WorkAfterWrite
<1>9. HolidaysShown(T) = HolidaysShown(activities) \cup {m}
  BY <1>0, <1>1, <1>3, HolidaysAfterInsert DEF Logged
<1>10. \A v \in User : WorkShown(activities)[<<v, m>>] = "none"
  BY <1>2 DEF WorkShown, WorkOf, IsEmpty
<1>11. Work!TakeDayOff(u, m)
  BY <1>2, <1>8, <1>9, <1>10 DEF Work!TakeDayOff, Work!Empty
<1> QED
  BY <1>11 DEF Work!WorkNext

-----------------------------------------------------------------------------
LEMMA RefinesInitially == Init => Work!WorkInit
<1> SUFFICES ASSUME Init
             PROVE  Work!WorkInit
  OBVIOUS
<1>1. Logged(activities) = {} /\ ends = {}
  BY DEF Init, Logged
<1>2. \A u \in User, m \in Mission : WorkOf(activities, u, m) = "none"
  BY <1>1 DEF WorkOf
<1>3. WorkShown(activities) = [p \in User \X Mission |-> "none"]
  BY <1>2 DEF WorkShown
<1>4. HolidaysShown(activities) = {}
  BY <1>1 DEF HolidaysShown, IsHoliday
<1> QED
  BY <1>1, <1>3, <1>4 DEF Work!WorkInit

LEMMA StepRefines == TimelineInv /\ [Next]_vars => [Work!WorkNext]_Work!workVars
<1> SUFFICES ASSUME TimelineInv, [Next]_vars
             PROVE  [Work!WorkNext]_Work!workVars
  OBVIOUS
<1>1. CASE UNCHANGED vars \/ Tick
  <2>1. UNCHANGED <<activities, ends>>
    BY <1>1 DEF vars, Tick
  <2> QED
    BY <2>1 DEF Work!workVars, WorkShown, HolidaysShown
<1>2. CASE Next /\ ~Tick
  <2>1. ASSUME NEW a \in Activity, NEW u \in User, NEW m \in Mission,
               NEW ty \in Type, NEW s \in Instant,
               NEW e \in Instant \cup {Null}, NEW switch \in BOOLEAN,
               LogActivity(a, u, m, ty, s, e, switch)
        PROVE  Work!WorkNext
    BY <2>1, LogIsLog
  <2>2. ASSUME NEW a \in Activity, NEW c \in Live(activities),
               NEW ty \in Type, NEW s \in Instant,
               SwitchActivity(a, c, ty, s)
        PROVE  Work!WorkNext
    BY <2>2, SwitchIsLog
  <2>3. ASSUME NEW a \in Live(activities), CancelActivity(a)
        PROVE  Work!WorkNext
    <3>1. activities[a].user \in User /\ activities[a].mission \in Mission
      BY LiveRow DEF TimelineInv, TypeOK, Table, Row
    <3>2. {a} \subseteq LiveIn(activities, activities[a].user,
                                           activities[a].mission)
      BY DEF LiveIn, LiveOf
    <3>3. activities' = Dismiss(activities, {a}) /\ UNCHANGED ends
      BY <2>3 DEF CancelActivity, Commit
    <3> QED
      BY <3>1, <3>2, <3>3, CancelIsCancel
  <2>4. ASSUME NEW a \in Live(activities),
               NEW s \in Instant \cup {activities[a].start},
               NEW e \in Instant \cup {Null, activities[a].end},
               EditActivity(a, s, e)
        PROVE  Work!WorkNext
    BY <2>4, EditIsEdit
  <2>5. ASSUME NEW u \in User, NEW m \in Mission, CancelMission(u, m)
        PROVE  Work!WorkNext
    BY <2>5, CancelIsCancel DEF CancelMission, Commit
  <2>6. ASSUME NEW u \in User, NEW m \in Mission, CloseMission(u, m)
        PROVE  Work!WorkNext
    BY <2>6, StoppedIsEnd DEF CloseMission
  <2>7. ASSUME NEW u \in User, NEW m \in Mission, NEW t \in Instant,
               EndMission(u, m, t)
        PROVE  Work!WorkNext
    BY <2>7, EndIsEnd
  <2>8. ASSUME NEW u \in User, NEW m \in Mission, NEW a \in Activity,
               NEW s \in Instant, NEW e \in Instant,
               LogHoliday(a, u, m, s, e)
        PROVE  Work!WorkNext
    BY <2>8, HolidayIsDayOff
  <2> QED
    BY <1>2, <2>1, <2>2, <2>3, <2>4, <2>5, <2>6, <2>7, <2>8 DEF Next
<1> QED
  BY <1>1, <1>2

\* The timeline implements what the validation of missions is built on
\* (ImplementsMissionWork): every write of a time is, for the code that looks
\* only at whether a user works on a mission, one of the steps of MissionWork.
THEOREM TimelineImplementsMissionWork == Spec => ImplementsMissionWork
<1>1. Init => Work!WorkInit
  BY RefinesInitially
<1>2. TimelineInv /\ [Next]_vars => [Work!WorkNext]_Work!workVars
  BY StepRefines
<1> QED
  BY <1>1, <1>2, Invariance, PTL DEF Spec, ImplementsMissionWork, Work!WorkSpec
=============================================================================
