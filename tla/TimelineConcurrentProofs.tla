----------------------- MODULE TimelineConcurrentProofs -----------------------
(***************************************************************************)
(* Proofs about the requests of Timeline served at once, for every number  *)
(* of workers and every set of rows.                                       *)
(***************************************************************************)
EXTENDS TimelineConcurrent, TimelineProofs

-----------------------------------------------------------------------------
(* Transactions.                                                           *)

Transaction ==
  [user : User, mission : Mission, seen : Table, plan : Table,
   checked : BOOLEAN, reopens : BOOLEAN, closes : BOOLEAN,
   drops : BOOLEAN, flushed : BOOLEAN]

\* The versions of row n are those of row r, and maybe some after them.
Extends(n, r) ==
  /\ Len(r.versions) <= Len(n.versions)
  /\ \A i \in 1..Len(r.versions) : n.versions[i] = r.versions[i]

\* What a session makes of a row: nothing, a new row, one version more, or a
\* row with the versions and the times it had.
Planned(seen, plan) ==
  \/ plan = seen
  \/ seen = Null /\ plan \in Row /\ Told(plan)
  \/ /\ seen \in Row /\ plan \in Row
     /\ Told(plan) /\ Extends(plan, seen)
     /\ Len(plan.versions) = Len(seen.versions) + 1
  \/ /\ seen \in Row /\ plan \in Row
     /\ plan.versions = seen.versions
     /\ plan.start = seen.start /\ plan.end = seen.end

\* The row a session read is still there, with what was added since.
Continues(old, seen) ==
  seen # Null => /\ seen \in Row /\ old \in Row
                 /\ Told(seen) /\ Extends(old, seen)

\* The row a session inserts has an id of its own.
IdIsOwn(w, a) ==
  tx[w].seen[a] = Null /\ tx[w].plan[a] # Null =>
    /\ activities[a] = Null
    /\ \A v \in Worker \ {w} : Open(v) => tx[v].plan[a] = Null

\* What was flushed holds its rows until the transaction ends.
HoldsItsRows(w) ==
  /\ VersionNumbersAreFree(tx[w])
  /\ \A v \in Worker \ {w} : Open(v) /\ tx[v].flushed =>
       Written(tx[v]) \cap Written(tx[w]) = {}

SessionIsSound(w) ==
  /\ \A a \in Activity : /\ Planned(tx[w].seen[a], tx[w].plan[a])
                         /\ Continues(activities[a], tx[w].seen[a])
                         /\ IdIsOwn(w, a)
  /\ tx[w].flushed => HoldsItsRows(w)

ConcurrentTypeOK == TypeOK /\ tx \in [Worker -> Transaction \cup {Null}]

RowsAreTold == \A a \in Logged(activities) : Told(activities[a])

RaceInv ==
  /\ ConcurrentTypeOK
  /\ RowsAreTold
  /\ \A w \in Worker : Open(w) => SessionIsSound(w)

-----------------------------------------------------------------------------
(* Rows.                                                                   *)

LEMMA ExtendsTransitive ==
  ASSUME NEW n, NEW o, NEW r, Len(r.versions) \in Nat, Len(o.versions) \in Nat,
         Len(n.versions) \in Nat, Extends(n, o), Extends(o, r)
  PROVE  Extends(n, r)
<1>1. Len(r.versions) <= Len(n.versions)
  BY DEF Extends
<1>2. \A i \in 1..Len(r.versions) : i \in 1..Len(o.versions)
  BY DEF Extends
<1> QED
  BY <1>1, <1>2 DEF Extends

LEMMA ExtendsItself ==
  ASSUME NEW r \in Row
  PROVE  Extends(r, r)
BY VersionShape DEF Extends

\* What a write of Timeline makes of a row is what a session plans.
LEMMA RewrittenIsPlanned ==
  ASSUME now \in Int, NEW r \in Row \cup {Null}, NEW n \in Row \cup {Null},
         Rewritten(r, n), r # Null => Told(r)
  PROVE  Planned(r, n) /\ (r # Null => n # Null /\ n.mission = r.mission)
<1> DEFINE v == [start |-> n.start, end |-> n.end, at |-> now]
<1>1. CASE n = r
  BY <1>1 DEF Planned
<1>2. CASE r = Null /\ n \in Row /\ n.versions = <<v>>
  <2>1. Len(n.versions) = 1 /\ n.versions[1] = v /\ n.versions # <<>>
    BY <1>2
  <2> QED
    BY <1>2, <2>1 DEF Told, Planned
<1>3. CASE r \in Row /\ n \in Row /\ n.mission = r.mission /\ n.versions = Append(r.versions, v)
  <2>1. v \in Version
    BY <1>3 DEF Row, Version
  <2>2. /\ n.versions # <<>> /\ Len(n.versions) = Len(r.versions) + 1
        /\ \A i \in DOMAIN r.versions : n.versions[i] = r.versions[i]
        /\ n.versions[Len(n.versions)] = v
    BY <1>3, <2>1, OneMore
  <2>3. Len(r.versions) \in Nat /\ DOMAIN r.versions = 1..Len(r.versions)
    BY <1>3, VersionShape
  <2>4. Extends(n, r)
    BY <2>2, <2>3 DEF Extends
  <2>5. Told(n)
    BY <2>2 DEF Told
  <2> QED
    BY <1>3, <2>2, <2>4, <2>5, NoRowAssumption DEF Planned
<1>4. CASE /\ r \in Row /\ n \in Row /\ n.mission = r.mission
           /\ n.versions = r.versions /\ n.start = r.start /\ n.end = r.end
  BY <1>4, NoRowAssumption DEF Planned
<1> QED
  BY <1>1, <1>2, <1>3, <1>4 DEF Rewritten

\* An UPDATE of a row whose new version has the next number leaves a row
\* that is what its last version says, with the versions it had.
LEMMA MergedIsTold ==
  ASSUME NEW old \in Row, NEW seen \in Row, NEW plan \in Row,
         Planned(seen, plan), Continues(old, seen), Told(old),
         plan.versions # seen.versions =>
           Len(old.versions) = Len(seen.versions)
  PROVE  LET n == MergedRow(old, seen, plan)
         IN n \in Row /\ Told(n) /\ Extends(n, old)
<1> DEFINE n == MergedRow(old, seen, plan)
           k == Len(seen.versions)
           added == SubSeq(plan.versions, k + 1, Len(plan.versions))
<1>0. seen # Null
  BY NoRowAssumption
<1>1. /\ old.versions \in Seq(Version) /\ seen.versions \in Seq(Version)
      /\ plan.versions \in Seq(Version)
      /\ k \in Nat /\ Len(plan.versions) \in Nat /\ Len(old.versions) \in Nat
  BY VersionShape
<1>2. /\ Told(seen) /\ Extends(old, seen)
  BY <1>0 DEF Continues
<1>3. added \in Seq(Version)
  <2>1. \A i \in (k + 1)..Len(plan.versions) : plan.versions[i] \in Version
    BY <1>1, ElementOfSeq
  <2> QED
    BY <1>1, <2>1, SubSeqProperties
<1>4. /\ n.start = Changed(old.start, seen.start, plan.start)
      /\ n.end = Changed(old.end, seen.end, plan.end)
      /\ n.versions = old.versions \o added
  BY <1>0 DEF MergedRow, Row
<1>5. n \in Row
  <2>1. old.versions \o added \in Seq(Version)
    BY <1>1, <1>3, ConcatProperties
  <2>2. /\ Changed(old.start, seen.start, plan.start) \in Int
        /\ Changed(old.end, seen.end, plan.end) \in Int \cup {Null}
        /\ Changed(old.dismissedAt, seen.dismissedAt, plan.dismissedAt) \in Int \cup {Null}
    BY DEF Changed, Row
  <2> QED
    BY <1>0, <2>1, <2>2 DEF MergedRow, Row
<1> HIDE DEF n, added
<1>6. Extends(n, old)
  <2>1. /\ Len(n.versions) = Len(old.versions) + Len(added) /\ Len(added) \in Nat
        /\ \A i \in 1..Len(old.versions) : n.versions[i] = old.versions[i]
    BY <1>1, <1>3, <1>4, ConcatProperties, LenProperties
  <2> QED
    BY <1>1, <2>1 DEF Extends
<1>7. CASE plan.versions = seen.versions /\ plan.start = seen.start /\ plan.end = seen.end
  <2>1. added = <<>>
    BY <1>1, <1>7, SubSeqEmpty DEF added
  <2>2. n.versions = old.versions
    BY <1>1, <1>4, <2>1, ConcatEmptySeq
  <2>3. n.start = old.start /\ n.end = old.end
    BY <1>4, <1>7 DEF Changed
  <2> QED
    BY <1>5, <1>6, <2>2, <2>3 DEF Told, n
<1>8. CASE Told(plan) /\ Extends(plan, seen) /\ Len(plan.versions) = k + 1
  <2>1. Len(old.versions) = k
    BY <1>1, <1>8
  <2>2. old.start = seen.start /\ old.end = seen.end
    <3>1. k \in 1..k
      BY <1>1, <1>2, LenProperties DEF Told
    <3> QED
      BY <1>2, <2>1, <3>1 DEF Told, Extends
  <2>3. n.start = plan.start /\ n.end = plan.end
    BY <1>4, <2>2 DEF Changed
  <2>4. Len(added) = 1 /\ added[1] = plan.versions[k + 1]
    <3>1. \A i \in (k + 1)..(k + 1) : plan.versions[i] \in Version
      BY <1>1, <1>8, ElementOfSeq
    <3> QED
      BY <1>1, <1>8, <3>1, SubSeqProperties DEF added
  <2>5. Len(n.versions) = k + 1 /\ n.versions[k + 1] = added[1]
    <3>1. /\ Len(n.versions) = k + 1
          /\ \A i \in 1..(k + 1) :
               n.versions[i] = IF i <= k THEN old.versions[i] ELSE added[i - k]
      <4>1. /\ Len(n.versions) = Len(old.versions) + Len(added)
            /\ \A i \in 1..(Len(old.versions) + Len(added)) :
                 n.versions[i] = IF i <= Len(old.versions) THEN old.versions[i]
                                 ELSE added[i - Len(old.versions)]
        BY <1>1, <1>3, <1>4, ConcatProperties
      <4> QED
        BY <2>1, <2>4, <4>1
    <3>2. k + 1 \in 1..(k + 1) /\ ~(k + 1 <= k) /\ (k + 1) - k = 1
      BY <1>1
    <3>3. n.versions[k + 1] = added[(k + 1) - k]
      BY <3>1, <3>2
    <3> QED
      BY <3>1, <3>2, <3>3
  <2>6. n.versions # <<>>
    BY <1>1, <2>5
  <2>7. n.versions[Len(n.versions)] = plan.versions[Len(plan.versions)]
    BY <1>8, <2>4, <2>5
  <2>8. Told(n)
    BY <1>8, <2>3, <2>6, <2>7 DEF Told
  <2> QED
    BY <1>5, <1>6, <2>8 DEF n
<1>9. CASE plan = seen
  BY <1>7, <1>9
<1> QED
  BY <1>0, <1>7, <1>8, <1>9 DEF Planned

-----------------------------------------------------------------------------
(* Transitions.                                                            *)

LEMMA BeginKeepsInv ==
  ASSUME RaceInv, NEW w \in Worker, NEW u \in User, NEW m \in Mission,
         NEW T \in Table, TableRewritten(T), NEW checked \in BOOLEAN,
         NEW reopens \in BOOLEAN, NEW closes \in BOOLEAN,
         Begin(w, u, m, T, checked, reopens, closes),
         \A a \in Activity : activities[a] = Null /\ T[a] # Null => FreshId(a)
  PROVE  RaceInv'
<1> DEFINE seen == MissionRows(activities, m)
           plan == MissionRows(T, m)
           t == [user |-> u, mission |-> m, seen |-> seen, plan |-> plan,
                 checked |-> checked, reopens |-> reopens,
                 closes |-> closes, drops |-> FALSE, flushed |-> FALSE]
<1>1. /\ TypeOK /\ RowsAreTold /\ tx \in [Worker -> Transaction \cup {Null}]
      /\ activities \in Table /\ now \in Int
  BY TimeAssumption DEF RaceInv, ConcurrentTypeOK, TypeOK, Table
<1>2. /\ tx' = [tx EXCEPT ![w] = t] /\ UNCHANGED <<now, activities, ends>>
      /\ ~Open(w)
  BY DEF Begin
<1>3. seen \in Table /\ plan \in Table
  BY <1>1 DEF MissionRows, Table
<1>4. t \in Transaction
  BY <1>3 DEF Transaction
<1>5. /\ t.seen = seen /\ t.plan = plan /\ t.flushed = FALSE
  OBVIOUS
<1>6. ASSUME NEW a \in Activity
      PROVE  /\ Planned(seen[a], plan[a])
             /\ Continues(activities[a], seen[a])
             /\ activities[a] = Null /\ plan[a] # Null => FreshId(a)
             /\ seen[a] = Null /\ plan[a] # Null => activities[a] = Null
  <2>1. /\ activities[a] \in Row \cup {Null} /\ T[a] \in Row \cup {Null}
        /\ Rewritten(activities[a], T[a])
        /\ activities[a] # Null => Told(activities[a])
    BY <1>1 DEF TableRewritten, RowsAreTold, Logged, Table
  <2>2. /\ Planned(activities[a], T[a])
        /\ activities[a] # Null => T[a] # Null /\ T[a].mission = activities[a].mission
    BY <1>1, <2>1, RewrittenIsPlanned
  <2>3. /\ seen[a] = IF activities[a] # Null /\ activities[a].mission = m
                       THEN activities[a] ELSE Null
        /\ plan[a] = IF T[a] # Null /\ T[a].mission = m THEN T[a] ELSE Null
    BY DEF MissionRows
  <2> HIDE DEF seen, plan, t
  <2>4. seen[a] = Null /\ plan[a] # Null => activities[a] = Null
    BY <2>2, <2>3
  <2>5. activities[a] = Null /\ plan[a] # Null => FreshId(a)
    BY <2>3
  <2>6. Planned(seen[a], plan[a])
    <3>1. CASE seen[a] = activities[a] /\ plan[a] = T[a]
      BY <2>2, <3>1
    <3>2. CASE seen[a] = plan[a]
      BY <3>2 DEF Planned
    <3> QED
      BY <2>2, <2>3, <3>1, <3>2
  <2>7. Continues(activities[a], seen[a])
    <3>1. seen[a] # Null => seen[a] = activities[a]
      BY <2>3
    <3> QED
      BY <2>1, <3>1, ExtendsItself DEF Continues
  <2> QED
    BY <2>4, <2>5, <2>6, <2>7
<1> HIDE DEF seen, plan, t
<1>7. /\ tx'[w] = t /\ \A v \in Worker \ {w} : tx'[v] = tx[v]
      /\ \A v \in Worker \ {w} : Open(v)' <=> Open(v)
  BY <1>1, <1>2 DEF Open
<1>8. ConcurrentTypeOK' /\ RowsAreTold'
  BY <1>1, <1>2, <1>4 DEF ConcurrentTypeOK, TypeOK, RowsAreTold, Logged, Told
<1>9. SessionIsSound(w)'
  <2>1. \A a \in Activity : Planned(tx'[w].seen[a], tx'[w].plan[a])
                            /\ Continues(activities'[a], tx'[w].seen[a])
    BY <1>2, <1>5, <1>6, <1>7
  <2>2. ASSUME NEW a \in Activity PROVE IdIsOwn(w, a)'
    BY <1>2, <1>5, <1>6, <1>7 DEF IdIsOwn, FreshId
  <2>3. ~tx'[w].flushed
    BY <1>5, <1>7
  <2> QED
    BY <2>1, <2>2, <2>3 DEF SessionIsSound, Planned, Continues, Told, Extends
<1>10. ASSUME NEW v \in Worker \ {w}, Open(v)'
       PROVE  SessionIsSound(v)'
  <2>1. SessionIsSound(v) /\ tx'[v] = tx[v] /\ Open(v)
    BY <1>7, <1>10 DEF RaceInv
  <2>2. \A a \in Activity : Planned(tx'[v].seen[a], tx'[v].plan[a])
                            /\ Continues(activities'[a], tx'[v].seen[a])
    BY <1>2, <2>1 DEF SessionIsSound
  <2>3. ASSUME NEW a \in Activity PROVE IdIsOwn(v, a)'
    <3>1. IdIsOwn(v, a)
      BY <2>1 DEF SessionIsSound
    <3>2. SUFFICES ASSUME tx[v].seen[a] = Null, tx[v].plan[a] # Null
                   PROVE  /\ activities[a] = Null
                          /\ \A x \in Worker \ {v} : Open(x)' => tx'[x].plan[a] = Null
      BY <1>2, <2>1 DEF IdIsOwn
    <3>3. activities[a] = Null /\ \A x \in Worker \ {v} : Open(x) => tx[x].plan[a] = Null
      BY <3>1, <3>2 DEF IdIsOwn
    <3>4. plan[a] = Null
      BY <1>6, <2>1, <3>2, <3>3 DEF FreshId
    <3> QED
      BY <1>5, <1>7, <3>3, <3>4
  <2>4. tx'[v].flushed => HoldsItsRows(v)'
    <3>1. tx[v].flushed => HoldsItsRows(v)
      BY <2>1 DEF SessionIsSound
    <3>2. \A x \in Worker \ {v} : Open(x)' /\ tx'[x].flushed =>
             x # w /\ tx'[x] = tx[x] /\ Open(x)
      BY <1>5, <1>7
    <3> QED
      BY <1>2, <2>1, <3>1, <3>2 DEF HoldsItsRows, VersionNumbersAreFree, Written
  <2> QED
    BY <2>2, <2>3, <2>4 DEF SessionIsSound, Planned, Continues, Told, Extends
<1> QED
  BY <1>8, <1>9, <1>10 DEF RaceInv

LEMMA FlushKeepsInv ==
  ASSUME RaceInv, NEW w \in Worker, Flush(w)
  PROVE  RaceInv'
<1> DEFINE t == tx[w]
           n == tx'[w]
<1>1. /\ TypeOK /\ RowsAreTold /\ tx \in [Worker -> Transaction \cup {Null}]
  BY DEF RaceInv, ConcurrentTypeOK
<1>2. /\ UNCHANGED <<now, activities, ends>> /\ Open(w)
      /\ \A a \in Written(t) : ~LockedByOther(w, a)
      /\ VersionNumbersAreFree(t)
  BY DEF Flush
<1>3. t \in Transaction
  BY <1>1, <1>2 DEF Open
<1>4. PICK d \in BOOLEAN : tx' = [tx EXCEPT ![w] = [t EXCEPT !.flushed = TRUE, !.drops = d]]
  <2> DEFINE d == t.reopens /\ <<t.user, t.mission>> \in ends
  <2>1. d \in BOOLEAN
    BY <1>3 DEF Transaction
  <2>2. tx' = [tx EXCEPT ![w] = [t EXCEPT !.flushed = TRUE, !.drops = d]]
    BY <1>1 DEF Flush
  <2> QED
    BY <2>1, <2>2
<1>5. /\ n.seen = t.seen /\ n.plan = t.plan /\ n \in Transaction
      /\ \A v \in Worker \ {w} : tx'[v] = tx[v]
      /\ tx' \in [Worker -> Transaction \cup {Null}]
  BY <1>1, <1>3, <1>4 DEF Transaction
<1> HIDE DEF t, n
<1>6. /\ \A v \in Worker : tx'[v].seen = tx[v].seen /\ tx'[v].plan = tx[v].plan
      /\ \A v \in Worker \ {w} : Open(v)' <=> Open(v)
      /\ \A v \in Worker : Open(v)' => Open(v)
      /\ \A v \in Worker : Written(tx'[v]) = Written(tx[v])
  BY <1>2, <1>5 DEF Open, Written, n, t
<1>7. ConcurrentTypeOK' /\ RowsAreTold'
  BY <1>1, <1>2, <1>5 DEF ConcurrentTypeOK, TypeOK, RowsAreTold, Logged, Told
<1>8. ASSUME NEW v \in Worker, Open(v)'
      PROVE  SessionIsSound(v)'
  <2>1. SessionIsSound(v)
    BY <1>6, <1>8 DEF RaceInv
  <2>2. \A a \in Activity : Planned(tx'[v].seen[a], tx'[v].plan[a])
                            /\ Continues(activities'[a], tx'[v].seen[a])
    BY <1>2, <1>6, <2>1 DEF SessionIsSound
  <2>3. ASSUME NEW a \in Activity PROVE IdIsOwn(v, a)'
    BY <1>2, <1>6, <2>1 DEF SessionIsSound, IdIsOwn
  <2>4. ASSUME tx'[v].flushed PROVE HoldsItsRows(v)'
    <3>1. VersionNumbersAreFree(tx[v])
      BY <1>2, <1>5, <2>1, <2>4 DEF SessionIsSound, HoldsItsRows, t
    <3>2. VersionNumbersAreFree(tx[v])'
      BY <1>2, <1>6, <3>1 DEF VersionNumbersAreFree
    <3>3. ASSUME NEW x \in Worker \ {v}, Open(x)', tx'[x].flushed
          PROVE  Written(tx[x]) \cap Written(tx[v]) = {}
      <4>1. CASE v = w
        BY <1>2, <1>5, <1>6, <3>3, <4>1 DEF LockedByOther, t
      <4>2. CASE x = w
        <5>1. Open(v) /\ tx[v].flushed /\ v # w
          BY <1>5, <1>6, <1>8, <2>4, <3>3, <4>2
        <5> QED
          BY <1>2, <4>2, <5>1 DEF LockedByOther, t
      <4>3. CASE v # w /\ x # w
        BY <1>5, <1>6, <2>1, <2>4, <3>3, <4>3 DEF SessionIsSound, HoldsItsRows
      <4> QED
        BY <4>1, <4>2, <4>3
    <3> QED
      BY <1>6, <3>2, <3>3 DEF HoldsItsRows
  <2> QED
    BY <2>2, <2>3, <2>4 DEF SessionIsSound, Planned, Continues, Told, Extends
<1> QED
  BY <1>7, <1>8 DEF RaceInv

\* What a flushed transaction makes of a row.
LEMMA MergedRows ==
  ASSUME RaceInv, NEW w \in Worker, Open(w), tx[w].flushed, NEW a \in Activity
  PROVE  LET n == Merged(tx[w])[a]
         IN /\ n \in Row \cup {Null}
            /\ n # Null => Told(n)
            /\ activities[a] # Null => n \in Row /\ Extends(n, activities[a])
            /\ a \in Written(tx[w]) => tx[w].plan[a] # Null
            /\ a \notin Written(tx[w]) => n = activities[a]
<1> DEFINE t == tx[w]
           n == Merged(t)[a]
           seen == t.seen[a]
           plan == t.plan[a]
           old == activities[a]
<1>1. /\ old \in Row \cup {Null}
      /\ old # Null => Told(old)
      /\ SessionIsSound(w) /\ HoldsItsRows(w)
  BY DEF RaceInv, ConcurrentTypeOK, TypeOK, RowsAreTold, Logged, SessionIsSound
<1>2. Planned(seen, plan) /\ Continues(old, seen) /\ IdIsOwn(w, a)
  BY <1>1 DEF SessionIsSound
<1>3. /\ a \in Written(t) <=> plan # seen
      /\ n = IF a \in Written(t) THEN MergedRow(old, seen, plan) ELSE old
  BY DEF Written, Merged
<1>4. CASE plan = seen
  BY <1>1, <1>3, <1>4, ExtendsItself
<1>5. CASE plan # seen /\ seen = Null
  <2>1. plan \in Row /\ Told(plan) /\ old = Null
    BY <1>2, <1>5, NoRowAssumption DEF Planned, IdIsOwn
  <2>2. n = plan
    BY <1>3, <1>5 DEF MergedRow
  <2> HIDE DEF n, seen, plan, old
  <2>3. /\ n \in Row /\ Told(n) /\ plan # Null /\ a \in Written(t)
    BY <1>3, <1>5, <2>1, <2>2, NoRowAssumption
  <2> QED
    BY <2>1, <2>3 DEF n, plan, old
<1>6. CASE plan # seen /\ seen # Null
  <2>1. /\ seen \in Row /\ plan \in Row /\ old \in Row /\ Told(old)
    BY <1>1, <1>2, <1>6, NoRowAssumption DEF Planned, Continues
  <2>2. plan.versions # seen.versions => Len(old.versions) = Len(seen.versions)
    BY <1>1, <1>3, <1>6 DEF HoldsItsRows, VersionNumbersAreFree
  <2>3. n = MergedRow(old, seen, plan)
    BY <1>3, <1>6
  <2> HIDE DEF n, seen, plan, old
  <2>4. n \in Row /\ Told(n) /\ Extends(n, old)
    BY <1>2, <2>1, <2>2, <2>3, MergedIsTold
  <2> QED
    BY <1>3, <1>6, <2>1, <2>4, NoRowAssumption DEF n, plan, old
<1> QED
  BY <1>4, <1>5, <1>6

LEMMA CommitKeepsInv ==
  ASSUME RaceInv, NEW w \in Worker, CommitTx(w)
  PROVE  RaceInv'
<1> DEFINE t == tx[w]
           M == Merged(t)
<1>1. /\ TypeOK /\ RowsAreTold /\ tx \in [Worker -> Transaction \cup {Null}]
      /\ activities \in Table
  BY DEF RaceInv, ConcurrentTypeOK, TypeOK, Table
<1>2. /\ Open(w) /\ t.flushed /\ t \in Transaction
      /\ activities' = M /\ now' = now /\ tx' = [tx EXCEPT ![w] = Null]
      /\ ends' = IF t.closes THEN ends \cup {<<t.user, t.mission>>}
                 ELSE IF t.drops THEN ends \ {<<t.user, t.mission>>} ELSE ends
  BY <1>1 DEF CommitTx, Commit, Open
<1>3. \A a \in Activity :
        /\ M[a] \in Row \cup {Null}
        /\ M[a] # Null => Told(M[a])
        /\ activities[a] # Null => M[a] \in Row /\ Extends(M[a], activities[a])
        /\ a \in Written(t) => t.plan[a] # Null
        /\ a \notin Written(t) => M[a] = activities[a]
  BY <1>2, MergedRows
<1>4. M \in Table
  BY <1>3 DEF Table, Merged
<1>5. t.user \in User /\ t.mission \in Mission
  BY <1>2 DEF Transaction
<1> HIDE DEF M, t
<1>6. ConcurrentTypeOK'
  BY <1>1, <1>2, <1>4, <1>5 DEF ConcurrentTypeOK, TypeOK, Table
<1>7. RowsAreTold'
  BY <1>2, <1>3 DEF RowsAreTold, Logged, Told
<1>8. \A v \in Worker : Open(v)' => v # w /\ tx'[v] = tx[v] /\ Open(v)
  BY <1>1, <1>2 DEF Open
<1>9. ASSUME NEW v \in Worker, Open(v)'
      PROVE  SessionIsSound(v)'
  <2>1. SessionIsSound(v) /\ v # w /\ tx'[v] = tx[v] /\ Open(v)
    BY <1>8, <1>9 DEF RaceInv
  <2>2. ASSUME NEW a \in Activity
        PROVE  Continues(activities'[a], tx[v].seen[a])
    <3> DEFINE seen == tx[v].seen[a]
    <3>1. SUFFICES ASSUME seen # Null
                   PROVE  M[a] \in Row /\ Extends(M[a], seen) /\ seen \in Row /\ Told(seen)
      BY <1>2 DEF Continues
    <3>2. /\ seen \in Row /\ activities[a] \in Row /\ Told(seen)
          /\ Extends(activities[a], seen)
      BY <2>1, <3>1 DEF SessionIsSound, Continues
    <3>3. M[a] \in Row /\ Extends(M[a], activities[a])
      BY <1>3, <3>2, NoRowAssumption
    <3> HIDE DEF seen
    <3>4. Extends(M[a], seen)
      BY <3>2, <3>3, VersionShape, ExtendsTransitive
    <3> QED
      BY <3>2, <3>3, <3>4
  <2>3. ASSUME NEW a \in Activity PROVE IdIsOwn(v, a)'
    <3>1. IdIsOwn(v, a)
      BY <2>1 DEF SessionIsSound
    <3>2. SUFFICES ASSUME tx[v].seen[a] = Null, tx[v].plan[a] # Null
                   PROVE  /\ M[a] = Null
                          /\ \A x \in Worker \ {v} : Open(x)' => tx'[x].plan[a] = Null
      BY <1>2, <2>1 DEF IdIsOwn
    <3>3. activities[a] = Null /\ \A x \in Worker \ {v} : Open(x) => tx[x].plan[a] = Null
      BY <3>1, <3>2 DEF IdIsOwn
    <3>4. t.plan[a] = Null
      BY <1>2, <2>1, <3>3 DEF t
    <3> QED
      BY <1>3, <1>8, <3>3, <3>4
  <2>4. ASSUME tx[v].flushed PROVE HoldsItsRows(v)'
    <3>1. HoldsItsRows(v)
      BY <2>1, <2>4 DEF SessionIsSound
    <3>2. Written(t) \cap Written(tx[v]) = {}
      BY <1>2, <2>1, <3>1 DEF HoldsItsRows, t
    <3>3. \A a \in Written(tx[v]) : M[a] = activities[a]
      BY <1>3, <3>2 DEF Written
    <3>4. VersionNumbersAreFree(tx[v])'
      BY <1>2, <2>1, <3>1, <3>3 DEF HoldsItsRows, VersionNumbersAreFree, Written
    <3>5. \A x \in Worker \ {v} : Open(x)' /\ tx'[x].flushed =>
            Written(tx'[x]) \cap Written(tx'[v]) = {}
      BY <1>8, <2>1, <3>1 DEF HoldsItsRows
    <3> QED
      BY <3>4, <3>5 DEF HoldsItsRows, Written
  <2>5. \A a \in Activity : Planned(tx'[v].seen[a], tx'[v].plan[a])
                            /\ Continues(activities'[a], tx'[v].seen[a])
    BY <2>1, <2>2 DEF SessionIsSound
  <2> QED
    BY <2>1, <2>3, <2>4, <2>5 DEF SessionIsSound, Planned, Continues, Told, Extends
<1> QED
  BY <1>6, <1>7, <1>9 DEF RaceInv

\* The time that passes and a transaction that is rolled back.
LEMMA IdleKeepsInv ==
  ASSUME RaceInv, activities' = activities, ends' = ends, now' \in Clock,
         \/ tx' = tx
         \/ \E w \in Worker : tx' = [tx EXCEPT ![w] = Null]
  PROVE  RaceInv'
<1>1. /\ TypeOK /\ RowsAreTold /\ tx \in [Worker -> Transaction \cup {Null}]
  BY DEF RaceInv, ConcurrentTypeOK
<1>2. /\ tx' \in [Worker -> Transaction \cup {Null}]
      /\ \A v \in Worker : Open(v)' => tx'[v] = tx[v] /\ Open(v)
  BY <1>1 DEF Open
<1>3. ConcurrentTypeOK' /\ RowsAreTold'
  BY <1>1, <1>2 DEF ConcurrentTypeOK, TypeOK, RowsAreTold, Logged, Told
<1>4. ASSUME NEW v \in Worker, Open(v)'
      PROVE  SessionIsSound(v)'
  <2>1. SessionIsSound(v) /\ tx'[v] = tx[v] /\ Open(v)
    BY <1>2, <1>4 DEF RaceInv
  <2>2. \A a \in Activity : Planned(tx'[v].seen[a], tx'[v].plan[a])
                            /\ Continues(activities'[a], tx'[v].seen[a])
    BY <2>1 DEF SessionIsSound
  <2>3. ASSUME NEW a \in Activity PROVE IdIsOwn(v, a)'
    BY <1>2, <2>1 DEF SessionIsSound, IdIsOwn
  <2>4. ASSUME tx'[v].flushed PROVE HoldsItsRows(v)'
    <3>1. HoldsItsRows(v)
      BY <2>1, <2>4 DEF SessionIsSound
    <3> QED
      BY <1>2, <2>1, <3>1 DEF HoldsItsRows, VersionNumbersAreFree, Written
  <2> QED
    BY <2>2, <2>3, <2>4 DEF SessionIsSound, Planned, Continues, Told, Extends
<1> QED
  BY <1>3, <1>4 DEF RaceInv

-----------------------------------------------------------------------------
(* The beginnings of requests, and the theorems.                           *)

LEMMA BeginInsertKeepsInv ==
  ASSUME RaceInv, NEW w \in Worker, NEW a \in Activity, NEW u \in User,
         NEW m \in Mission, NEW ty \in WorkType, NEW s \in Instant,
         NEW e \in Instant \cup {Null}, NEW switch \in BOOLEAN,
         BeginLog(w, a, u, m, ty, s, e, switch)
  PROVE  RaceInv'
<1> DEFINE T == Insert(activities, a, u, m, ty, s, e)
           reopens == e = Null
<1>1. /\ TypeOK /\ s \in Int /\ e \in Int \cup {Null} /\ ty \in Type
      /\ activities \in Table
  BY TimeAssumption DEF RaceInv, ConcurrentTypeOK, Type, TypeOK, Table
<1>2. /\ FreshId(a) /\ activities[a] = Null
      /\ Begin(w, u, m, T, TRUE, reopens, FALSE)
  BY DEF BeginLog, CanLog
<1>3. T \in Table /\ \A b \in Activity : b # a => T[b] = activities[b]
  BY <1>1, <1>2, InsertWrites
<1>4. TableRewritten(activities)
  BY DEF TableRewritten, Rewritten
<1>5. TableRewritten(T)
  BY <1>1, <1>2, <1>4, InsertRewrites
<1>6. reopens \in BOOLEAN
  OBVIOUS
<1> HIDE DEF T, reopens
<1>7. \A b \in Activity : activities[b] = Null /\ T[b] # Null => FreshId(b)
  BY <1>2, <1>3
<1> QED
  BY <1>2, <1>3, <1>5, <1>6, <1>7, BeginKeepsInv

LEMMA BeginSwitchKeepsInv ==
  ASSUME RaceInv, NEW w \in Worker, NEW a \in Activity,
         NEW c \in Live(activities), NEW ty \in WorkType, NEW s \in Instant,
         BeginSwitch(w, a, c, ty, s)
  PROVE  RaceInv'
<1> DEFINE u == activities[c].user
           m == activities[c].mission
           closed == Revise(activities, c, activities[c].start, s)
           T == Switch(activities, a, c, ty, s)
<1>1. /\ TypeOK /\ s \in Int /\ ty \in Type /\ activities \in Table /\ now \in Int
  BY TimeAssumption DEF RaceInv, ConcurrentTypeOK, Type, TypeOK, Table
<1>2. /\ FreshId(a) /\ activities[a] = Null
      /\ Begin(w, u, m, T, TRUE, TRUE, FALSE)
  BY DEF BeginSwitch, CanSwitch
<1>3. /\ c \in Activity /\ activities[c] \in Row /\ activities[c].start \in Int
      /\ u \in User /\ m \in Mission
  BY <1>1, LiveRow DEF Row
<1>4. closed \in Table /\ \A b \in Activity : b # c => closed[b] = activities[b]
  BY <1>1, <1>3, ReviseWrites
<1>5. TableRewritten(T)
  BY <1>1, <1>2, SwitchRewrites
<1>6. NewRow(u, m, ty, s, Null) \in Row
  BY <1>1, <1>3, NewRowType
<1>7. T = [closed EXCEPT ![a] = NewRow(u, m, ty, s, Null)]
  BY DEF Switch, Insert
<1>8. activities[c] # Null
  BY <1>3, NoRowAssumption
<1> HIDE DEF closed, T, u, m
<1>9. T \in Table /\ \A b \in Activity : b # a => T[b] = closed[b]
  BY <1>4, <1>6, <1>7 DEF Table
<1>10. \A b \in Activity : activities[b] = Null /\ T[b] # Null => FreshId(b)
  BY <1>2, <1>4, <1>8, <1>9
<1> QED
  BY <1>2, <1>3, <1>5, <1>9, <1>10, BeginKeepsInv

LEMMA BeginReviseKeepsInv ==
  ASSUME RaceInv, NEW w \in Worker, NEW c \in Live(activities),
         NEW s \in Int, NEW e \in Int \cup {Null}, NEW reopens \in BOOLEAN,
         NEW closes \in BOOLEAN,
         Begin(w, activities[c].user, activities[c].mission,
               Revise(activities, c, s, e), TRUE, reopens, closes)
  PROVE  RaceInv'
<1> DEFINE T == Revise(activities, c, s, e)
<1>1. /\ TypeOK /\ activities \in Table
  BY DEF RaceInv, ConcurrentTypeOK, TypeOK, Table
<1>2. /\ c \in Activity /\ activities[c] \in Row /\ activities[c] # Null
      /\ activities[c].user \in User /\ activities[c].mission \in Mission
  BY <1>1, LiveRow, NoRowAssumption DEF Row
<1>3. T \in Table /\ \A b \in Activity : b # c => T[b] = activities[b]
  BY <1>1, ReviseWrites
<1>4. TableRewritten(T)
  BY <1>1, ReviseRewrites
<1> HIDE DEF T
<1>5. \A b \in Activity : activities[b] = Null /\ T[b] # Null => FreshId(b)
  BY <1>2, <1>3
<1>6. Begin(w, activities[c].user, activities[c].mission, T, TRUE, reopens, closes)
  BY DEF T
<1> QED
  BY <1>2, <1>3, <1>4, <1>5, <1>6, BeginKeepsInv

LEMMA BeginCancelKeepsInv ==
  ASSUME RaceInv, NEW w \in Worker, NEW c \in Live(activities), BeginCancel(w, c)
  PROVE  RaceInv'
<1> DEFINE T == Dismiss(activities, {c})
<1>1. /\ TypeOK /\ activities \in Table /\ now \in Int
  BY TimeAssumption DEF RaceInv, ConcurrentTypeOK, TypeOK, Table
<1>2. /\ c \in Activity /\ activities[c] \in Row /\ activities[c] # Null
      /\ activities[c].user \in User /\ activities[c].mission \in Mission
      /\ Dismissed(activities[c]) \in Row
  BY <1>1, LiveRow, DismissedType, NoRowAssumption DEF Row
<1>3. T \in Table /\ \A b \in Activity : b # c => T[b] = activities[b]
  BY <1>1, <1>2 DEF Dismiss, Table
<1>4. TableRewritten(T)
  BY <1>1, DismissRewrites
<1>5. Begin(w, activities[c].user, activities[c].mission, T, FALSE, FALSE, FALSE)
  BY DEF BeginCancel
<1> HIDE DEF T
<1>6. \A b \in Activity : activities[b] = Null /\ T[b] # Null => FreshId(b)
  BY <1>2, <1>3
<1> QED
  BY <1>2, <1>3, <1>4, <1>5, <1>6, BeginKeepsInv

LEMMA BeginNothingKeepsInv ==
  ASSUME RaceInv, NEW w \in Worker, NEW u \in User, NEW m \in Mission,
         Begin(w, u, m, activities, FALSE, FALSE, TRUE)
  PROVE  RaceInv'
<1>1. activities \in Table
  BY DEF RaceInv, ConcurrentTypeOK, TypeOK, Table
<1>2. TableRewritten(activities)
  BY DEF TableRewritten, Rewritten
<1> QED
  BY <1>1, <1>2, BeginKeepsInv

LEMMA BeginEndKeepsInv ==
  ASSUME RaceInv, NEW w \in Worker, NEW u \in User, NEW m \in Mission,
         NEW t \in Instant, BeginEnd(w, u, m, t)
  PROVE  RaceInv'
<1> DEFINE mine == LiveIn(activities, u, m)
           last == Last(activities, mine)
<1>1. CASE Begin(w, u, m, activities, FALSE, FALSE, TRUE)
  BY <1>1, BeginNothingKeepsInv
<1>2. CASE /\ mine # {}
           /\ Begin(w, u, m, Revise(activities, last, activities[last].start, t),
                    TRUE, FALSE, TRUE)
  <2>1. activities \in Table /\ t \in Int
    BY TimeAssumption DEF RaceInv, ConcurrentTypeOK, TypeOK, Table
  <2>2. mine \subseteq Live(activities)
    BY DEF LiveIn, LiveOf
  <2>3. last \in mine
    BY <1>2, <2>1, <2>2, LastIsLast
  <2>4. activities[last].user = u /\ activities[last].mission = m
    BY <2>3 DEF LiveIn, LiveOf
  <2> HIDE DEF mine, last
  <2>5. activities[last].start \in Int /\ last \in Live(activities)
    BY <2>1, <2>2, <2>3, LiveRow DEF Row
  <2> QED
    BY <1>2, <2>1, <2>4, <2>5, BeginReviseKeepsInv
<1> QED
  BY <1>1, <1>2 DEF BeginEnd

LEMMA RaceStep == RaceInv /\ [ConcurrentNext]_raceVars => RaceInv'
<1> SUFFICES ASSUME RaceInv, [ConcurrentNext]_raceVars PROVE RaceInv'
  OBVIOUS
<1>1. now \in Clock /\ activities \in Table
  BY DEF RaceInv, ConcurrentTypeOK, TypeOK, Table
<1>2. CASE UNCHANGED raceVars
  BY <1>1, <1>2, IdleKeepsInv DEF raceVars
<1>3. CASE Tick /\ UNCHANGED tx
  BY <1>3, IdleKeepsInv DEF Tick
<1>4. ASSUME NEW w \in Worker, Rollback(w) PROVE RaceInv'
  BY <1>1, <1>4, IdleKeepsInv DEF Rollback
<1>5. ASSUME NEW w \in Worker, BeginAny(w) PROVE RaceInv'
  <2>1. ASSUME NEW a \in Live(activities),
               NEW s \in Instant \cup {activities[a].start},
               NEW e \in Instant \cup {Null, activities[a].end},
               BeginEdit(w, a, s, e)
        PROVE  RaceInv'
    <3>1. activities[a] \in Row
      BY <1>1, LiveRow
    <3>2. s \in Int /\ e \in Int \cup {Null}
      BY <3>1, TimeAssumption DEF Row
    <3> DEFINE reopens == e = Null
    <3>3. /\ reopens \in BOOLEAN
          /\ Begin(w, activities[a].user, activities[a].mission,
                   Revise(activities, a, s, e), TRUE, reopens, FALSE)
      BY <2>1 DEF BeginEdit
    <3> HIDE DEF reopens
    <3> QED
      BY <3>2, <3>3, BeginReviseKeepsInv
  <2>2. ASSUME NEW u \in User, NEW m \in Mission, BeginClose(w, u, m)
        PROVE  RaceInv'
    BY <2>2, BeginNothingKeepsInv DEF BeginClose
  <2> QED
    BY <1>5, <2>1, <2>2, BeginInsertKeepsInv, BeginSwitchKeepsInv,
       BeginCancelKeepsInv, BeginEndKeepsInv DEF BeginAny
<1> QED
  BY <1>2, <1>3, <1>4, <1>5, FlushKeepsInv, CommitKeepsInv DEF ConcurrentNext

LEMMA RaceInitially == ConcurrentInit => RaceInv
<1> SUFFICES ASSUME ConcurrentInit PROVE RaceInv
  OBVIOUS
<1>1. TypeOK
  BY TypeInitially DEF ConcurrentInit
<1>2. activities = [a \in Activity |-> Null] /\ tx = [w \in Worker |-> Null]
  BY DEF ConcurrentInit, Init
<1>3. \A w \in Worker : ~Open(w)
  BY <1>2 DEF Open
<1> QED
  BY <1>1, <1>2, <1>3 DEF RaceInv, ConcurrentTypeOK, RowsAreTold, Logged

LEMMA RaceInvariance == ConcurrentSpec => []RaceInv
BY RaceInitially, RaceStep, PTL DEF ConcurrentSpec

\* However two corrections of one activity interleave, its row is what its
\* last version says (CorrectionsDoNotMix): the number of a version, which
\* the database keeps unique, makes the later correction fail.
THEOREM CorrectionsStayWhole == ConcurrentSpec => []CorrectionsDoNotMix
<1>1. RaceInv => CorrectionsDoNotMix
  BY DEF RaceInv, RowsAreTold, CorrectionsDoNotMix, Live, Told
<1> QED
  BY <1>1, RaceInvariance, PTL

\* A row that has as many versions as a session read is the row it read.
LEMMA SameLengthSameRow ==
  ASSUME NEW old \in Row, NEW seen \in Row, Continues(old, seen), Told(old),
         Len(old.versions) = Len(seen.versions)
  PROVE  /\ old.versions = seen.versions
         /\ old.start = seen.start /\ old.end = seen.end
<1>1. old.versions \in Seq(Version) /\ seen.versions \in Seq(Version)
  BY VersionShape
<1>2. Told(seen) /\ Extends(old, seen)
  BY NoRowAssumption DEF Continues
<1>3. old.versions = seen.versions
  BY <1>1, <1>2, SeqEqual DEF Extends
<1> QED
  BY <1>2, <1>3 DEF Told

LEMMA CorrectionsStep == RaceInv /\ [ConcurrentNext]_raceVars => CommitsWhatItRead
<1> SUFFICES ASSUME RaceInv, [ConcurrentNext]_raceVars, NEW w \in Worker,
                    Open(w), tx'[w] = Null, activities' # activities
             PROVE  CorrectsWhatItRead(w)
  BY DEF CommitsWhatItRead
<1>0. activities \in Table /\ tx \in [Worker -> Transaction \cup {Null}]
  BY DEF RaceInv, ConcurrentTypeOK, TypeOK, Table
<1>1. PICK v \in Worker : CommitTx(v)
  <2>1. ASSUME NEW v \in Worker, BeginAny(v) PROVE activities' = activities
    <3>1. ASSUME NEW u, NEW m, NEW T, NEW checked, NEW reopens, NEW closes,
                 Begin(v, u, m, T, checked, reopens, closes)
          PROVE  activities' = activities
      BY <3>1 DEF Begin
    <3>2. ASSUME NEW u \in User, NEW m \in Mission, NEW t \in Instant,
                 BeginEnd(v, u, m, t)
          PROVE  activities' = activities
      BY <3>2 DEF BeginEnd, Begin
    <3> QED
      BY <2>1, <3>1, <3>2 DEF BeginAny, BeginLog, BeginSwitch, BeginEdit,
                              BeginCancel, BeginClose
  <2> QED
    BY <2>1 DEF ConcurrentNext, Tick, Flush, Rollback, raceVars
<1>2. tx' = [tx EXCEPT ![v] = Null] /\ tx[v].flushed
  BY <1>1 DEF CommitTx
<1>3. v = w
  BY <1>0, <1>2 DEF Open
<1>4. SessionIsSound(w) /\ VersionNumbersAreFree(tx[w])
  BY <1>2, <1>3 DEF RaceInv, SessionIsSound, HoldsItsRows
<1>5. ASSUME NEW a \in Written(tx[w]), tx[w].seen[a] # Null,
             tx[w].plan[a].versions # tx[w].seen[a].versions
      PROVE  /\ activities[a].versions = tx[w].seen[a].versions
             /\ activities[a].start = tx[w].seen[a].start
             /\ activities[a].end = tx[w].seen[a].end
  <2>1. a \in Activity
    BY DEF Written
  <2>2. Len(activities[a].versions) = Len(tx[w].seen[a].versions)
    BY <1>4, <1>5 DEF VersionNumbersAreFree
  <2>3. Continues(activities[a], tx[w].seen[a])
    BY <1>4, <2>1 DEF SessionIsSound
  <2>4. activities[a] \in Row /\ tx[w].seen[a] \in Row
    BY <1>5, <2>3 DEF Continues
  <2>5. Told(activities[a])
    BY <2>1, <2>4, NoRowAssumption DEF RaceInv, RowsAreTold, Logged
  <2> QED
    BY <2>2, <2>3, <2>4, <2>5, SameLengthSameRow
<1> QED
  BY <1>5 DEF CorrectsWhatItRead

\* A correction replaces what its request has read (NoCorrectionIsLost): it
\* holds its row from the flush to the commit, the row then has as many
\* versions as the session read, and each of them is the one it read.
THEOREM CorrectionsAreKept == ConcurrentSpec => NoCorrectionIsLost
<1>1. RaceInv /\ [ConcurrentNext]_raceVars => [CommitsWhatItRead]_raceVars
  BY CorrectionsStep
<1> QED
  BY <1>1, RaceInvariance, PTL DEF ConcurrentSpec, NoCorrectionIsLost
=============================================================================
