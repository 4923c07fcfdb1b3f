----------------------------- MODULE MCRecords -----------------------------
(***************************************************************************)
(* The records kept about work and companies, what is computed from them,  *)
(* and who reads them, on small instances.  The components share no state: *)
(* each behaviour works one scene, while what is not in it stays as it     *)
(* began, so one run explores them all.                                    *)
(***************************************************************************)
EXTENDS EmploymentConcurrent, Controls, Regulations, Teams, MissionRecords,
        Certificates, Paging, AlertsSummary, MissionHistory, Tachograph,
        CardSignatures, Mailings, TLC

CONSTANTS boss, worker, acme, e1, e2, e3, m1, m2, p1, p2, t1, t2, v1, a1, a2, d1, d2,
          c1, c2, x1, x2

VARIABLE scene

recordsVars ==
  <<cvars, controlVars, regulationVars, teamVars, recordVars, certVars,
    pagingVars, summaryVars, historyVars, tachographVars, signatureVars,
    mailingVars, scene>>

Scenes == {"employment", "control", "regulation", "team", "record",
           "certificate", "paging", "summary", "history", "card", "signature",
           "mailing"}

-----------------------------------------------------------------------------
(* Constants. *)

FoundedByBoss == [c \in Company |-> boss]

\* Days of four slots, the last of them night work, and weeks of two days.
SmallLimits ==
  [longBreak |-> 2, maxDay |-> 3, maxNight |-> 2, trigger |-> 0,
   maxHighAmplitude |-> 2, individualBreak |-> 1, work1 |-> 1, work2 |-> 2,
   break1 |-> 1, break2 |-> 2, uninterrupted |-> 2, weekDays |-> 2,
   weekRest |-> 5, weekWork |-> 4]

Drive(m, from, length) ==
  [mission |-> m, start |-> from, end |-> from + length, kind |-> "drive"]

NothingLogged == [m \in Mission |-> <<>>]

\* One or two activities on the first mission, apart by a break or a rest,
\* and one on the second.
SmallLayouts ==
  {NothingLogged} \cup
  {LET first == Drive(m1, s, l)
       second == Drive(m1, s + l + apart - 1, 1)
       end == IF apart = 0 THEN first.end ELSE second.end
   IN  [m \in Mission |->
          IF m = m2 THEN <<Drive(m2, end + (IF apart \in {0, 2} THEN 3 ELSE 0), 2)>>
          ELSE IF apart = 0 THEN <<first>> ELSE <<first, second>>] :
   s \in {2, 3}, l \in {1, 3}, apart \in {0, 2, 7}}

OnePlate(n) == "AB1"

\* One address, sent as a float that is exact or not.
TwoFloats == {[id |-> 1, coords |-> "half"], [id |-> 1, coords |-> "tenth"]}

BothManage(c) == FirmManager

Month(n, a, r, late) ==
  [activities |-> n, alerts |-> [k \in 1..6 |-> IF k > 3 THEN a ELSE 0],
   realTime |-> r, changed |-> late]

SmallMonths ==
  <<Month(200, 1, 150, 30), Month(200, 0, 190, 2), Month(200, 0, 100, 30),
    Month(200, 0, 190, 0)>>

\* Eight rows: a mission over two days, one of another company, one of three
\* rows, and two of another user.
EightRows(r) ==
  LET Row8(m, u, f, from, to) ==
        [mission |-> m, user |-> u, firm |-> f, from |-> from, to |-> to]
  IN  <<Row8(1, 1, 1, 1, 2), Row8(1, 1, 1, 3, 5), Row8(2, 1, 2, 5, 6),
        Row8(3, 1, 1, 6, 7), Row8(3, 1, 1, 7, 8), Row8(3, 1, 1, 8, 9),
        Row8(1, 2, 1, 1, 3), Row8(4, 2, 1, 6, 7)>>[r]

CabOfRide(ride) == CASE ride = 1 -> "truck" [] ride = 2 -> NoCab [] ride = 3 -> "van"

Files == <<"icc", "card", "ca", "ident", "activity">>

TwoFirms == [e \in Staff |-> IF e = e1 THEN c1 ELSE c2]

OneBox == [e \in Staff |-> acme]

\* The requests and worker processes of every scene are x1 and x2.
ActorSymmetry == Permutations({x1, x2})

-----------------------------------------------------------------------------
(* Bounds: the states each scene goes through. *)

\* The last row is a plain employment of this day.
EmploymentIsSmall ==
  employments[e3] # Null =>
    /\ employments[e2] # Null /\ ~employments[e2].admin
    /\ ~employments[e3].admin
    /\ employments[e3].start = today \/ employments[e3].end = Null

\* A second team, vehicles and places are worked on one at a time; two
\* requests about a team change nothing but its managers, or delete it.
TeamOps == {"create", "update", "delete"}

Busy(ops) == {r \in TeamRequest : asset[r].op \in ops}

OnlyManagers(r) == asset[r].by = p1 /\ asset[r].users = {}

TeamsAreSmall ==
  LET stored == vehicles # <<>> \/ places # <<>>
      about == Busy(TeamOps)
  IN
  /\ vehicles = <<>> \/ places = <<>>
  /\ Cardinality({ops \in {TeamOps, {"vehicle"}, {"place"}} : Busy(ops) # {}}) <= 1
  /\ teamOf[p1] = NoTeam /\ teamOf[p2] # t2
  /\ team[t2].exists => /\ ~stored /\ \A r \in TeamRequest : asset[r] = IdleAsset
                        /\ \A p \in Person : teamOf[p] = NoTeam
                        /\ \A w \in written : w[2] = p1
                        /\ missed = {}
  /\ \A r \in about : asset[r].op # "delete" => asset[r].users \subseteq {p2}
  /\ \A r \in about : asset[r].team = t2 =>
       asset[r].op # "update" /\ asset[r].by = p1 /\ written = {}
  /\ Cardinality(overtaken) <= 1
  /\ Cardinality(about) = 2 =>
       /\ manages[p1] /\ ~stored /\ written \subseteq {<<t1, p1>>}
       /\ missed = {}
       /\ \A r \in about : asset[r].op = "delete" \/ OnlyManagers(r)
       /\ \A p \in Person : teamOf[p] = NoTeam
       /\ \A r \in about : asset[r].team = t1
  /\ stored => /\ manages[p1] /\ ~manages[p2] /\ written \subseteq {<<t1, p1>>}
               /\ missed = {}
               /\ \A t \in TeamId : team[t].admins = {}
               /\ \A r \in about : asset[r].by = p1
               /\ Len(vehicles) = 2 => about = {} /\ ~team[t1].exists

\* Places, the span of work, and what is written about it, one at a time; a
\* place that was replaced is written by one request at a time.
RecordsAreSmall ==
  /\ (\E m \in Trip, k \in End : entry[m][k].row = MaxEntryRows) =>
       \E r \in RecordRequest : request[r] = NoRecord
  /\ comment # {} \/ expense # {} \/ workSpan # [m \in Trip |-> NoSpan] =>
       /\ entry = [m \in Trip |-> [k \in End |-> NoEntry]]
       /\ \A r \in RecordRequest : request[r] = NoRecord
       /\ comment # {} => expense = {}

CertIsSmall ==
  \A c \in CertFirm :
    /\ Cardinality(CertificatesOf(c)) <= 2
    /\ certFaults > 0 => certDay < 4
    /\ steps[c].invited => certDay = 0

\* At most two rows are missing.
PagingIsSmall ==
  Cardinality({r \in ActivityRows : rowState[r] = "absent"}) <= 2

AlertsAreFew ==
  Cardinality(alertRows) <= 2 /\ (staff # Driver => computations = MaxComputations)

\* The second activity is logged once, before anything else happens to the
\* first, and may be cancelled.
HistoryIsShort ==
  /\ acts[a2] # Nil => Len(acts[a2].versions) = 1 /\ acts[a2].dispute = Nil
  /\ span = 1 => /\ \A a \in Act : acts[a] # Nil => acts[a].versions[1].at = 0
                 /\ acts[a2] # Nil => writes < MaxWrites

\* One of two activities may be other than driving, on the first ride.
CardIsSmall ==
  LET others == {i \in DOMAIN driverActs : driverActs[i].type = "support"}
  IN others # {} => /\ Len(driverActs) <= 2 /\ Cardinality(others) = 1
                     /\ \A i \in others : driverActs[i].ride = 1

\* The job begins on the second day.  The second employee is invited on the
\* first or never, joins after the first one, and logs nothing.
MailingIsSmall ==
  /\ mailDay = 0 => mailJob.campaign = 0
  /\ invitees[e2].created = 0 /\ ~invitees[e2].dismissed
  /\ invitees[e2].state = "approved" => invitees[e1].state = "approved"
  /\ active \subseteq {c1} /\ Cardinality(emails) <= 5
  /\ mailDay = 2 => invitees[e1].created < 2 /\ ~invitees[e1].dismissed

-----------------------------------------------------------------------------
\* What is not in the scene begins in one way.
RecordsInit ==
  /\ scene \in Scenes
  /\ CInit /\ employments[e1] # Null
  /\ ControlInit
  /\ RegulationInit
  /\ scene # "regulation" => layout = NothingLogged
  /\ TeamInit
  /\ scene # "team" => \A p \in Person : manages[p]
  /\ RecordInit
  /\ scene # "record" => \A m \in Trip : truckOf[m] = NoTruck
  /\ CertInit
  /\ IF scene = "paging" THEN PagingInit /\ PagingIsSmall
     ELSE /\ rowState = [r \in ActivityRows |-> "absent"]
          /\ PagingInit
          /\ reading.list = "own" /\ reading.size = 1
  /\ SummaryInit /\ HistoryInit /\ TachographInit /\ SignatureInit /\ MailingInit

\* The scene stays, and so does what is not in it.
Keep(s, componentVars) == IF scene = s THEN TRUE ELSE UNCHANGED componentVars

RestStays ==
  /\ UNCHANGED scene
  /\ Keep("employment", cvars) /\ Keep("control", controlVars)
  /\ Keep("regulation", regulationVars) /\ Keep("team", teamVars)
  /\ Keep("record", recordVars) /\ Keep("certificate", certVars)
  /\ Keep("paging", pagingVars) /\ Keep("summary", summaryVars)
  /\ Keep("history", historyVars) /\ Keep("card", tachographVars)
  /\ Keep("signature", signatureVars) /\ Keep("mailing", mailingVars)

RecordsNext ==
  /\ RestStays
  /\ \/ scene = "employment" /\ CNext /\ EmploymentIsSmall'
     \/ scene = "control" /\ ControlNext
     \/ scene = "regulation" /\ RegulationNext
     \/ scene = "team" /\ TeamNext /\ TeamsAreSmall'
     \/ scene = "record" /\ RecordNext /\ RecordsAreSmall'
     \/ scene = "certificate" /\ CertNext /\ CertIsSmall'
     \/ scene = "paging" /\ PagingNext /\ PagingIsSmall'
     \/ scene = "summary" /\ SummaryNext /\ AlertsAreFew'
     \/ scene = "history" /\ HistoryNext /\ HistoryIsShort'
     \/ scene = "card" /\ TachographNext /\ CardIsSmall'
     \/ scene = "signature" /\ SignatureNext
     \/ scene = "mailing" /\ MailingNext /\ MailingIsSmall'

RecordsSpec == RecordsInit /\ [][RecordsNext]_recordsVars

\* What tells two states apart: what is not in the scene never changes.
InScene ==
  <<scene,
    CASE scene = "employment" -> cvars
      [] scene = "control" -> controlVars
      [] scene = "regulation" -> regulationVars
      [] scene = "team" -> teamVars
      [] scene = "record" -> recordVars
      [] scene = "certificate" -> certVars
      [] scene = "paging" -> pagingVars
      [] scene = "summary" -> summaryVars
      [] scene = "history" -> historyVars
      [] scene = "card" -> tachographVars
      [] scene = "signature" -> signatureVars
      [] scene = "mailing" -> mailingVars>>
=============================================================================
