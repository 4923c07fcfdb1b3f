---------------------------- MODULE MissionRecords ----------------------------
(***************************************************************************)
(* What is recorded on a mission beside its activities: where it starts    *)
(* and ends, the kilometers of its vehicle, its expenses and its comments  *)
(* (controllers/location_entry.py, models/location_entry.py,               *)
(* controllers/expenditure.py, domain/expenditure.py,                      *)
(* controllers/comment.py; UpdateMissionVehicle of controllers/mission.py). *)
(*                                                                         *)
(* A request on a place or a reading reads the mission, then writes: two    *)
(* people of a crew, or an administrator, may do so at once.                *)
(***************************************************************************)
EXTENDS Naturals, FiniteSets

CONSTANTS
  Trip,           \* missions
  Truck, NoTruck, \* vehicles
  Spot,           \* addresses
  RecordRequest,  \* bound: the requests under way
  MaxReading,     \* bound: the readings; 0 stands for none
  MaxEntryRows,   \* bound: the rows a place of a mission has had
  LastTripDay,    \* bound: the days of a mission
  Author          \* who comments

ASSUME RecordAssumption ==
  NoTruck \notin Truck /\ {MaxReading, MaxEntryRows, LastTripDay} \subseteq Nat

End == {"start", "end"}

VARIABLES
  truckOf,    \* the vehicle of each mission
  entry,      \* location_entry: at most one row a mission and end
  odometer,   \* last_kilometer_reading of each vehicle
  request,    \* the requests and what they have read
  together,   \* history: the missions two requests recorded on at once
  workSpan,       \* the first and last days of the activities of the worker
  expense,    \* expenditure: the days, dismissed or not
  comment     \* comment: the comments of a mission, by author

recordVars == <<truckOf, entry, odometer, request, together, workSpan, expense, comment>>

NoEntry == [row |-> 0]

NoRecord == [op |-> "none"]

NoSpan == [first |-> 0, last |-> 0]

RecordInit ==
  /\ truckOf \in [Trip -> Truck \cup {NoTruck}]
  /\ entry = [m \in Trip |-> [k \in End |-> NoEntry]]
  /\ odometer = [v \in Truck |-> 0]
  /\ request = [r \in RecordRequest |-> NoRecord]
  /\ together = {}
  /\ workSpan = [m \in Trip |-> NoSpan]
  /\ expense = {} /\ comment = {}

-----------------------------------------------------------------------------
(* Places and readings.                                                     *)

OtherEnd(k) == IF k = "start" THEN "end" ELSE "start"

Reading(e) == IF e.row = 0 THEN 0 ELSE e.km

Ordered(m, k, km) ==
  LET other == Reading(entry[m][OtherEnd(k)]) IN
  other # 0 => IF k = "end" THEN other <= km ELSE km <= other

\* register_kilometer_reading: no reading, or a vehicle and an order.
MayRegister(m, k, km) == km # 0 => truckOf[m] # NoTruck /\ Ordered(m, k, km)

\* What the request will do, "none" when it stops with an answer or an error.
Plan(m, k, spot, km, override) ==
  LET e == entry[m][k] IN
  IF ~MayRegister(m, k, km) THEN "none"
  ELSE IF e.row = 0 THEN "add"
  ELSE IF e.spot = spot THEN IF km = 0 THEN "none" ELSE "read"
  ELSE IF override THEN "replace" ELSE "none"

Under(m) == {r \in RecordRequest : request[r].op # "none" /\ request[r].trip = m}

Starts(r, m, k, op, spot, km) ==
  /\ op # "none" /\ request[r] = NoRecord
  /\ request' = [request EXCEPT ![r] =
       [op |-> op, trip |-> m, at |-> k, spot |-> spot, km |-> km,
        row |-> entry[m][k].row, truck |-> truckOf[m]]]
  /\ together' = IF Under(m) = {} THEN together ELSE together \cup {m}
  /\ UNCHANGED <<truckOf, entry, odometer, workSpan, expense, comment>>

\* override: only an administrator of the company may ask for it.
LogMissionLocation(r, m, k, spot, km, override) ==
  Starts(r, m, k, Plan(m, k, spot, km, override), spot, km)

\* A reading of 0 is answered without a change.
RegisterKilometerAtLocation(r, m, k, km) ==
  /\ entry[m][k].row # 0 /\ km # 0 /\ MayRegister(m, k, km)
  /\ Starts(r, m, k, "read", entry[m][k].spot, km)

\* set_last_kilometer_vehicle: the vehicle the request knows for the mission.
SetLastKilometer(q) ==
  IF q.at = "end" /\ q.km # 0 THEN [odometer EXCEPT ![q.truck] = q.km] ELSE odometer

NewEntry(q, row) == [row |-> row, spot |-> q.spot, km |-> q.km]

Ends(r) == request' = [request EXCEPT ![r] = NoRecord]

\* The rows of the place are still those the request has read.
AsRead(q) == entry[q.trip][q.at].row = q.row

\* Seeded fault: a place may be recorded twice, the last one stays.
MayWriteTwice(q) == q.op = "add" \/ AsRead(q)

\* A delete that finds no row is only a warning: the insert decides.
MayWriteEntry(q) ==
  IF q.op = "add" THEN entry[q.trip][q.at].row = 0 ELSE AsRead(q)

Written(q) ==
  LET e == entry[q.trip][q.at] IN
  IF q.op = "read" THEN [e EXCEPT !.km = q.km] ELSE NewEntry(q, q.row + 1)

StoreRecord(r) ==
  LET q == request[r] IN
  /\ q.op # "none" /\ MayWriteEntry(q) /\ Written(q).row <= MaxEntryRows
  /\ entry' = [entry EXCEPT ![q.trip][q.at] = Written(q)]
  /\ odometer' = SetLastKilometer(q)
  /\ Ends(r)
  /\ UNCHANGED <<truckOf, together, workSpan, expense, comment>>

\* The unique constraint, or an update of a row that is gone.
RecordConflict(r) ==
  /\ request[r].op # "none" /\ ~MayWriteEntry(request[r])
  /\ Ends(r)
  /\ UNCHANGED <<truckOf, entry, odometer, together, workSpan, expense, comment>>

\* A vehicle is changed, never removed.
UpdateMissionVehicle(m, v) ==
  /\ v # truckOf[m]
  /\ truckOf' = [truckOf EXCEPT ![m] = v]
  /\ UNCHANGED <<entry, odometer, request, together, workSpan, expense, comment>>

-----------------------------------------------------------------------------
(* Expenses and comments.  Day 0 stands for no activity, or one that runs.  *)

\* The activities of the worker move: Timeline.
MoveActivities(m, s) ==
  /\ s.first = 0 => s.last = 0
  /\ s.last # 0 => s.first <= s.last
  /\ workSpan' = [workSpan EXCEPT ![m] = s]
  /\ UNCHANGED <<truckOf, entry, odometer, request, together, expense, comment>>

CheckDateIsDuringMission(m, day) ==
  /\ workSpan[m].first # 0 /\ day >= workSpan[m].first
  /\ workSpan[m].last # 0 => day <= workSpan[m].last

\* The company asks for expenses; no duplicate is refused.
LogExpenditure(m, day) ==
  /\ CheckDateIsDuringMission(m, day)
  /\ expense' = expense \cup {[trip |-> m, day |-> day, dismissed |-> FALSE]}
  /\ UNCHANGED <<truckOf, entry, odometer, request, together, workSpan, comment>>

CancelExpenditure(x) ==
  /\ ~x.dismissed
  /\ expense' = (expense \ {x}) \cup {[x EXCEPT !.dismissed = TRUE]}
  /\ UNCHANGED <<truckOf, entry, odometer, request, together, workSpan, comment>>

\* Anyone who may read the mission.
LogComment(m, a) ==
  /\ comment' = comment \cup {[trip |-> m, by |-> a, dismissed |-> FALSE]}
  /\ UNCHANGED <<truckOf, entry, odometer, request, together, workSpan, expense>>

\* Its author only, as often as he likes.
CancelComment(c) ==
  /\ comment' = (comment \ {c}) \cup {[c EXCEPT !.dismissed = TRUE]}
  /\ UNCHANGED <<truckOf, entry, odometer, request, together, workSpan, expense>>

-----------------------------------------------------------------------------

RecordNext ==
  \/ \E r \in RecordRequest :
       \/ \E m \in Trip, k \in End, km \in 0..MaxReading :
            \/ \E spot \in Spot, override \in BOOLEAN :
                 LogMissionLocation(r, m, k, spot, km, override)
            \/ RegisterKilometerAtLocation(r, m, k, km)
       \/ StoreRecord(r)
       \/ RecordConflict(r)
  \/ \E m \in Trip :
       \/ \E v \in Truck : UpdateMissionVehicle(m, v)
       \/ \E s \in [first : 0..LastTripDay, last : 0..LastTripDay] : MoveActivities(m, s)
       \/ \E day \in 1..LastTripDay : LogExpenditure(m, day)
       \/ \E a \in Author : LogComment(m, a)
  \/ \E x \in expense : CancelExpenditure(x)
  \/ \E c \in comment : CancelComment(c)

RecordSpec == RecordInit /\ [][RecordNext]_recordVars

-----------------------------------------------------------------------------
(* An entry has a place and a reading, and a mission with a reading has a   *)
(* vehicle, even when the vehicle changes while a reading is recorded.      *)
RecordTypeOK ==
  /\ truckOf \in [Trip -> Truck \cup {NoTruck}]
  /\ odometer \in [Truck -> 0..MaxReading]
  /\ \A m \in Trip, k \in End : entry[m][k] # NoEntry =>
       /\ entry[m][k] \in [row : 1..MaxEntryRows, spot : Spot, km : 0..MaxReading]
       /\ entry[m][k].km # 0 => truckOf[m] # NoTruck
  /\ expense \subseteq [trip : Trip, day : 1..LastTripDay, dismissed : BOOLEAN]

(* "Kilometer reading at end of mission should be superior to kilometer     *)
(* reading at start" (models/location_entry.py:102): so it is, whatever the *)
(* order of the two readings, their corrections and the replacements of a   *)
(* place, but for the missions that two requests recorded on at once.       *)
ReadingsGrow ==
  \A m \in Trip \ together :
    LET from == Reading(entry[m]["start"])  to == Reading(entry[m]["end"]) IN
    from # 0 /\ to # 0 => from <= to

(* The place a mission starts or ends at is lost or changed only by an      *)
(* administrator who asked for it, and its reading with it: a second phone  *)
(* that sends another place changes nothing (controllers/location_entry.py). *)
StatedPlaceStays ==
  [][\A m \in Trip, k \in End :
       LET e == entry[m][k] IN
       e.row # 0 /\ ~(\E r \in RecordRequest :
                        /\ request[r].op = "replace" /\ request'[r] = NoRecord
                        /\ request[r].trip = m /\ request[r].at = k)
         => entry'[m][k].row = e.row /\ entry'[m][k].spot = e.spot
            /\ (e.km # 0 => entry'[m][k].km # 0)]_recordVars

\* The places and the kilometers of a mission stay in order and are never
\* lost to a request that comes late.
RecordsAreKept == []RecordTypeOK /\ []ReadingsGrow /\ StatedPlaceStays
=============================================================================
