-------------------------------- MODULE Teams --------------------------------
(***************************************************************************)
(* The resources of a company: its teams, with their managers, vehicles,   *)
(* known places and employees, its vehicles and its known places           *)
(* (controllers/team.py, domain/team.py, controllers/vehicle.py,           *)
(* domain/vehicle.py, models/address.py, controllers/location_entry.py).   *)
(*                                                                         *)
(* Requests run at once: each reads what it needs, then writes.  The ORM    *)
(* writes the difference between the list a request has read and the list   *)
(* it wants: a row to insert that is there, or a row to delete that is      *)
(* gone, makes the request fail.                                            *)
(***************************************************************************)
EXTENDS Naturals, Sequences, FiniteSets, SequencesExt

CONSTANTS
  Person,          \* the people of the company
  TeamId, NoTeam,
  Spelling,        \* registration numbers as they are typed
  PlateOf(_),      \* the number without its spaces and dashes
  GivenPlace,      \* places as they are sent: [id, coords]
  Exact,           \* the coordinates a float of the payload equals exactly
  TeamRequest,     \* bound: the requests under way
  MaxVehicles,     \* bound: the rows of the table vehicle
  MaxPlaces        \* bound: the rows of the tables of places

VARIABLES
  manages,     \* who has the admin rights of the company
  team,        \* the teams: their managers, vehicles and known places
  teamOf,      \* the team of each employee
  vehicles,    \* the rows of vehicle
  places,      \* the rows of address, and whether the company knows them
  asset,       \* the requests and what they have read
  written,     \* history: the managers who were told of their team
  missed,      \* history: the managers whom the mail about it did not reach
  overtaken    \* history: managers a team got, or kept, without their rights

teamVars ==
  <<manages, team, teamOf, vehicles, places, asset, written, missed, overtaken>>

GoneTeam == [exists |-> FALSE, admins |-> {}, vehicles |-> {}, places |-> {}]

IdleAsset == [op |-> "none"]

TeamInit ==
  /\ manages \in [Person -> BOOLEAN] /\ \E p \in Person : manages[p]
  /\ team = [t \in TeamId |-> GoneTeam]
  /\ teamOf = [p \in Person |-> NoTeam]
  /\ vehicles = << >> /\ places = << >>
  /\ asset = [r \in TeamRequest |-> IdleAsset]
  /\ written = {} /\ missed = {} /\ overtaken = {}

Answered(r) == asset' = [asset EXCEPT ![r] = IdleAsset]

Refused(r) == Answered(r) /\ UNCHANGED <<manages, team, teamOf, vehicles, places,
                                        written, missed, overtaken>>

Asks(r, q) ==
  /\ asset[r] = IdleAsset
  /\ asset' = [asset EXCEPT ![r] = q]
  /\ UNCHANGED <<manages, team, teamOf, vehicles, places, written, missed, overtaken>>

-----------------------------------------------------------------------------
(* Teams.                                                                   *)

Lists == {"admins", "vehicles", "places"}

\* The rows of the association tables take the change from old to new.
Takes(now, old, new) == old \ new \subseteq now /\ (new \ old) \cap now = {}

Changed(now, old, new) == (now \ (old \ new)) \cup (new \ old)

ChangedTeam(now, old, new) ==
  [exists |-> TRUE, admins |-> Changed(now.admins, old.admins, new.admins),
   vehicles |-> Changed(now.vehicles, old.vehicles, new.vehicles),
   places |-> Changed(now.places, old.places, new.places)]

HasAdminRights(ps) == {p \in ps : manages[p]}

\* Those who become managers are written to, but the author; those who stop
\* and their colleagues as well.
HandleMailToAdminUsers(old, new) == new.admins \ old.admins

\* CreateTeam, UpdateTeam: what the page sent, of the company's rows.
AskTeam(r, t, by, admins, vs, ps, users) ==
  /\ manages[by]
  /\ vs \subseteq DOMAIN vehicles /\ ps \subseteq DOMAIN places
  /\ \A i \in ps : places[i].known # "never"
  /\ Asks(r, [op |-> IF team[t].exists THEN "update" ELSE "create", team |-> t,
              by |-> by, users |-> users, old |-> team[t],
              new |-> [exists |-> TRUE, admins |-> HasAdminRights(admins),
                       vehicles |-> vs, places |-> ps]])

\* The first statement of populate_team and DeleteTeam on the employments.
Unbound(t) == [p \in Person |-> IF teamOf[p] = t THEN NoTeam ELSE teamOf[p]]

\* populate_team and its mails, in one transaction.  A mail that does not
\* arrive, or a failed call of send_batch, leaves the team as it was asked.
PopulateTeam(r, reached) ==
  LET q == asset[r]  t == q.team  now == team[t]
      mails == HandleMailToAdminUsers(q.old, q.new) \ {q.by}
      former == {<<t, p>> : p \in q.old.admins \ q.new.admins}
  IN
  /\ q.op \in {"create", "update"}
  /\ now.exists = (q.op = "update")
  /\ \A l \in Lists : Takes(now[l], q.old[l], q.new[l])
  /\ reached \subseteq mails
  /\ team' = [team EXCEPT ![t] = ChangedTeam(now, q.old, q.new)]
  /\ teamOf' = [p \in Person |-> IF p \in q.users THEN t ELSE Unbound(t)[p]]
  /\ written' = (written \ former) \cup {<<t, p>> : p \in reached \cup {q.by}}
  /\ missed' = (missed \ former) \cup {<<t, p>> : p \in mails \ reached}
  /\ overtaken' = overtaken \cup
       {<<t, p>> : p \in {x \in q.new.admins \ q.old.admins : ~manages[x]}}
  /\ Answered(r)
  /\ UNCHANGED <<manages, vehicles, places>>

TeamConflict(r) ==
  LET q == asset[r]  now == team[q.team] IN
  /\ q.op \in {"create", "update"}
  /\ \/ now.exists # (q.op = "update")
     \/ \E l \in Lists : ~Takes(now[l], q.old[l], q.new[l])
  /\ Refused(r)

AskDeleteTeam(r, t, by) ==
  /\ manages[by] /\ team[t].exists
  /\ Asks(r, [op |-> "delete", team |-> t, by |-> by, old |-> team[t],
              members |-> {p \in Person : teamOf[p] = t}])

\* The mails leave before the rows are deleted.
DeleteTeam(r) ==
  LET q == asset[r]  t == q.team
      deleted == team[t] = q.old /\ \A p \in Person : teamOf[p] = t => p \in q.members
  IN
  /\ q.op = "delete"
  /\ team' = IF deleted THEN [team EXCEPT ![t] = GoneTeam] ELSE team
  /\ teamOf' = IF deleted THEN Unbound(t) ELSE teamOf
  /\ written' = IF deleted THEN {w \in written : w[1] # t} ELSE written
  /\ missed' = IF deleted THEN {w \in missed : w[1] # t} ELSE missed
  /\ overtaken' = IF deleted THEN {w \in overtaken : w[1] # t} ELSE overtaken
  /\ Answered(r)
  /\ UNCHANGED <<manages, vehicles, places>>

\* ChangeEmployeeTeam
ChangeEmployeeTeam(p, t) ==
  /\ t # NoTeam => team[t].exists
  /\ teamOf' = [teamOf EXCEPT ![p] = t]
  /\ UNCHANGED <<manages, team, vehicles, places, asset, written, missed, overtaken>>

\* Seeded fault: only the first team is left.
LeavesOneTeam(p) ==
  [t \in TeamId |-> IF t = CHOOSE x \in TeamId : TRUE
                    THEN [team[t] EXCEPT !.admins = @ \ {p}] ELSE team[t]]

RemoveAdminFromTeams(p) == [t \in TeamId |-> [team[t] EXCEPT !.admins = @ \ {p}]]

\* ChangeEmployeeRole: never one's own role.
ChangeEmployeeRoleInTeams(p, admin) ==
  /\ manages[p] # admin /\ \E by \in Person \ {p} : manages[by]
  /\ manages' = [manages EXCEPT ![p] = admin]
  /\ team' = IF admin THEN team ELSE RemoveAdminFromTeams(p)
  /\ overtaken' = {w \in overtaken : w[2] # p}
  /\ UNCHANGED <<teamOf, vehicles, places, asset, written, missed>>

\* The employment that gives the rights ends, is cancelled or suspended, or
\* another begins: none of these looks at the teams.
EmploymentTurns(p) ==
  /\ manages' = [manages EXCEPT ![p] = ~@]
  /\ overtaken' = {w \in overtaken : w[2] # p}
       \cup {<<t, p>> : t \in {u \in TeamId : manages[p] /\ p \in team[u].admins}}
  /\ UNCHANGED <<team, teamOf, vehicles, places, asset, written, missed>>

-----------------------------------------------------------------------------
(* Vehicles.                                                                *)

\* The first row with the same plate, or 0.
FindVehicle(n) ==
  SelectInSeq(vehicles, LAMBDA v : PlateOf(v.number) = PlateOf(n))

\* The number of a new mission, typed by an employee: his team gets it too.
TeamToExtend(who) ==
  IF who \in Person /\ teamOf[who] # NoTeam
  THEN {t \in {teamOf[who]} : team[t].vehicles # {}} ELSE {}

\* find_or_create_vehicle, for CreateVehicle, CreateMission, UpdateMissionVehicle
AskVehicle(r, n, who) ==
  LET found == FindVehicle(n) IN
  Asks(r, [op |-> "vehicle", number |-> n, found |-> found, seen |-> Len(vehicles),
           teams |-> {t \in TeamToExtend(who) : found \notin team[t].vehicles}])

NumberIsFree(n, own) == \A i \in DOMAIN vehicles : vehicles[i].number = n => i = own

StoreVehicle(r) ==
  LET q == asset[r]  row == IF q.found = 0 THEN Len(vehicles) + 1 ELSE q.found IN
  /\ q.op = "vehicle"
  /\ NumberIsFree(q.number, q.found) /\ row <= MaxVehicles
  /\ \A t \in q.teams : team[t].exists /\ row \notin team[t].vehicles
  /\ vehicles' = IF q.found = 0
                 THEN Append(vehicles, [number |-> q.number, terminated |-> FALSE,
                                        seen |-> q.seen])
                 ELSE [vehicles EXCEPT ![row].number = q.number,
                                       ![row].terminated = FALSE]
  /\ team' = [t \in TeamId |-> IF t \in q.teams
                               THEN [team[t] EXCEPT !.vehicles = @ \cup {row}]
                               ELSE team[t]]
  /\ Answered(r)
  /\ UNCHANGED <<manages, teamOf, places, written, missed, overtaken>>

VehicleConflict(r) ==
  LET q == asset[r] IN
  /\ q.op = "vehicle"
  /\ \/ ~NumberIsFree(q.number, q.found)
     \/ \E t \in q.teams : ~team[t].exists \/ q.found \in team[t].vehicles
  /\ Refused(r)

\* TerminateVehicle, remove_vehicle_from_all_teams
TerminateVehicle(i) ==
  /\ vehicles' = [vehicles EXCEPT ![i].terminated = TRUE]
  /\ team' = [t \in TeamId |-> [team[t] EXCEPT !.vehicles = @ \ {i}]]
  /\ UNCHANGED <<manages, teamOf, places, asset, written, missed, overtaken>>

-----------------------------------------------------------------------------
(* Known places.  A stored coordinate is decimal, the one sent a binary     *)
(* float: they compare equal only when the float is exact, and the test of  *)
(* get_or_create takes equal for different, different for equal.            *)

SameCoordinates(stored, sent) == ~(stored = sent /\ sent \in Exact)

\* Address.get_or_create: a row, or 0 for a new one.
GetOrCreate(g) ==
  SelectInSeq(places, LAMBDA a : a.id = g.id /\ SameCoordinates(a.coords, g.coords))

NewPlace(g, known) == Append(places, [id |-> g.id, coords |-> g.coords,
                                      known |-> known])

\* LogMissionLocation with a place of its own.
LogMissionPlace(g) ==
  LET found == GetOrCreate(g) IN
  /\ found = 0 => Len(places) < MaxPlaces
  /\ places' = IF found = 0 THEN NewPlace(g, "never") ELSE places
  /\ UNCHANGED <<manages, team, teamOf, vehicles, asset, written, missed, overtaken>>

AskPlace(r, g) ==
  LET found == GetOrCreate(g) IN
  Asks(r, [op |-> "place", given |-> g, found |-> found,
           back |-> IF found = 0 THEN FALSE ELSE places[found].known = "dismissed"])

\* Only a dismissed row comes back; a second row of one address is refused.
CreateCompanyKnownAddress(r) ==
  LET q == asset[r] IN
  /\ q.op = "place"
  /\ q.found = 0 => Len(places) < MaxPlaces
  /\ q.found # 0 => q.back \/ places[q.found].known = "never"
  /\ places' = IF q.found = 0
               THEN NewPlace(q.given, "yes")
               ELSE [places EXCEPT ![q.found].known = "yes"]
  /\ Answered(r)
  /\ UNCHANGED <<manages, team, teamOf, vehicles, written, missed, overtaken>>

PlaceConflict(r) ==
  LET q == asset[r] IN
  /\ q.op = "place" /\ q.found # 0
  /\ ~q.back /\ places[q.found].known # "never"
  /\ Refused(r)

\* TerminateCompanyKnownAddress, remove_known_address_from_all_teams
TerminateCompanyKnownAddress(i) ==
  /\ places[i].known # "never"
  /\ places' = [places EXCEPT ![i].known = "dismissed"]
  /\ team' = [t \in TeamId |-> [team[t] EXCEPT !.places = @ \ {i}]]
  /\ UNCHANGED <<manages, teamOf, vehicles, asset, written, missed, overtaken>>

-----------------------------------------------------------------------------

TeamStep(t) ==
  \/ \E r \in TeamRequest, by \in Person, admins, users \in SUBSET Person,
        vs \in SUBSET DOMAIN vehicles, ps \in SUBSET DOMAIN places :
        AskTeam(r, t, by, admins, vs, ps, users)
  \/ \E r \in TeamRequest, by \in Person : AskDeleteTeam(r, t, by)
  \/ \E p \in Person : ChangeEmployeeTeam(p, t)

TeamNext ==
  \/ \E t \in TeamId : TeamStep(t)
  \/ \E p \in Person : ChangeEmployeeTeam(p, NoTeam)
  \/ \E p \in Person, admin \in BOOLEAN : ChangeEmployeeRoleInTeams(p, admin)
  \/ \E p \in Person : EmploymentTurns(p)
  \/ \E r \in TeamRequest, n \in Spelling, who \in Person \cup {NoTeam} : AskVehicle(r, n, who)
  \/ \E r \in TeamRequest, g \in GivenPlace : AskPlace(r, g)
  \/ \E r \in TeamRequest :
       \/ \E reached \in SUBSET Person : PopulateTeam(r, reached)
       \/ TeamConflict(r) \/ DeleteTeam(r)
       \/ StoreVehicle(r) \/ VehicleConflict(r)
       \/ CreateCompanyKnownAddress(r) \/ PlaceConflict(r)
  \/ \E g \in GivenPlace : LogMissionPlace(g)
  \/ \E i \in DOMAIN vehicles : TerminateVehicle(i)
  \/ \E i \in DOMAIN places : TerminateCompanyKnownAddress(i)

TeamSpec == TeamInit /\ [][TeamNext]_teamVars

-----------------------------------------------------------------------------
(* A team that does not exist keeps nothing, and a team holds rows that     *)
(* exist: the foreign keys of the association tables.                       *)
TeamsTypeOK ==
  /\ manages \in [Person -> BOOLEAN]
  /\ teamOf \in [Person -> TeamId \cup {NoTeam}]
  /\ \A p \in Person : teamOf[p] # NoTeam => team[teamOf[p]].exists
  /\ \A t \in TeamId :
       /\ team[t].admins \subseteq Person
       /\ team[t].vehicles \subseteq DOMAIN vehicles
       /\ team[t].places \subseteq {i \in DOMAIN places : places[i].known # "never"}
       /\ ~team[t].exists => team[t] = GoneTeam
  /\ \A i, j \in DOMAIN vehicles : vehicles[i].number = vehicles[j].number => i = j

(* Whoever manages a team was told of it since he does, set himself there, *)
(* or is one whom the mail did not reach: nobody becomes a manager by an     *)
(* update that overlaps another and writes to nobody (domain/team.py:55).    *)
ManagersAreTold ==
  \A t \in TeamId : \A p \in team[t].admins : <<t, p>> \in written \cup missed

(* Whoever has lost the admin rights by a change of his role manages no      *)
(* team, unless an update of the team had read his rights before he lost     *)
(* them (domain/team.py:127).  Who lost them with his employment stays in    *)
(* the teams he was in: they are left out until his rights turn again.       *)
DemotedManageNothing ==
  \A t \in TeamId : \A p \in team[t].admins : manages[p] \/ <<t, p>> \in overtaken

(* A plate has a second row only when its request had looked for the plate  *)
(* before the first row was there: a vehicle that was withdrawn comes back  *)
(* however its number is typed (domain/vehicle.py:54).                      *)
VehicleIsFoundAgain ==
  \A i, j \in DOMAIN vehicles :
    i < j /\ PlateOf(vehicles[i].number) = PlateOf(vehicles[j].number)
      => vehicles[j].seen < i

\* A manager was told of his team but for a lost mail, and has the rights but
\* for an employment that is over; a vehicle is found again under every
\* spelling: requests that overlap have no other effect.
TeamsAreKept ==
  /\ TeamsTypeOK
  /\ ManagersAreTold
  /\ DemotedManageNothing
  /\ VehicleIsFoundAgain
=============================================================================
