---------------------------- MODULE Anonymization ----------------------------
(***************************************************************************)
(* The nightly job of cron.json: users without a recent trace are          *)
(* anonymized in place, then rows older than the cut-off are copied to the *)
(* anonymized tables and marked, then the marked originals are deleted.    *)
(* The three commands are separate processes that share the table          *)
(* temp_id_mapping; each commits its work and cleans the table in two      *)
(* transactions.  Employees work on while the job runs, and the job may be *)
(* killed at any time.                                                     *)
(*                                                                         *)
(* A mission stands for itself and its activities, ends, validations and   *)
(* locations, a company for its teams, vehicles and addresses, an          *)
(* employment for its e-mails, a user for his agreements, alerts and       *)
(* tokens.  Two tables follow none of them: the missions that wait for the *)
(* automatic validation and the software of a company.  Controllers and    *)
(* their controls are left out.                                            *)
(***************************************************************************)
EXTENDS Integers, FiniteSets

CONSTANTS
  Company, Employment, Mission, User,
  Place,          \* the company, user and rights of each employment
  MaxCrashes      \* bound: how often the job is killed

\* temp_id_mapping tells the rows of the tables apart.
ASSUME AnonymizationAssumption ==
  /\ IsFiniteSet(User) /\ User # {} /\ Company # {}
  /\ Company \cap Employment = {} /\ Company \cap Mission = {} /\ Employment \cap Mission = {}
  /\ Place \in [Employment -> [company : Company, user : User, admin : BOOLEAN]]
  /\ MaxCrashes \in Nat

VARIABLES
  companies,    \* table company: live or gone
  employments,  \* table employment
  missions,     \* table mission
  users,        \* table user: 0 has its first id, n > 0 the id -n
  queue,        \* the missions that mission_auto_validation names
  clients,      \* third_party_client_company: of each company, no row, its
                \* software, or the user who dismissed it
  mapping,      \* table temp_id_mapping
  copies,       \* the anonymized tables, with the user each row was of
  sequence,     \* negative_user_id_seq
  night,        \* what the job does next
  crashes       \* bound: how often it has been killed

pins == <<queue, clients>>

anonVars == <<companies, employments, missions, users, pins, mapping, copies,
              sequence, night, crashes>>

tables == <<companies, employments, missions, users, pins>>

NoMapping == [users |-> [u \in User |-> 0], of |-> {}, marked |-> {}]

LiveMissions == {m \in Mission : missions[m].is = "live"}
LiveEmployments == {e \in Employment : employments[e].is = "live"}
LiveCompanies == {c \in Company : companies[c] = "live"}

EmploymentsOf(u) == {e \in LiveEmployments : employments[e].user = u}
EmploymentsIn(C) == {e \in LiveEmployments : employments[e].company \in C}
MissionsIn(C) == {m \in LiveMissions : missions[m].company \in C}

-----------------------------------------------------------------------------
(* What the job looks for.  The companies, employments and users of the    *)
(* model are older than the cut-off; a mission may be more recent.         *)

\* find_missions_before_cutoff.
OldMissions == {m \in LiveMissions : missions[m].old}

\* find_inactive_companies_by_employment: ended and dismissed are both needed.
InactiveByEmployment ==
  {c \in LiveCompanies : \A e \in EmploymentsIn({c}) :
     employments[e].ended /\ employments[e].dismissed}

\* find_inactive_companies_by_missions.
InactiveByMissions ==
  {c \in LiveCompanies : MissionsIn({c}) \subseteq OldMissions}

Inactive == InactiveByEmployment \cup InactiveByMissions

\* find_terminated_employments_before_cutoff: whenever it ended.
LongTerminated ==
  {e \in LiveEmployments : /\ employments[e].ended \/ employments[e].dismissed
                           /\ employments[e].company \notin Inactive}

HasRecentTrace(u) ==
  \E m \in LiveMissions : missions[m].user = u /\ ~missions[m].old

\* find_inactive_users: one employment without admin rights is enough.
InactiveUsers ==
  {u \in User :
     /\ users[u].status = "active"
     /\ ~HasRecentTrace(u)
     /\ \/ \E e \in EmploymentsOf(u) : ~employments[e].admin
        \/ /\ \E e \in EmploymentsOf(u) : employments[e].admin
           /\ \A e \in EmploymentsOf(u) :
                employments[e].admin => employments[e].company \in Inactive}

\* find_anonymized_users.
AnonymizedUsers ==
  {u \in User : users[u].status = "anonymized" /\ users[u].id = 0}

-----------------------------------------------------------------------------
AnonymizationInit ==
  /\ companies = [c \in Company |-> "live"]
  /\ employments = [e \in Employment |->
       [is |-> "live", company |-> Place[e].company, user |-> Place[e].user,
        admin |-> Place[e].admin, ended |-> FALSE, dismissed |-> FALSE]]
  /\ missions = [m \in Mission |->
       [is |-> "none", company |-> CHOOSE c \in Company : TRUE,
        user |-> CHOOSE u \in User : TRUE, old |-> FALSE]]
  /\ users = [u \in User |-> [status |-> "active", id |-> 0]]
  /\ queue = {}
  /\ clients = [c \in Company |-> "none"]
  /\ mapping = NoMapping
  /\ copies = {}
  /\ sequence = 0
  /\ night = "day"
  /\ crashes = 0

(* The application.                                                        *)

NewMission(m, e) ==
  /\ missions[m].is = "none"
  /\ e \in LiveEmployments
  /\ ~employments[e].ended /\ ~employments[e].dismissed
  /\ users[employments[e].user].status = "active"
  /\ missions' = [missions EXCEPT ![m] =
       [is |-> "live", company |-> employments[e].company,
        user |-> employments[e].user, old |-> FALSE]]
  /\ queue' = queue \cup {m}
  /\ UNCHANGED <<companies, employments, users, clients, mapping, copies, sequence, night, crashes>>

GrowOld(m) ==
  /\ missions[m].is = "live" /\ ~missions[m].old
  /\ missions' = [missions EXCEPT ![m].old = TRUE]
  /\ UNCHANGED <<companies, employments, users, pins, mapping, copies, sequence, night, crashes>>

\* The mission is validated; that of a day off stays in the queue.
LeaveQueue(m) ==
  /\ m \in queue
  /\ queue' = queue \ {m}
  /\ UNCHANGED <<companies, employments, missions, users, clients, mapping,
                 copies, sequence, night, crashes>>

SetClient(c, client) ==
  /\ clients' = [clients EXCEPT ![c] = client]
  /\ UNCHANGED <<companies, employments, missions, users, queue, mapping,
                 copies, sequence, night, crashes>>

\* Dismissing the link of a company with a software keeps the row.
LinkSoftware(e) ==
  /\ e \in LiveEmployments /\ employments[e].admin
  /\ ~employments[e].ended /\ ~employments[e].dismissed
  /\ IF clients[employments[e].company] = "none"
     THEN SetClient(employments[e].company, "linked")
     ELSE SetClient(employments[e].company, employments[e].user)

\* Ending keeps the row, so does dismissing it.
EndOrDismiss(e) ==
  /\ e \in LiveEmployments
  /\ \/ employments' = [employments EXCEPT ![e].ended = TRUE]
     \/ employments' = [employments EXCEPT ![e].dismissed = TRUE]
  /\ UNCHANGED <<companies, missions, users, pins, mapping, copies, sequence, night, crashes>>

-----------------------------------------------------------------------------
(* The job.  A command that refuses to run exits normally, so the next one *)
(* of the chain is run.                                                    *)

\* get_user_negative_id: the id of the mapping, or the next of the sequence.
Numbered(U) ==
  LET new == {u \in U : mapping.users[u] = 0}
      number == CHOOSE f \in [new -> sequence + 1 .. sequence + Cardinality(new)] :
                  \A u, v \in new : f[u] = f[v] => u = v
  IN [u \in User |-> IF u \in new THEN number[u] ELSE mapping.users[u]]

AfterNumbering(U) ==
  sequence + Cardinality({u \in U : mapping.users[u] = 0})

StartNight ==
  /\ night = "day"
  /\ night' = "users"
  /\ UNCHANGED <<tables, mapping, copies, sequence, crashes>>

\* handle_tables_cleaning without force_clean.
MayStart == mapping = NoMapping

AfterRefusal == IF night = "users" THEN "migrate" ELSE "delete"

Refuse ==
  /\ night \in {"users", "migrate"} /\ ~MayStart
  /\ night' = AfterRefusal
  /\ UNCHANGED <<tables, mapping, copies, sequence, crashes>>

\* anonymize_users_in_place.
AnonymizedInPlace(U) ==
  [u \in User |-> IF u \in U THEN [users[u] EXCEPT !.status = "anonymized"] ELSE users[u]]

\* anonymize_users --no-dry-run.
AnonymizeUsers ==
  /\ night = "users" /\ MayStart
  /\ users' = AnonymizedInPlace(InactiveUsers)
  /\ mapping' = [NoMapping EXCEPT !.users = Numbered(InactiveUsers)]
  /\ sequence' = AfterNumbering(InactiveUsers)
  /\ night' = "clean users"
  /\ UNCHANGED <<companies, employments, missions, pins, copies, crashes>>

EmploymentsToCopy ==
  EmploymentsIn(Inactive) \cup LongTerminated
    \cup UNION {EmploymentsOf(u) : u \in AnonymizedUsers}

\* Seeded fault: the missions of an ended employment go with it.
MissionsToCopyOfEnded ==
  MissionsIn(Inactive) \cup OldMissions
    \cup {m \in LiveMissions : \E e \in LongTerminated :
           employments[e].user = missions[m].user}

MissionsToCopy == MissionsIn(Inactive) \cup OldMissions

\* What a dry run copies and marks.
ToCopy ==
  [companies |-> Inactive, employments |-> EmploymentsToCopy, missions |-> MissionsToCopy]

\* The users of the rows that are copied.
OwnersOf(rows) ==
  {employments[e].user : e \in rows.employments}
    \cup {missions[m].user : m \in rows.missions}

\* mark_for_deletion.
Marks(rows) == rows.companies \cup rows.employments \cup rows.missions

NumberOfCopies(r) == Cardinality({x \in copies : x.row = r})

CopyOf(r, u, ids) ==
  [row |-> r, nth |-> NumberOfCopies(r) + 1, owner |-> u, id |-> ids[u]]

EmploymentCopies(rows, ids) ==
  {CopyOf(e, employments[e].user, ids) : e \in rows.employments}

MissionCopies(rows, ids) ==
  {CopyOf(m, missions[m].user, ids) : m \in rows.missions}

\* migrate_anonymize_data, a dry run: nothing is deleted.
Migrate ==
  LET U == AnonymizedUsers \cup OwnersOf(ToCopy)
  IN /\ night = "migrate" /\ MayStart
     /\ mapping' = [users |-> Numbered(U), of |-> AnonymizedUsers, marked |-> Marks(ToCopy)]
     /\ copies' = copies \cup EmploymentCopies(ToCopy, Numbered(U))
                               \cup MissionCopies(ToCopy, Numbered(U))
     /\ sequence' = AfterNumbering(U)
     /\ night' = "delete"
     /\ UNCHANGED <<tables, crashes>>

\* delete_user_dependencies: every employment the user has at this moment.
DoomedWithUsers == UNION {EmploymentsOf(u) : u \in mapping.of}

Doomed == mapping.marked \cup DoomedWithUsers

\* The foreign keys: missions, employments and companies are deleted in this
\* order, before what belongs to the users, and with neither the queue nor the
\* software of a company.
KeysHold ==
  /\ mapping.marked \cap queue = {}
  /\ \A c \in mapping.marked \cap Company :
       /\ (MissionsIn({c}) \cup EmploymentsIn({c})) \subseteq mapping.marked
       /\ clients[c] = "none"

Gone(table, S) == [r \in DOMAIN table |->
  IF r \in S /\ table[r].is = "live" THEN [table[r] EXCEPT !.is = "gone"] ELSE table[r]]

CompaniesWithout(S) == [c \in Company |-> IF c \in S THEN "gone" ELSE companies[c]]

\* update_anonymized_users_with_negative_ids.
WithNegativeIds ==
  [u \in User |-> IF u \in mapping.of THEN [users[u] EXCEPT !.id = mapping.users[u]]
                                     ELSE users[u]]

\* delete_dismissed_third_party_client_company.
ClientsWithout(U) ==
  [c \in Company |-> IF clients[c] \in U THEN "none" ELSE clients[c]]

\* migrate_anonymize_data --delete-only.
Delete ==
  /\ night = "delete" /\ mapping # NoMapping /\ KeysHold
  /\ companies' = CompaniesWithout(Doomed)
  /\ employments' = Gone(employments, Doomed)
  /\ missions' = Gone(missions, Doomed)
  /\ users' = WithNegativeIds
  /\ clients' = ClientsWithout(mapping.of)
  /\ night' = "clean"
  /\ UNCHANGED <<queue, mapping, copies, sequence, crashes>>

\* Without mappings there is nothing to do; a key that fails rolls everything
\* back, and the mappings are preserved.
DeleteNothing ==
  /\ night = "delete" /\ (mapping = NoMapping \/ ~KeysHold)
  /\ night' = "day"
  /\ UNCHANGED <<tables, mapping, copies, sequence, crashes>>

\* handle_final_cleanup: a dry run keeps its mappings.
Clean ==
  /\ night \in {"clean users", "clean"}
  /\ mapping' = NoMapping
  /\ night' = IF night = "clean users" THEN "migrate" ELSE "day"
  /\ UNCHANGED <<tables, copies, sequence, crashes>>

Crash ==
  /\ night # "day" /\ crashes < MaxCrashes
  /\ night' = "day"
  /\ crashes' = crashes + 1
  /\ UNCHANGED <<tables, mapping, copies, sequence>>

-----------------------------------------------------------------------------
JobStep == StartNight \/ Refuse \/ AnonymizeUsers \/ Migrate \/ Delete
             \/ DeleteNothing \/ Clean

AnonymizationNext ==
  \/ JobStep
  \/ Crash
  \/ \E m \in Mission :
        GrowOld(m) \/ LeaveQueue(m) \/ \E e \in Employment : NewMission(m, e)
  \/ \E e \in Employment : EndOrDismiss(e) \/ LinkSoftware(e)

\* The cron runs the job every night.
AnonymizationSpec ==
  AnonymizationInit /\ [][AnonymizationNext]_anonVars /\ WF_anonVars(JobStep)

-----------------------------------------------------------------------------
(* Properties.                                                             *)

AnonymizationTypeOK ==
  /\ companies \in [Company -> {"live", "gone"}]
  /\ employments \in [Employment ->
       [is : {"live", "gone"}, company : Company, user : User, admin : BOOLEAN,
        ended : BOOLEAN, dismissed : BOOLEAN]]
  /\ missions \in [Mission ->
       [is : {"none", "live", "gone"}, company : Company, user : User, old : BOOLEAN]]
  /\ users \in [User -> [status : {"active", "anonymized"}, id : Nat]]
  /\ queue \subseteq Mission
  /\ clients \in [Company -> {"none", "linked"} \cup User]
  /\ mapping.users \in [User -> 0..sequence] /\ mapping.of \subseteq User
  /\ mapping.marked \subseteq Company \cup Employment \cup Mission
  /\ \A x \in copies : x.id \in 1..sequence
  /\ night \in {"day", "users", "clean users", "migrate", "delete", "clean"}
  /\ crashes \in 0..MaxCrashes

\* The statistics on anonymized rows count every deleted row once: however
\* the nights are cut short, no original is deleted without a copy and none is
\* copied twice (handle_tables_cleaning, handle_final_cleanup).
CopiedOnce ==
  /\ \A r \in Employment \cup Mission : NumberOfCopies(r) <= 1
  /\ \A e \in Employment : employments[e].is = "gone" => NumberOfCopies(e) = 1
  /\ \A m \in Mission : missions[m].is = "gone" => NumberOfCopies(m) = 1

\* "Only entities explicitly marked as deletion targets will be deleted": a
\* mission goes for its age or with its company, though marks may be nights
\* old when they are followed (delete_anonymized_data).
RecentMissionsStay ==
  [][\A m \in Mission :
       missions[m].is = "live" /\ missions'[m].is = "gone" =>
         missions[m].old \/ companies'[missions[m].company] = "gone"]_anonVars

\* What was marked cannot go: a company that got a mission since, or that has
\* had a software, a mission still in the queue.  The deletion fails night after
\* night, and the mappings it leaves stop the other commands.
Stuck == mapping # NoMapping /\ ~KeysHold

\* A mission past the cut-off is deleted in the end, however often the job is
\* killed, unless a key that no command removes refuses the deletion for ever:
\* each night is then rolled back whole (delete_anonymized_data).
ExpiredIsDeleted ==
  \A m \in Mission :
    \/ (missions[m].is = "live" /\ missions[m].old) ~> (missions[m].is = "gone")
    \/ <>[]Stuck

\* Rows are copied once before they are deleted, and deleted for their age or
\* with their company only, though any night may be cut short.
AnonymizationIsSafe ==
  /\ []AnonymizationTypeOK
  /\ []CopiedOnce
  /\ RecentMissionsStay
=============================================================================
