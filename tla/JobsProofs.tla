----------------------------- MODULE JobsProofs -----------------------------
(***************************************************************************)
(* Proofs about the jobs that run beside the requests: the anonymization   *)
(* of the tables, the exports, the deals that the sales team follows, and  *)
(* the companies that the INSEE says have ceased.  They share no state;    *)
(* each part proves what its component promises at every moment, for every *)
(* set of rows and whatever fails.  What they promise in the end is left   *)
(* to the run.                                                             *)
(***************************************************************************)
EXTENDS Anonymization, Exports, BrevoFunnel, CompanyRegistry,
        FiniteSetTheorems, FunctionTheorems, SequenceTheorems, TLAPS

-----------------------------------------------------------------------------
(* Anonymization.                                                          *)

EmploymentOriginal ==
  [is : {"live", "gone"}, company : Company, user : User, admin : BOOLEAN,
   ended : BOOLEAN, dismissed : BOOLEAN]

MissionOriginal ==
  [is : {"none", "live", "gone"}, company : Company, user : User, old : BOOLEAN]

UserOriginal == [status : {"active", "anonymized"}, id : Nat]

Originals == Employment \cup Mission

StateOf(r) == IF r \in Employment THEN employments[r].is ELSE missions[r].is

Copied(r) == \E x \in copies : x.row = r

TablesKept ==
  /\ companies \in [Company -> {"live", "gone"}]
  /\ employments \in [Employment -> EmploymentOriginal]
  /\ missions \in [Mission -> MissionOriginal]
  /\ users \in [User -> UserOriginal]
  /\ sequence \in Nat
  /\ night \in {"day", "users", "clean users", "migrate", "delete", "clean"}
  /\ crashes \in 0..MaxCrashes

MappingKept ==
  /\ mapping = [users |-> mapping.users, of |-> mapping.of, marked |-> mapping.marked]
  /\ mapping.users \in [User -> 0..sequence]
  /\ mapping.of \subseteq User
  /\ mapping.marked \subseteq Company \cup Originals
  /\ \A r \in mapping.marked \cap Originals : StateOf(r) # "none"
  /\ night = "clean users" => mapping.marked = {}
  /\ night = "clean" => \A r \in mapping.marked \cap Originals : StateOf(r) = "gone"

CopiesKept ==
  /\ \A x \in copies : x.id \in 1..sequence
  /\ \A x, y \in copies : x.row = y.row => x = y
  /\ \A r \in Originals : Copied(r) <=> (StateOf(r) = "gone" \/ r \in mapping.marked)

MarksKept ==
  /\ \A u \in mapping.of : EmploymentsOf(u) \subseteq mapping.marked
  /\ \A m \in mapping.marked \cap Mission :
       missions[m].is = "live" => missions[m].old \/ missions[m].company \in mapping.marked

AnonymizationInv == TablesKept /\ MappingKept /\ CopiesKept /\ MarksKept

PinsKept == queue \subseteq Mission /\ clients \in [Company -> {"none", "linked"} \cup User]

LEMMA RowsTellTheirState ==
  /\ \A e \in Employment : StateOf(e) = employments[e].is
  /\ \A m \in Mission : StateOf(m) = missions[m].is
BY AnonymizationAssumption DEF StateOf

\* get_user_negative_id gives each user of U a number, old or new.
LEMMA NumberedIsWhole ==
  ASSUME NEW U \in SUBSET User, mapping.users \in [User -> 0..sequence], sequence \in Nat
  PROVE  /\ AfterNumbering(U) \in Nat /\ sequence <= AfterNumbering(U)
         /\ Numbered(U) \in [User -> 0..AfterNumbering(U)]
         /\ \A u \in U : Numbered(U)[u] \in 1..AfterNumbering(U)
<1>1. PICK ids, top : ids = mapping.users /\ top = sequence
  OBVIOUS
<1>2. PICK new : new = {u \in U : ids[u] = 0}
  OBVIOUS
<1>3. IsFiniteSet(new)
  <2>1. IsFiniteSet(User) /\ new \in SUBSET User
    BY <1>2, AnonymizationAssumption
  <2>2. QED BY <2>1, FS_Subset
<1>4. PICK k : k = Cardinality(new)
  OBVIOUS
<1>5. k \in Nat /\ ExistsBijection(1..k, new)
  BY <1>3, <1>4, FS_CardinalityType
<1>6. PICK b : b \in Bijection(1..k, new)
  BY <1>5 DEF ExistsBijection
<1>7. /\ b \in [1..k -> new] /\ \A u \in new : \E i \in 1..k : b[i] = u
  BY <1>6 DEF Bijection, Surjection, Injection
<1>8. PICK g : g = [u \in new |-> top + CHOOSE i \in 1..k : b[i] = u]
  OBVIOUS
<1>9. \A u \in new : \E i \in 1..k : g[u] = top + i /\ b[i] = u
  BY <1>7, <1>8
<1>10. g \in [new -> top + 1 .. top + k] /\ \A u, v \in new : g[u] = g[v] => u = v
  <2>1. top \in Nat
    BY <1>1
  <2>2. \A u \in new : g[u] \in top + 1 .. top + k
    BY <2>1, <1>5, <1>9
  <2>3. ASSUME NEW u \in new, NEW v \in new, g[u] = g[v] PROVE u = v
    <3>1. PICK i \in 1..k : g[u] = top + i /\ b[i] = u
      BY <1>9
    <3>2. PICK j \in 1..k : g[v] = top + j /\ b[j] = v
      BY <1>9
    <3>3. i = j
      BY <3>1, <3>2, <2>1, <2>3
    <3>4. QED BY <3>1, <3>2, <3>3
  <2>4. g \in [new -> top + 1 .. top + k]
    BY <2>2, <1>8
  <2>5. QED BY <2>3, <2>4
<1>11. PICK number : number = CHOOSE f \in [new -> top + 1 .. top + k] :
                                \A u, v \in new : f[u] = f[v] => u = v
  OBVIOUS
<1>12. number \in [new -> top + 1 .. top + k]
  BY <1>10, <1>11
<1>13. Numbered(U) = [u \in User |-> IF u \in new THEN number[u] ELSE ids[u]]
  BY <1>1, <1>2, <1>4, <1>11 DEF Numbered
<1>14. AfterNumbering(U) = top + k
  BY <1>1, <1>2, <1>4 DEF AfterNumbering
<1>15. ids \in [User -> 0..top] /\ top \in Nat
  BY <1>1
<1>16. \A u \in User : Numbered(U)[u] \in 0..(top + k)
  BY <1>2, <1>5, <1>12, <1>13, <1>15
<1>17. \A u \in U : Numbered(U)[u] \in 1..(top + k)
  BY <1>2, <1>5, <1>12, <1>13, <1>15
<1>18. QED BY <1>1, <1>5, <1>13, <1>14, <1>15, <1>16, <1>17

LEMMA NightBegins == AnonymizationInit => AnonymizationInv
<1> SUFFICES ASSUME AnonymizationInit PROVE AnonymizationInv
  OBVIOUS
<1>1. /\ (CHOOSE c \in Company : TRUE) \in Company
      /\ (CHOOSE u \in User : TRUE) \in User
  BY AnonymizationAssumption
<1>2. TablesKept
  BY <1>1, AnonymizationAssumption
     DEF AnonymizationInit, TablesKept, EmploymentOriginal, MissionOriginal, UserOriginal
<1>3. \A r \in Originals : StateOf(r) # "gone"
  BY DEF AnonymizationInit, Originals, StateOf
<1>4. mapping = NoMapping /\ copies = {} /\ sequence = 0 /\ night = "day"
  BY DEF AnonymizationInit
<1>5. MappingKept
  BY <1>4 DEF MappingKept, NoMapping
<1>6. CopiesKept /\ MarksKept
  BY <1>3, <1>4 DEF CopiesKept, MarksKept, NoMapping, Copied
<1>7. QED BY <1>2, <1>5, <1>6 DEF AnonymizationInv

\* The application changes no row that is gone or marked but for its age.
LEMMA NewMissionKeeps ==
  ASSUME AnonymizationInv, NEW m \in Mission, NEW e \in Employment, NewMission(m, e)
  PROVE  AnonymizationInv'
<1>1. PICK row : row = [is |-> "live", company |-> employments[e].company,
                        user |-> employments[e].user, old |-> FALSE]
  OBVIOUS
<1>2. /\ missions[m].is = "none" /\ missions' = [missions EXCEPT ![m] = row]
      /\ UNCHANGED <<companies, employments, users, mapping, copies, sequence, night, crashes>>
  BY <1>1 DEF NewMission
<1>3. row \in MissionOriginal /\ row.is = "live"
  BY <1>1 DEF MissionOriginal, AnonymizationInv, TablesKept, EmploymentOriginal
<1>4. /\ missions' \in [Mission -> MissionOriginal] /\ missions'[m] = row
      /\ \A k \in Mission : k # m => missions'[k] = missions[k]
  BY <1>2, <1>3 DEF AnonymizationInv, TablesKept
<1>5. m \in Originals /\ StateOf(m) = "none"
  BY <1>2, RowsTellTheirState DEF Originals
<1>6. m \notin mapping.marked
  BY <1>5 DEF AnonymizationInv, MappingKept
<1>7. /\ \A r \in Originals : r # m => StateOf(r)' = StateOf(r)
      /\ StateOf(m)' = "live"
  BY <1>2, <1>3, <1>4, AnonymizationAssumption DEF StateOf, Originals
<1>8. TablesKept'
  BY <1>2, <1>4 DEF AnonymizationInv, TablesKept
<1>9. MappingKept'
  BY <1>2, <1>6, <1>7 DEF AnonymizationInv, MappingKept
<1>10. CopiesKept'
  <2>1. CopiesKept
    BY DEF AnonymizationInv
  <2>2. \A r : Copied(r)' <=> Copied(r)
    BY <1>2 DEF Copied
  <2>3. \A r \in Originals : Copied(r) <=> (StateOf(r)' = "gone" \/ r \in mapping.marked)
    BY <2>1, <1>5, <1>6, <1>7 DEF CopiesKept
  <2>4. QED BY <2>1, <2>2, <2>3, <1>2 DEF CopiesKept
<1>11. MarksKept'
  BY <1>2, <1>4, <1>6 DEF AnonymizationInv, MarksKept, EmploymentsOf, LiveEmployments
<1>12. QED BY <1>8, <1>9, <1>10, <1>11 DEF AnonymizationInv

\* A row that is written keeps its state, its user and its company.
LEMMA StatesStay ==
  ASSUME AnonymizationInv, TablesKept',
         \A r \in Originals : StateOf(r)' = StateOf(r),
         \A e \in Employment : employments'[e].user = employments[e].user,
         \A m \in Mission : missions'[m].company = missions[m].company
                            /\ (missions[m].old => missions'[m].old),
         UNCHANGED <<mapping, copies, sequence>>,
         night' = night \/ night' \in {"day", "users", "migrate", "delete"}
  PROVE  AnonymizationInv'
<1>1. MappingKept'
  BY DEF AnonymizationInv, MappingKept
<1>2. CopiesKept'
  BY DEF AnonymizationInv, CopiesKept, Copied
<1>3. /\ \A e \in Employment : employments'[e].is = employments[e].is
      /\ \A m \in Mission : missions'[m].is = missions[m].is
  BY AnonymizationAssumption DEF Originals, StateOf
<1>4. \A u : EmploymentsOf(u)' = EmploymentsOf(u)
  BY <1>3 DEF EmploymentsOf, LiveEmployments
<1>5. MarksKept'
  <2>1. mapping.of \subseteq User
    BY DEF AnonymizationInv, MappingKept
  <2>2. QED BY <2>1, <1>3, <1>4 DEF AnonymizationInv, MarksKept
<1>6. QED BY <1>1, <1>2, <1>5 DEF AnonymizationInv

LEMMA GrowOldKeeps ==
  ASSUME AnonymizationInv, NEW m \in Mission, GrowOld(m)
  PROVE  AnonymizationInv'
<1>1. PICK before \in MissionOriginal : before = missions[m]
  BY DEF AnonymizationInv, TablesKept
<1>2. PICK row : row = [before EXCEPT !.old = TRUE]
  OBVIOUS
<1>3. /\ row \in MissionOriginal /\ row.is = before.is /\ row.company = before.company
      /\ row.old
  BY <1>2 DEF MissionOriginal
<1>4. /\ missions' = [missions EXCEPT ![m] = row]
      /\ UNCHANGED <<companies, employments, users, mapping, copies, sequence, night, crashes>>
  BY <1>1, <1>2 DEF GrowOld, AnonymizationInv, TablesKept
<1>5. /\ missions' \in [Mission -> MissionOriginal] /\ missions'[m] = row
      /\ \A k \in Mission : k # m => missions'[k] = missions[k]
  BY <1>3, <1>4 DEF AnonymizationInv, TablesKept
<1>6. TablesKept'
  BY <1>4, <1>5 DEF AnonymizationInv, TablesKept
<1>7. \A r \in Originals : StateOf(r)' = StateOf(r)
  BY <1>1, <1>3, <1>4, <1>5 DEF Originals, StateOf
<1>8. \A k \in Mission : missions'[k].company = missions[k].company
                         /\ (missions[k].old => missions'[k].old)
  BY <1>1, <1>3, <1>5
<1>9. QED BY <1>4, <1>6, <1>7, <1>8, StatesStay

LEMMA EndOrDismissKeeps ==
  ASSUME AnonymizationInv, NEW e \in Employment, EndOrDismiss(e)
  PROVE  AnonymizationInv'
<1>1. PICK before \in EmploymentOriginal : before = employments[e]
  BY DEF AnonymizationInv, TablesKept
<1>2. PICK row : /\ employments' = [employments EXCEPT ![e] = row]
                 /\ row \in {[before EXCEPT !.ended = TRUE], [before EXCEPT !.dismissed = TRUE]}
  BY <1>1 DEF EndOrDismiss, AnonymizationInv, TablesKept
<1>3. row \in EmploymentOriginal /\ row.is = before.is /\ row.user = before.user
  BY <1>2 DEF EmploymentOriginal
<1>4. UNCHANGED <<companies, missions, users, mapping, copies, sequence, night, crashes>>
  BY DEF EndOrDismiss
<1>5. /\ employments' \in [Employment -> EmploymentOriginal] /\ employments'[e] = row
      /\ \A k \in Employment : k # e => employments'[k] = employments[k]
  BY <1>2, <1>3 DEF AnonymizationInv, TablesKept
<1>6. TablesKept'
  BY <1>4, <1>5 DEF AnonymizationInv, TablesKept
<1>7. \A r \in Originals : StateOf(r)' = StateOf(r)
  BY <1>1, <1>3, <1>4, <1>5 DEF Originals, StateOf
<1>8. \A k \in Employment : employments'[k].user = employments[k].user
  BY <1>1, <1>3, <1>5
<1>9. QED BY <1>4, <1>6, <1>7, <1>8, StatesStay

\* A step of the night that writes nothing.
LEMMA NightGoesOn ==
  ASSUME AnonymizationInv, UNCHANGED <<tables, mapping, copies, sequence>>,
         night' = night \/ night' \in {"day", "users", "migrate", "delete"},
         crashes' \in 0..MaxCrashes
  PROVE  AnonymizationInv'
<1>1. UNCHANGED <<companies, employments, missions, users>>
  BY DEF tables
<1>2. TablesKept'
  BY <1>1 DEF AnonymizationInv, TablesKept
<1>3. \A r \in Originals : StateOf(r)' = StateOf(r)
  BY <1>1 DEF StateOf
<1>4. QED BY <1>1, <1>2, <1>3, StatesStay

\* What waits for the validation and the software of a company pin a row;
\* they change none.
LEMMA PinsAreApart ==
  ASSUME AnonymizationInv,
         \/ \E m \in Mission : LeaveQueue(m)
         \/ \E e \in Employment : LinkSoftware(e)
  PROVE  /\ AnonymizationInv'
         /\ UNCHANGED <<companies, employments, missions>>
<1>1. /\ UNCHANGED <<companies, employments, missions, users, mapping, copies, sequence>>
      /\ UNCHANGED <<night, crashes>>
  BY DEF LeaveQueue, LinkSoftware, SetClient
<1>2. TablesKept'
  BY <1>1 DEF AnonymizationInv, TablesKept
<1>3. \A r \in Originals : StateOf(r)' = StateOf(r)
  BY <1>1 DEF StateOf
<1>4. QED BY <1>1, <1>2, <1>3, StatesStay

LEMMA PinsBegin == AnonymizationInit => PinsKept
BY DEF AnonymizationInit, PinsKept

LEMMA PinsStep == AnonymizationInv /\ PinsKept /\ [AnonymizationNext]_anonVars => PinsKept'
<1> SUFFICES ASSUME AnonymizationInv, PinsKept, [AnonymizationNext]_anonVars PROVE PinsKept'
  OBVIOUS
<1>1. ASSUME NEW e \in Employment, LinkSoftware(e) PROVE PinsKept'
  <2>1. employments[e] \in EmploymentOriginal
    BY DEF AnonymizationInv, TablesKept
  <2>2. employments[e].company \in Company /\ employments[e].user \in User
    BY <2>1 DEF EmploymentOriginal
  <2>3. /\ UNCHANGED queue
        /\ \E client \in {"linked", employments[e].user} :
             clients' = [clients EXCEPT ![employments[e].company] = client]
    BY <1>1 DEF LinkSoftware, SetClient
  <2>4. QED BY <2>2, <2>3 DEF PinsKept
<1>2. ASSUME NEW m \in Mission, NEW e \in Employment, NewMission(m, e) PROVE PinsKept'
  BY <1>2 DEF NewMission, PinsKept
<1>3. ASSUME NEW m \in Mission, LeaveQueue(m) PROVE PinsKept'
  BY <1>3 DEF LeaveQueue, PinsKept
<1>4. CASE Delete
  BY <1>4 DEF Delete, ClientsWithout, PinsKept
<1>5. ASSUME UNCHANGED pins PROVE PinsKept'
  BY <1>5 DEF pins, PinsKept
<1>6. QED
  BY <1>1, <1>2, <1>3, <1>4, <1>5 DEF AnonymizationNext, JobStep, StartNight, Refuse,
     DeleteNothing, Crash, Clean, AnonymizeUsers, Migrate, EndOrDismiss, GrowOld,
     anonVars, tables

LEMMA QuietNights ==
  ASSUME AnonymizationInv,
         StartNight \/ Refuse \/ DeleteNothing \/ Crash \/ UNCHANGED anonVars
  PROVE  AnonymizationInv'
<1>1. crashes \in 0..MaxCrashes
  BY DEF AnonymizationInv, TablesKept
<1>2. crashes' \in 0..MaxCrashes
  <2>1. UNCHANGED crashes \/ (crashes < MaxCrashes /\ crashes' = crashes + 1)
    BY DEF StartNight, Refuse, DeleteNothing, Crash, anonVars
  <2>2. QED BY <2>1, <1>1, AnonymizationAssumption
<1>3. /\ UNCHANGED <<tables, mapping, copies, sequence>>
      /\ night' = night \/ night' \in {"day", "users", "migrate", "delete"}
  BY DEF StartNight, Refuse, DeleteNothing, Crash, anonVars, tables, AfterRefusal
<1>4. QED BY <1>2, <1>3, NightGoesOn

LEMMA EmptyMapping ==
  /\ NoMapping.users \in [User -> {0}] /\ NoMapping.of = {} /\ NoMapping.marked = {}
  /\ NoMapping = [users |-> NoMapping.users, of |-> NoMapping.of, marked |-> NoMapping.marked]
BY DEF NoMapping

LEMMA CleanKeeps ==
  ASSUME AnonymizationInv, Clean
  PROVE  AnonymizationInv'
<1>1. /\ night \in {"clean users", "clean"} /\ mapping' = NoMapping
      /\ night' \in {"migrate", "day"}
      /\ UNCHANGED <<companies, employments, missions, users, copies, sequence, crashes>>
  BY DEF Clean, tables
<1>2. TablesKept'
  BY <1>1 DEF AnonymizationInv, TablesKept
<1>3. \A r : StateOf(r)' = StateOf(r)
  BY <1>1 DEF StateOf
<1>4. mapping'.marked = {} /\ mapping'.of = {}
  BY <1>1, EmptyMapping
<1>5. MappingKept'
  <2>1. NoMapping.users \in [User -> 0..sequence]
    <3>1. sequence \in Nat
      BY DEF AnonymizationInv, TablesKept
    <3>2. QED BY <3>1, EmptyMapping
  <2>2. QED BY <2>1, <1>1, <1>4, EmptyMapping DEF MappingKept
<1>6. \A r \in mapping.marked \cap Originals : StateOf(r) = "gone"
  BY <1>1 DEF AnonymizationInv, MappingKept
<1>7. CopiesKept'
  <2>1. \A r \in Originals : Copied(r) <=> StateOf(r) = "gone"
    BY <1>6 DEF AnonymizationInv, CopiesKept
  <2>2. QED BY <2>1, <1>1, <1>3, <1>4 DEF AnonymizationInv, CopiesKept, Copied
<1>8. MarksKept'
  BY <1>4 DEF MarksKept
<1>9. QED BY <1>2, <1>5, <1>7, <1>8 DEF AnonymizationInv

LEMMA AnonymizeUsersKeeps ==
  ASSUME AnonymizationInv, AnonymizeUsers
  PROVE  AnonymizationInv'
<1>1. PICK U : U = InactiveUsers
  OBVIOUS
<1>2. U \in SUBSET User
  BY <1>1 DEF InactiveUsers
<1>3. PICK ids, top : ids = Numbered(U) /\ top = AfterNumbering(U)
  OBVIOUS
<1>4. /\ mapping = NoMapping /\ users' = AnonymizedInPlace(U)
      /\ mapping' = [NoMapping EXCEPT !.users = ids]
      /\ sequence' = top /\ night' = "clean users"
      /\ UNCHANGED <<companies, employments, missions, copies, crashes>>
  BY <1>1, <1>3 DEF AnonymizeUsers, MayStart
<1>5. mapping.users \in [User -> 0..sequence] /\ sequence \in Nat
  BY DEF AnonymizationInv, MappingKept, TablesKept
<1>6. top \in Nat /\ sequence <= top /\ ids \in [User -> 0..top]
  BY <1>2, <1>3, <1>5, NumberedIsWhole
<1>7. /\ mapping'.users = ids /\ mapping'.of = {} /\ mapping'.marked = {}
      /\ mapping' = [users |-> mapping'.users, of |-> mapping'.of, marked |-> mapping'.marked]
  BY <1>4 DEF NoMapping
<1>8. users' \in [User -> UserOriginal]
  <2>1. ASSUME NEW u \in User
        PROVE  (IF u \in U THEN [users[u] EXCEPT !.status = "anonymized"] ELSE users[u])
                 \in UserOriginal
    BY DEF AnonymizationInv, TablesKept, UserOriginal
  <2>2. QED BY <2>1, <1>4 DEF AnonymizedInPlace
<1>9. TablesKept'
  BY <1>4, <1>6, <1>8 DEF AnonymizationInv, TablesKept
<1>10. MappingKept'
  BY <1>4, <1>6, <1>7 DEF MappingKept
<1>11. mapping.marked = {}
  BY <1>4, EmptyMapping
<1>12. \A r : StateOf(r)' = StateOf(r)
  BY <1>4 DEF StateOf
<1>13. CopiesKept'
  <2>1. \A x \in copies : x.id \in 1..top
    BY <1>5, <1>6 DEF AnonymizationInv, CopiesKept
  <2>2. QED BY <2>1, <1>4, <1>7, <1>11, <1>12 DEF AnonymizationInv, CopiesKept, Copied
<1>14. MarksKept'
  BY <1>7 DEF MarksKept
<1>15. QED BY <1>9, <1>10, <1>13, <1>14 DEF AnonymizationInv

\* What a dry run copies is live, of users it numbers.
LEMMA ToCopyIsLive ==
  ASSUME AnonymizationInv
  PROVE  /\ ToCopy.companies \subseteq Company
         /\ ToCopy.employments \subseteq LiveEmployments
         /\ ToCopy.missions \subseteq LiveMissions
         /\ OwnersOf(ToCopy) \subseteq User
         /\ \A u \in AnonymizedUsers : EmploymentsOf(u) \subseteq ToCopy.employments
         /\ \A m \in ToCopy.missions :
              missions[m].old \/ missions[m].company \in ToCopy.companies
<1>1. /\ ToCopy.companies = Inactive /\ ToCopy.employments = EmploymentsToCopy
      /\ ToCopy.missions = MissionsToCopy
  BY DEF ToCopy
<1>2. Inactive \subseteq Company
  BY DEF Inactive, InactiveByEmployment, InactiveByMissions, LiveCompanies
<1>3. EmploymentsToCopy \subseteq LiveEmployments
  BY DEF EmploymentsToCopy, EmploymentsIn, LongTerminated, EmploymentsOf
<1>4. MissionsToCopy \subseteq LiveMissions
  BY DEF MissionsToCopy, MissionsIn, OldMissions
<1>5. OwnersOf(ToCopy) \subseteq User
  <2>1. /\ \A e \in Employment : employments[e].user \in User
        /\ \A m \in Mission : missions[m].user \in User
    BY DEF AnonymizationInv, TablesKept, EmploymentOriginal, MissionOriginal
  <2>2. /\ \A e \in EmploymentsToCopy : employments[e].user \in User
        /\ \A m \in MissionsToCopy : missions[m].user \in User
    BY <2>1, <1>3, <1>4 DEF LiveEmployments, LiveMissions
  <2>3. QED BY <2>2, <1>1 DEF OwnersOf
<1>6. \A u \in AnonymizedUsers : EmploymentsOf(u) \subseteq EmploymentsToCopy
  BY DEF EmploymentsToCopy
<1>7. \A m \in MissionsToCopy : missions[m].old \/ missions[m].company \in Inactive
  BY DEF MissionsToCopy, MissionsIn, OldMissions
<1>8. QED BY <1>1, <1>2, <1>3, <1>4, <1>5, <1>6, <1>7

LEMMA MigrateKeeps ==
  ASSUME AnonymizationInv, Migrate
  PROVE  AnonymizationInv'
<1>1. PICK rows, U : rows = ToCopy /\ U = AnonymizedUsers \cup OwnersOf(ToCopy)
  OBVIOUS
<1>2. /\ rows.companies \subseteq Company /\ rows.employments \subseteq LiveEmployments
      /\ rows.missions \subseteq LiveMissions /\ OwnersOf(rows) \subseteq U
      /\ \A u \in AnonymizedUsers : EmploymentsOf(u) \subseteq rows.employments
      /\ \A m \in rows.missions : missions[m].old \/ missions[m].company \in rows.companies
  BY <1>1, ToCopyIsLive
<1>3. AnonymizedUsers \in SUBSET User /\ U \in SUBSET User
  BY <1>1, ToCopyIsLive DEF AnonymizedUsers
<1>4. PICK ids, top : ids = Numbered(U) /\ top = AfterNumbering(U)
  OBVIOUS
<1>5. PICK marks : marks = Marks(rows)
  OBVIOUS
<1>6. /\ mapping = NoMapping
      /\ mapping' = [users |-> ids, of |-> AnonymizedUsers, marked |-> marks]
      /\ copies' = copies \cup EmploymentCopies(rows, ids) \cup MissionCopies(rows, ids)
      /\ sequence' = top /\ night' = "delete"
      /\ UNCHANGED <<companies, employments, missions, users, crashes>>
  BY <1>1, <1>4, <1>5 DEF Migrate, MayStart, tables
<1>7. mapping.users \in [User -> 0..sequence] /\ sequence \in Nat
  BY DEF AnonymizationInv, MappingKept, TablesKept
<1>8. /\ top \in Nat /\ sequence <= top /\ ids \in [User -> 0..top]
      /\ \A u \in U : ids[u] \in 1..top
  BY <1>3, <1>4, <1>7, NumberedIsWhole
<1>9. mapping'.users = ids /\ mapping'.of = AnonymizedUsers /\ mapping'.marked = marks
  BY <1>6
<1>10. /\ rows.employments \subseteq Employment /\ rows.missions \subseteq Mission
       /\ marks = rows.companies \cup rows.employments \cup rows.missions
  BY <1>2, <1>5 DEF Marks, LiveEmployments, LiveMissions
<1>11. \A r \in Originals : r \in marks <=> r \in rows.employments \cup rows.missions
  BY <1>2, <1>10, AnonymizationAssumption DEF Originals
<1>12. /\ \A r : StateOf(r)' = StateOf(r)
       /\ \A r \in rows.employments \cup rows.missions : StateOf(r) = "live"
  <2>1. \A r : StateOf(r)' = StateOf(r)
    BY <1>6 DEF StateOf
  <2>2. QED BY <2>1, <1>2, RowsTellTheirState DEF LiveEmployments, LiveMissions
<1>13. TablesKept'
  BY <1>6, <1>8 DEF AnonymizationInv, TablesKept
<1>14. MappingKept'
  <2>1. mapping' = [users |-> mapping'.users, of |-> mapping'.of, marked |-> mapping'.marked]
    BY <1>6
  <2>2. marks \subseteq Company \cup Originals
    BY <1>2, <1>10 DEF Originals
  <2>3. \A r \in marks \cap Originals : StateOf(r)' # "none"
    BY <1>11, <1>12
  <2>4. QED BY <2>1, <2>2, <2>3, <1>3, <1>6, <1>8, <1>9 DEF MappingKept
<1>15. PICK fresh : fresh = EmploymentCopies(rows, ids) \cup MissionCopies(rows, ids)
  OBVIOUS
<1>16. PICK owner : owner = [r \in rows.employments \cup rows.missions |->
                 IF r \in rows.employments THEN employments[r].user ELSE missions[r].user]
  OBVIOUS
<1>17. \A r \in rows.employments \cup rows.missions : owner[r] \in U
  BY <1>2, <1>16 DEF OwnersOf
<1>18. fresh = {CopyOf(r, owner[r], ids) : r \in rows.employments \cup rows.missions}
  BY <1>10, <1>15, <1>16, AnonymizationAssumption DEF EmploymentCopies, MissionCopies
<1>19. \A x \in fresh : \E r \in rows.employments \cup rows.missions :
         x.row = r /\ x = CopyOf(r, owner[r], ids) /\ x.id = ids[owner[r]]
  <2>1. \A r, u : CopyOf(r, u, ids).row = r /\ CopyOf(r, u, ids).id = ids[u]
    BY DEF CopyOf
  <2>2. QED BY <2>1, <1>18
<1>20. \A r \in rows.employments \cup rows.missions : \E x \in fresh : x.row = r
  <2>1. \A r, u : CopyOf(r, u, ids).row = r
    BY DEF CopyOf
  <2>2. \A r \in rows.employments \cup rows.missions : CopyOf(r, owner[r], ids) \in fresh
    BY <1>18
  <2>3. QED BY <2>1, <2>2
<1>21. \A r \in rows.employments \cup rows.missions : ~Copied(r) /\ r \in Originals
  <2>1. mapping.marked = {}
    BY <1>6, EmptyMapping
  <2>2. QED BY <2>1, <1>10, <1>12 DEF AnonymizationInv, CopiesKept, Originals
<1>22. copies' = copies \cup fresh
  BY <1>6, <1>15
<1>23. CopiesKept'
  <2>1. \A x \in copies' : x.id \in 1..sequence'
    <3>1. \A x \in copies : x.id \in 1..top
      BY <1>7, <1>8 DEF AnonymizationInv, CopiesKept
    <3>2. \A x \in fresh : x.id \in 1..top
      BY <1>8, <1>17, <1>19
    <3>3. QED BY <3>1, <3>2, <1>6, <1>22
  <2>2. ASSUME NEW x \in copies', NEW y \in copies', x.row = y.row PROVE x = y
    <3>1. CASE x \in copies /\ y \in copies
      BY <3>1, <2>2 DEF AnonymizationInv, CopiesKept
    <3>2. CASE x \in fresh /\ y \in fresh
      BY <3>2, <2>2, <1>19
    <3>3. \A a \in copies, b \in fresh : a.row # b.row
      BY <1>19, <1>21 DEF Copied
    <3>4. QED BY <3>1, <3>2, <3>3, <2>2, <1>22
  <2>3. ASSUME NEW r \in Originals
        PROVE  Copied(r)' <=> (StateOf(r)' = "gone" \/ r \in mapping'.marked)
    <3>1. Copied(r)' <=> (Copied(r) \/ r \in rows.employments \cup rows.missions)
      BY <1>19, <1>20, <1>22 DEF Copied
    <3>2. mapping.marked = {}
      BY <1>6, EmptyMapping
    <3>3. Copied(r) <=> StateOf(r) = "gone"
      BY <3>2 DEF AnonymizationInv, CopiesKept
    <3>4. QED BY <3>1, <3>3, <1>9, <1>11, <1>12
  <2>4. QED BY <2>1, <2>2, <2>3 DEF CopiesKept
<1>24. MarksKept'
  <2>1. \A u : EmploymentsOf(u)' = EmploymentsOf(u)
    BY <1>6 DEF EmploymentsOf, LiveEmployments
  <2>2. \A u \in mapping'.of : EmploymentsOf(u)' \subseteq mapping'.marked
    BY <2>1, <1>2, <1>9, <1>10
  <2>3. \A m \in mapping'.marked \cap Mission :
          missions'[m].old \/ missions'[m].company \in mapping'.marked
    <3>1. \A m \in marks \cap Mission : m \in rows.missions
      BY <1>2, <1>10, AnonymizationAssumption
    <3>2. \A m \in marks \cap Mission :
            missions[m].old \/ missions[m].company \in marks
      BY <3>1, <1>2, <1>10
    <3>3. QED BY <3>2, <1>6, <1>9
  <2>4. QED BY <2>2, <2>3 DEF MarksKept
<1>25. QED BY <1>13, <1>14, <1>23, <1>24 DEF AnonymizationInv

\* What the deletion takes away is what was marked.
LEMMA DoomedIsMarked == AnonymizationInv => Doomed = mapping.marked
BY DEF AnonymizationInv, MarksKept, Doomed, DoomedWithUsers

LEMMA DeleteTakes ==
  ASSUME AnonymizationInv, Delete
  PROVE  /\ \A e \in Employment : employments'[e] =
              IF e \in mapping.marked /\ employments[e].is = "live"
              THEN [employments[e] EXCEPT !.is = "gone"] ELSE employments[e]
         /\ \A m \in Mission : missions'[m] =
              IF m \in mapping.marked /\ missions[m].is = "live"
              THEN [missions[m] EXCEPT !.is = "gone"] ELSE missions[m]
         /\ DOMAIN employments' = Employment /\ DOMAIN missions' = Mission
         /\ employments' = [e \in Employment |-> employments'[e]]
         /\ missions' = [m \in Mission |-> missions'[m]]
         /\ companies' = [c \in Company |-> IF c \in mapping.marked THEN "gone" ELSE companies[c]]
         /\ users' = WithNegativeIds /\ night' = "clean"
         /\ UNCHANGED <<mapping, copies, sequence, crashes>>
<1>1. DOMAIN employments = Employment /\ DOMAIN missions = Mission
  BY DEF AnonymizationInv, TablesKept
<1>2. QED BY <1>1, DoomedIsMarked DEF Delete, Gone, CompaniesWithout

LEMMA DeleteKeeps ==
  ASSUME AnonymizationInv, Delete
  PROVE  AnonymizationInv'
<1>1. PICK marked : marked = mapping.marked
  OBVIOUS
<1>2. ASSUME NEW e \in Employment
      PROVE  /\ employments'[e] \in EmploymentOriginal
             /\ employments'[e].is = IF e \in marked /\ employments[e].is = "live"
                                     THEN "gone" ELSE employments[e].is
  <2>1. PICK old \in EmploymentOriginal : old = employments[e]
    BY DEF AnonymizationInv, TablesKept
  <2>2. PICK row : row = [old EXCEPT !.is = "gone"]
    OBVIOUS
  <2>3. row \in EmploymentOriginal /\ row.is = "gone"
    BY <2>2 DEF EmploymentOriginal
  <2>4. QED BY <2>1, <2>2, <2>3, <1>1, DeleteTakes
<1>3. ASSUME NEW m \in Mission
      PROVE  /\ missions'[m] \in MissionOriginal
             /\ missions'[m].is = IF m \in marked /\ missions[m].is = "live"
                                  THEN "gone" ELSE missions[m].is
  <2>1. PICK old \in MissionOriginal : old = missions[m]
    BY DEF AnonymizationInv, TablesKept
  <2>2. PICK row : row = [old EXCEPT !.is = "gone"]
    OBVIOUS
  <2>3. row \in MissionOriginal /\ row.is = "gone"
    BY <2>2 DEF MissionOriginal
  <2>4. QED BY <2>1, <2>2, <2>3, <1>1, DeleteTakes
<1>4. users' \in [User -> UserOriginal]
  <2>1. PICK ids : ids = mapping.users
    OBVIOUS
  <2>2. ids \in [User -> 0..sequence] /\ sequence \in Nat
    BY <2>1 DEF AnonymizationInv, MappingKept, TablesKept
  <2>3. ASSUME NEW u \in User
        PROVE  (IF u \in mapping.of THEN [users[u] EXCEPT !.id = ids[u]] ELSE users[u])
                 \in UserOriginal
    <3>1. PICK old \in UserOriginal : old = users[u]
      BY DEF AnonymizationInv, TablesKept
    <3>2. ids[u] \in Nat
      BY <2>2
    <3>3. QED BY <3>1, <3>2 DEF UserOriginal
  <2>4. users' = [u \in User |-> IF u \in mapping.of THEN [users[u] EXCEPT !.id = ids[u]]
                                 ELSE users[u]]
    BY <2>1, DeleteTakes DEF WithNegativeIds
  <2>5. QED BY <2>3, <2>4
<1>5. companies' \in [Company -> {"live", "gone"}]
  BY DeleteTakes DEF AnonymizationInv, TablesKept
<1>6. employments' \in [Employment -> EmploymentOriginal] /\ missions' \in [Mission -> MissionOriginal]
  BY <1>2, <1>3, DeleteTakes
<1>7. TablesKept'
  BY <1>4, <1>5, <1>6, DeleteTakes DEF AnonymizationInv, TablesKept
<1>8. \A r \in Originals : StateOf(r)' =
        IF r \in marked /\ StateOf(r) = "live" THEN "gone" ELSE StateOf(r)
  BY <1>2, <1>3 DEF Originals, StateOf
<1>9. ASSUME NEW r \in marked \cap Originals PROVE StateOf(r)' = "gone"
  <2>1. StateOf(r) # "none"
    BY <1>1, <1>9 DEF AnonymizationInv, MappingKept
  <2>2. StateOf(r) \in {"none", "live", "gone"}
    BY DEF StateOf, Originals, AnonymizationInv, TablesKept, EmploymentOriginal, MissionOriginal
  <2>3. QED BY <2>1, <2>2, <1>8
<1>10. mapping'.marked = marked /\ night' = "clean"
  BY <1>1, DeleteTakes
<1>11. MappingKept'
  BY <1>9, <1>10, DeleteTakes DEF AnonymizationInv, MappingKept
<1>12. CopiesKept'
  <2>1. \A r \in Originals : Copied(r)' <=> Copied(r)
    BY DeleteTakes DEF Copied
  <2>2. \A r \in Originals :
          (StateOf(r)' = "gone" \/ r \in marked) <=> (StateOf(r) = "gone" \/ r \in marked)
    BY <1>8
  <2>3. QED BY <2>1, <2>2, <1>1, DeleteTakes DEF AnonymizationInv, CopiesKept
<1>13. MarksKept'
  <2>1. \A m \in marked \cap Mission : missions'[m].is = "gone"
    BY <1>3, <1>9, AnonymizationAssumption DEF Originals, StateOf
  <2>2. ASSUME NEW u \in mapping.of PROVE EmploymentsOf(u)' \subseteq marked
    <3>1. EmploymentsOf(u) \subseteq marked
      BY <1>1 DEF AnonymizationInv, MarksKept
    <3>2. \A e \in Employment : e \notin marked => employments'[e] = employments[e]
      BY <1>1, DeleteTakes
    <3>3. QED BY <3>1, <3>2 DEF EmploymentsOf, LiveEmployments
  <2>3. mapping' = mapping
    BY DeleteTakes
  <2>4. QED BY <2>1, <2>2, <2>3, <1>1 DEF MarksKept
<1>14. QED BY <1>7, <1>11, <1>12, <1>13 DEF AnonymizationInv

LEMMA AnonymizationStep == AnonymizationInv /\ [AnonymizationNext]_anonVars => AnonymizationInv'
<1> SUFFICES ASSUME AnonymizationInv, [AnonymizationNext]_anonVars PROVE AnonymizationInv'
  OBVIOUS
<1>1. QED
  BY NewMissionKeeps, GrowOldKeeps, EndOrDismissKeeps, PinsAreApart, QuietNights,
     CleanKeeps, AnonymizeUsersKeeps, MigrateKeeps, DeleteKeeps DEF AnonymizationNext, JobStep

LEMMA AnonymizationInvSays == AnonymizationInv /\ PinsKept => AnonymizationTypeOK /\ CopiedOnce
<1> SUFFICES ASSUME AnonymizationInv, PinsKept PROVE AnonymizationTypeOK /\ CopiedOnce
  OBVIOUS
<1>1. AnonymizationTypeOK
  BY DEF AnonymizationInv, PinsKept, TablesKept, MappingKept, CopiesKept, AnonymizationTypeOK,
     EmploymentOriginal, MissionOriginal, UserOriginal, Originals
<1>2. ASSUME NEW r PROVE NumberOfCopies(r) \in {0, 1} /\ (Copied(r) => NumberOfCopies(r) = 1)
  <2>1. CASE Copied(r)
    <3>1. PICK x \in copies : x.row = r
      BY <2>1 DEF Copied
    <3>2. {y \in copies : y.row = r} = {x}
      BY <3>1 DEF AnonymizationInv, CopiesKept
    <3>3. QED BY <3>2, FS_Singleton DEF NumberOfCopies
  <2>2. CASE ~Copied(r)
    <3>1. {y \in copies : y.row = r} = {}
      BY <2>2 DEF Copied
    <3>2. QED BY <3>1, <2>2, FS_EmptySet DEF NumberOfCopies
  <2>3. QED BY <2>1, <2>2
<1>3. \A r \in Originals : NumberOfCopies(r) <= 1
  BY <1>2
<1>4. \A r \in Originals : StateOf(r) = "gone" => NumberOfCopies(r) = 1
  BY <1>2 DEF AnonymizationInv, CopiesKept
<1>5. CopiedOnce
  BY <1>3, <1>4, RowsTellTheirState DEF CopiedOnce, Originals
<1>6. QED BY <1>1, <1>5

RecentStay ==
  \A m \in Mission :
    missions[m].is = "live" /\ missions'[m].is = "gone" =>
      missions[m].old \/ companies'[missions[m].company] = "gone"

LEMMA RecentStep == AnonymizationInv /\ [AnonymizationNext]_anonVars => RecentStay
<1> SUFFICES ASSUME AnonymizationInv, [AnonymizationNext]_anonVars,
                    NEW m \in Mission, missions[m].is = "live", missions'[m].is = "gone"
             PROVE  missions[m].old \/ companies'[missions[m].company] = "gone"
  BY DEF RecentStay
<1>1. missions \in [Mission -> MissionOriginal]
  BY DEF AnonymizationInv, TablesKept
<1>2. CASE Delete
  <2>1. m \in mapping.marked
    BY DeleteTakes, <1>2
  <2>2. missions[m].old \/ missions[m].company \in mapping.marked
    BY <2>1 DEF AnonymizationInv, MarksKept
  <2>3. missions[m].company \in Company
    BY <1>1 DEF MissionOriginal
  <2>4. QED BY <2>2, <2>3, <1>2, DeleteTakes
<1>3. ASSUME NEW k \in Mission, NEW e \in Employment, NewMission(k, e) PROVE FALSE
  BY <1>1, <1>3 DEF NewMission
<1>4. ASSUME NEW k \in Mission, GrowOld(k) PROVE FALSE
  <2>1. missions' = [missions EXCEPT ![k].old = TRUE]
    BY <1>4 DEF GrowOld
  <2>2. missions'[m].is = missions[m].is
    BY <2>1, <1>1 DEF MissionOriginal
  <2>3. QED BY <2>2
<1>5. ASSUME UNCHANGED missions PROVE FALSE
  BY <1>5
<1>6. QED
  BY <1>2, <1>3, <1>4, <1>5, PinsAreApart
     DEF AnonymizationNext, JobStep, StartNight, Refuse, DeleteNothing,
     Crash, Clean, AnonymizeUsers, Migrate, EndOrDismiss, anonVars, tables

\* For any tables, and however often the job is killed: what is deleted was
\* copied once, and a mission goes only for its age or with its company.
THEOREM DeletedWasCopied ==
  AnonymizationSpec => AnonymizationIsSafe
<1>1. AnonymizationInv /\ [AnonymizationNext]_anonVars => [RecentStay]_anonVars
  BY RecentStep
<1>2. AnonymizationSpec => []AnonymizationInv
  BY NightBegins, AnonymizationStep, PTL DEF AnonymizationSpec
<1>3. AnonymizationSpec => []PinsKept
  BY <1>2, PinsBegin, PinsStep, PTL DEF AnonymizationSpec
<1>4. AnonymizationSpec => [][RecentStay]_anonVars
  BY <1>1, <1>2, PTL DEF AnonymizationSpec
<1>5. [][RecentStay]_anonVars <=> RecentMissionsStay
  BY DEF RecentStay, RecentMissionsStay
<1>6. QED BY <1>2, <1>3, <1>4, <1>5, AnonymizationInvSays, PTL DEF AnonymizationIsSafe

-----------------------------------------------------------------------------
(* Exports.                                                                *)

LEMMA Quotient ==
  ASSUME NEW d \in Nat, NEW L \in Nat \ {0}
  PROVE  d \div L \in Nat /\ (d \div L) * L <= d /\ d < (d \div L) * L + L
OBVIOUS

LEMMA LaterBegins ==
  ASSUME NEW a \in Nat, NEW b \in Nat, NEW L \in Nat, a < b
  PROVE  a * L + L <= b * L
<1>1. PICK k \in Nat : b = a + 1 + k
  <2>1. b - a - 1 \in Nat /\ b = a + 1 + (b - a - 1)
    OBVIOUS
  <2>2. QED BY <2>1
<1>2. b * L = a * L + L + k * L
  BY <1>1
<1>3. k * L >= 0
  OBVIOUS
<1>4. QED BY <1>2, <1>3

\* A day is in the year, month or batch its quotient names, and in no other.
LEMMA QuotientIs ==
  ASSUME NEW d \in Nat, NEW L \in Nat \ {0}, NEW q \in Nat
  PROVE  (d \div L = q) <=> (q * L <= d /\ d < q * L + L)
<1>1. PICK p : p = d \div L
  OBVIOUS
<1>2. p \in Nat /\ p * L <= d /\ d < p * L + L
  BY <1>1, Quotient
<1>3. /\ p < q => p * L + L <= q * L
      /\ q < p => q * L + L <= p * L
  BY <1>2, LaterBegins
<1>4. p * L \in Nat /\ q * L \in Nat
  BY <1>2
<1>5. QED BY <1>1, <1>2, <1>3, <1>4

Rank(staff, x) == Cardinality({y \in staff : y <= x})

LEMMA RankGrows ==
  ASSUME NEW staff \in SUBSET Int, IsFiniteSet(staff), NEW x \in staff
  PROVE  /\ Rank(staff, x) \in 1..Cardinality(staff)
         /\ \A y \in staff : x < y => Rank(staff, x) < Rank(staff, y)
<1> DEFINE Below(z) == {v \in staff : v <= z}
<1>1. \A z \in staff : Below(z) \in SUBSET staff /\ z \in Below(z)
  OBVIOUS
<1>2. \A z \in staff :
        /\ IsFiniteSet(Below(z)) /\ Cardinality(Below(z)) \in Nat
        /\ Cardinality(Below(z)) <= Cardinality(staff)
        /\ Cardinality(Below(z)) # 0
  BY <1>1, FS_Subset, FS_CardinalityType, FS_EmptySet
<1>3. Cardinality(staff) \in Nat
  BY FS_CardinalityType
<1>4. ASSUME NEW y \in staff, x < y PROVE Cardinality(Below(x)) < Cardinality(Below(y))
  <2>1. Below(x) \in SUBSET Below(y) /\ Below(x) # Below(y)
    <3>1. y \in Below(y) /\ y \notin Below(x)
      BY <1>4
    <3>2. \A v \in Below(x) : v \in Below(y)
      BY <1>4
    <3>3. QED BY <3>1, <3>2
  <2> HIDE DEF Below
  <2>2. /\ Cardinality(Below(x)) <= Cardinality(Below(y))
        /\ Cardinality(Below(x)) # Cardinality(Below(y))
    BY <2>1, <1>2, FS_Subset
  <2>3. QED BY <2>2, <1>2
<1>5. \A z : Rank(staff, z) = Cardinality(Below(z))
  BY DEF Rank
<1> HIDE DEF Below
<1>6. QED BY <1>2, <1>3, <1>4, <1>5

IsSorted(s, staff) ==
  /\ s \in [1..Cardinality(staff) -> staff]
  /\ \A i, j \in DOMAIN s : i < j => s[i] < s[j]

LEMMA SortedExists ==
  ASSUME NEW staff \in SUBSET Int, IsFiniteSet(staff)
  PROVE  \E s : IsSorted(s, staff)
<1>1. PICK n \in Nat : n = Cardinality(staff)
  BY FS_CardinalityType
<1>2. PICK rank : rank = [x \in staff |-> Rank(staff, x)]
  OBVIOUS
<1>3. /\ rank \in [staff -> 1..n]
      /\ \A x, y \in staff : x < y => rank[x] < rank[y]
  BY <1>1, <1>2, RankGrows
<1>4. \A x, y \in staff : rank[x] = rank[y] => x = y
  <2> SUFFICES ASSUME NEW x \in staff, NEW y \in staff, rank[x] = rank[y] PROVE x = y
    OBVIOUS
  <2>1. rank[x] \in Int /\ rank[y] \in Int /\ x \in Int /\ y \in Int
    BY <1>3
  <2>2. QED BY <2>1, <1>3
<1>5. rank \in Injection(staff, 1..n)
  BY <1>3, <1>4 DEF Injection, IsInjective
<1>6. IsFiniteSet(1..n) /\ Cardinality(1..n) = n
  BY FS_Interval
<1>7. rank \in Surjection(staff, 1..n)
  BY <1>1, <1>5, <1>6, FS_Injection
<1>8. \A k \in 1..n : \E x \in staff : rank[x] = k
  BY <1>7 DEF Surjection
<1>9. PICK s : s = [k \in 1..n |-> CHOOSE x \in staff : rank[x] = k]
  OBVIOUS
<1>10. s \in [1..n -> staff] /\ \A k \in 1..n : rank[s[k]] = k
  BY <1>8, <1>9
<1>11. ASSUME NEW i \in 1..n, NEW j \in 1..n, i < j PROVE s[i] < s[j]
  <2>1. s[i] \in staff /\ s[j] \in staff /\ rank[s[i]] = i /\ rank[s[j]] = j
    BY <1>10
  <2>2. s[j] < s[i] => j < i
    BY <2>1, <1>3
  <2>3. s[i] # s[j]
    BY <2>1, <1>11
  <2>4. s[i] \in Int /\ s[j] \in Int
    BY <2>1
  <2>5. QED BY <2>2, <2>3, <2>4, <1>11
<1>12. QED BY <1>1, <1>10, <1>11 DEF IsSorted

\* The employees in order: each of them at one position.
LEMMA SortedIsWhole ==
  ASSUME NEW staff \in SUBSET Employee
  PROVE  \E n \in Nat :
           /\ n = Cardinality(staff) /\ Sorted(staff) \in [1..n -> staff]
           /\ Len(Sorted(staff)) = n
           /\ \A i, j \in 1..n : Sorted(staff)[i] = Sorted(staff)[j] => i = j
           /\ \A u \in staff : \E i \in 1..n : Sorted(staff)[i] = u
<1>1. staff \in SUBSET Int /\ IsFiniteSet(staff)
  BY ExportAssumption, FS_Subset
<1>2. PICK n \in Nat : n = Cardinality(staff)
  BY <1>1, FS_CardinalityType
<1>3. PICK s : s = Sorted(staff)
  OBVIOUS
<1>4. IsSorted(s, staff)
  BY <1>1, <1>3, SortedExists DEF Sorted, IsSorted
<1>5. s \in [1..n -> staff] /\ \A i, j \in 1..n : i < j => s[i] < s[j]
  BY <1>2, <1>4 DEF IsSorted
<1>6. \A i, j \in 1..n : s[i] = s[j] => i = j
  <2> SUFFICES ASSUME NEW i \in 1..n, NEW j \in 1..n, s[i] = s[j] PROVE i = j
    OBVIOUS
  <2>1. s[i] \in Int /\ s[j] \in Int
    BY <1>1, <1>5
  <2>2. QED BY <2>1, <1>5
<1>7. s \in Injection(1..n, staff)
  BY <1>5, <1>6 DEF Injection, IsInjective
<1>8. Cardinality(1..n) = n
  BY FS_Interval
<1>9. s \in Surjection(1..n, staff)
  BY <1>1, <1>2, <1>7, <1>8, FS_Injection
<1>10. \A u \in staff : \E i \in 1..n : s[i] = u
  BY <1>9 DEF Surjection
<1>11. Len(s) = n
  <2>1. s \in Seq(staff)
    BY <1>5, SeqDef
  <2>2. DOMAIN s = 1..n /\ DOMAIN s = 1..Len(s) /\ Len(s) \in Nat
    BY <2>1, <1>5, LenProperties
  <2>3. QED BY <2>2
<1>12. QED BY <1>2, <1>3, <1>5, <1>6, <1>10, <1>11

-----------------------------------------------------------------------------
BatchesCut(batches, staff) ==
  /\ \A i \in DOMAIN batches : batches[i] \subseteq staff
  /\ \A u \in staff : \E i \in DOMAIN batches :
       u \in batches[i] /\ \A j \in DOMAIN batches : u \in batches[j] => j = i

Days(range) == range.from..range.to

RangesCut(ranges, from, to) ==
  /\ \A i \in DOMAIN ranges : Days(ranges[i]) \subseteq from..to
  /\ \A d \in from..to : \E i \in DOMAIN ranges :
       d \in Days(ranges[i]) /\ \A j \in DOMAIN ranges : d \in Days(ranges[j]) => j = i

Lists(chunk, u, d) == u \in chunk.users /\ d \in Days(chunk)

ChunksCut(chunks, staff, from, to) ==
  /\ \A c \in chunks : c.users \subseteq staff /\ Days(c) \subseteq from..to
  /\ \A u \in staff, d \in from..to : \E c \in chunks :
       Lists(c, u, d) /\ \A e \in chunks : Lists(e, u, d) => e = c

LEMMA CrossedCuts ==
  ASSUME NEW batches, NEW ranges, NEW staff, NEW from, NEW to,
         BatchesCut(batches, staff), RangesCut(ranges, from, to)
  PROVE  ChunksCut(Crossed(batches, ranges), staff, from, to)
<1>1. \A c \in Crossed(batches, ranges) : \E i \in DOMAIN batches, j \in DOMAIN ranges :
        c = Chunk(batches[i], ranges[j])
  BY DEF Crossed
<1>2. \A i \in DOMAIN batches, j \in DOMAIN ranges :
        Chunk(batches[i], ranges[j]) \in Crossed(batches, ranges)
  BY DEF Crossed
<1>3. \A b, r : Chunk(b, r).users = b /\ Days(Chunk(b, r)) = Days(r)
  BY DEF Chunk, Days
<1>4. \A c \in Crossed(batches, ranges) : c.users \subseteq staff /\ Days(c) \subseteq from..to
  BY <1>1, <1>3 DEF BatchesCut, RangesCut
<1>5. ASSUME NEW u \in staff, NEW d \in from..to
      PROVE  \E c \in Crossed(batches, ranges) :
               Lists(c, u, d) /\ \A e \in Crossed(batches, ranges) : Lists(e, u, d) => e = c
  <2>1. PICK i \in DOMAIN batches :
          u \in batches[i] /\ \A k \in DOMAIN batches : u \in batches[k] => k = i
    BY DEF BatchesCut
  <2>2. PICK j \in DOMAIN ranges :
          d \in Days(ranges[j]) /\ \A k \in DOMAIN ranges : d \in Days(ranges[k]) => k = j
    BY DEF RangesCut
  <2>3. PICK c : c = Chunk(batches[i], ranges[j])
    OBVIOUS
  <2>4. c \in Crossed(batches, ranges) /\ Lists(c, u, d)
    BY <2>1, <2>2, <2>3, <1>2, <1>3 DEF Lists
  <2>5. ASSUME NEW e \in Crossed(batches, ranges), Lists(e, u, d) PROVE e = c
    <3>1. PICK k \in DOMAIN batches, m \in DOMAIN ranges : e = Chunk(batches[k], ranges[m])
      BY <1>1
    <3>2. u \in batches[k] /\ d \in Days(ranges[m])
      BY <2>5, <3>1, <1>3 DEF Lists
    <3>3. QED BY <2>1, <2>2, <2>3, <3>1, <3>2
  <2>6. QED BY <2>4, <2>5
<1>6. QED BY <1>4, <1>5 DEF ChunksCut

LEMMA SinglesCut ==
  ASSUME NEW staff \in SUBSET Employee
  PROVE  BatchesCut(Singles(staff), staff)
<1>1. PICK n \in Nat :
           /\ n = Cardinality(staff) /\ Sorted(staff) \in [1..n -> staff]
           /\ \A i, j \in 1..n : Sorted(staff)[i] = Sorted(staff)[j] => i = j
           /\ \A u \in staff : \E i \in 1..n : Sorted(staff)[i] = u
  BY SortedIsWhole
<1>2. DOMAIN Singles(staff) = 1..n /\ \A i \in 1..n : Singles(staff)[i] = {Sorted(staff)[i]}
  BY <1>1 DEF Singles
<1>3. QED BY <1>1, <1>2 DEF BatchesCut

LEMMA FullBatchesCut ==
  ASSUME NEW staff \in SUBSET Employee
  PROVE  BatchesCut(SplitIntoBatches(staff), staff)
<1>1. PICK n \in Nat :
           /\ n = Cardinality(staff) /\ Sorted(staff) \in [1..n -> staff]
           /\ Len(Sorted(staff)) = n
           /\ \A i, j \in 1..n : Sorted(staff)[i] = Sorted(staff)[j] => i = j
           /\ \A u \in staff : \E i \in 1..n : Sorted(staff)[i] = u
  BY SortedIsWhole
<1>2. UsersPerBatch \in Nat \ {0}
  BY ExportAssumption
<1>3. PICK s, size, count :
        s = Sorted(staff) /\ size = UsersPerBatch /\ count = (n + size - 1) \div size
  OBVIOUS
<1>4. /\ DOMAIN s = 1..n /\ DOMAIN SplitIntoBatches(staff) = 1..count
      /\ \A i \in 1..count : SplitIntoBatches(staff)[i] =
           {s[j] : j \in {k \in 1..n : (k - 1) \div size = i - 1}}
  BY <1>1, <1>3 DEF SplitIntoBatches
<1>5. size \in Nat \ {0} /\ n + size - 1 \in Nat
  BY <1>2, <1>3
<1>6. count \in Nat /\ count * size <= n + size - 1 /\ n + size - 1 < count * size + size
  BY <1>3, <1>5, Quotient
<1>7. ASSUME NEW k \in 1..n PROVE (k - 1) \div size \in 0..(count - 1)
  <2>1. PICK q : q = (k - 1) \div size
    OBVIOUS
  <2>2. k - 1 \in Nat
    OBVIOUS
  <2>3. q \in Nat /\ q * size <= k - 1
    BY <1>5, <2>1, <2>2, Quotient
  <2>4. q < count
    <3>1. SUFFICES ASSUME ~(q < count) PROVE FALSE
      OBVIOUS
    <3>2. count < q \/ count = q
      BY <3>1, <2>3, <1>6
    <3>3. count * size \in Nat /\ q * size \in Nat
      BY <2>3, <1>5, <1>6
    <3>4. count * size <= q * size
      <4>1. CASE count = q
        BY <4>1, <3>3
      <4>2. CASE count < q
        BY <4>2, <3>3, <2>3, <1>5, <1>6, LaterBegins
      <4>3. QED BY <3>2, <4>1, <4>2
    <3>5. QED BY <3>3, <3>4, <2>3, <1>5, <1>6
  <2>5. QED BY <2>1, <2>3, <2>4, <1>6
<1>8. \A i \in 1..count : \A u : u \in SplitIntoBatches(staff)[i] <=>
        \E k \in 1..n : u = s[k] /\ (k - 1) \div size = i - 1
  BY <1>4
<1>9. ASSUME NEW i \in 1..count PROVE SplitIntoBatches(staff)[i] \subseteq staff
  BY <1>1, <1>3, <1>8
<1>10. ASSUME NEW u \in staff
       PROVE  \E i \in 1..count : u \in SplitIntoBatches(staff)[i] /\
                \A j \in 1..count : u \in SplitIntoBatches(staff)[j] => j = i
  <2>1. PICK k \in 1..n : s[k] = u
    BY <1>1, <1>3
  <2>2. PICK q : q = (k - 1) \div size
    OBVIOUS
  <2>3. q \in 0..(count - 1)
    BY <2>2, <1>7
  <2>4. q + 1 \in 1..count /\ (q + 1) - 1 = q
    BY <2>3, <1>6
  <2>5. u \in SplitIntoBatches(staff)[q + 1]
    BY <2>1, <2>2, <2>4, <1>8
  <2>6. ASSUME NEW j \in 1..count, u \in SplitIntoBatches(staff)[j] PROVE j = q + 1
    <3>1. PICK m \in 1..n : u = s[m] /\ (m - 1) \div size = j - 1
      BY <2>6, <1>8
    <3>2. m = k
      BY <3>1, <2>1, <1>1, <1>3
    <3>3. j - 1 = q
      BY <3>1, <3>2, <2>2
    <3>4. QED BY <3>3, <2>3, <1>6
  <2>7. QED BY <2>4, <2>5, <2>6
<1>11. QED BY <1>4, <1>9, <1>10 DEF BatchesCut

RegularParts(ranges, from, to, L) ==
  /\ DOMAIN ranges = 1..((to \div L) - (from \div L) + 1)
  /\ \A i \in DOMAIN ranges, y \in Nat : y = (from \div L) + i - 1 =>
       \A d \in Int : d \in Days(ranges[i]) <=> d \in from..to /\ y * L <= d /\ d < y * L + L
  /\ \A i \in DOMAIN ranges : Days(ranges[i]) \subseteq Nat

\* A period cut at the multiples of a length, first and last parts shortened.
LEMMA RegularRangesCut ==
  ASSUME NEW L \in Nat \ {0}, NEW from \in Nat, NEW to \in Nat, from <= to, NEW ranges,
         RegularParts(ranges, from, to, L)
  PROVE  RangesCut(ranges, from, to)
<1>1. PICK f, t : f = from \div L /\ t = to \div L
  OBVIOUS
<1>2. f \in Nat /\ t \in Nat /\ f * L <= from /\ to < t * L + L /\ from < f * L + L
  BY <1>1, Quotient
<1>3. DOMAIN ranges = 1..(t - f + 1) /\ \A i \in DOMAIN ranges : f + i - 1 \in Nat
  BY <1>1, <1>2 DEF RegularParts
<1>4. \A i \in DOMAIN ranges, d \in Nat : d \in Days(ranges[i]) <=>
        d \in from..to /\ d \div L = f + i - 1
  <2> SUFFICES ASSUME NEW i \in DOMAIN ranges, NEW d \in Nat
               PROVE  d \in Days(ranges[i]) <=> d \in from..to /\ d \div L = f + i - 1
    OBVIOUS
  <2>1. PICK y \in Nat : y = f + i - 1
    BY <1>3
  <2>2. d \in Days(ranges[i]) <=> d \in from..to /\ y * L <= d /\ d < y * L + L
    BY <2>1, <1>1 DEF RegularParts
  <2>3. (d \div L = y) <=> (y * L <= d /\ d < y * L + L)
    BY QuotientIs
  <2>4. QED BY <2>1, <2>2, <2>3
<1>5. \A i \in DOMAIN ranges : Days(ranges[i]) \subseteq from..to
  BY <1>4 DEF RegularParts
<1>6. ASSUME NEW d \in from..to
      PROVE  \E i \in DOMAIN ranges :
               d \in Days(ranges[i]) /\ \A j \in DOMAIN ranges : d \in Days(ranges[j]) => j = i
  <2>1. PICK q : q = d \div L
    OBVIOUS
  <2>2. q \in Nat /\ q * L <= d /\ d < q * L + L
    BY <2>1, Quotient
  <2>3. q >= f /\ q <= t
    <3>1. q < f => q * L + L <= f * L
      BY <1>2, <2>2, LaterBegins
    <3>2. t < q => t * L + L <= q * L
      BY <1>2, <2>2, LaterBegins
    <3>3. q * L \in Nat /\ f * L \in Nat /\ t * L \in Nat
      BY <1>2, <2>2
    <3>4. QED BY <3>1, <3>2, <3>3, <2>2, <1>2
  <2>4. PICK i \in Nat : i = q - f + 1
    BY <2>2, <2>3, <1>2
  <2>5. i \in DOMAIN ranges /\ f + i - 1 = q
    BY <2>2, <2>3, <2>4, <1>2, <1>3
  <2>6. d \in Days(ranges[i])
    BY <2>1, <2>5, <1>4
  <2>7. ASSUME NEW j \in DOMAIN ranges, d \in Days(ranges[j]) PROVE j = i
    <3>1. q = f + j - 1
      BY <2>1, <2>7, <1>4
    <3>2. j \in Nat
      BY <1>2, <1>3
    <3>3. QED BY <3>1, <3>2, <2>4, <1>2
  <2>8. QED BY <2>5, <2>6, <2>7
<1>7. QED BY <1>5, <1>6 DEF RangesCut

LEMMA YearsCut ==
  ASSUME NEW from \in Nat, NEW to \in Nat, from <= to
  PROVE  RangesCut(SplitIntoYears(from, to), from, to)
<1>1. PICK L \in Nat \ {0} : L = YearLength
  BY ExportAssumption
<1>2. PICK f, t, ranges : f = from \div L /\ t = to \div L /\ ranges = SplitIntoYears(from, to)
  OBVIOUS
<1>3. f \in Nat /\ t \in Nat /\ f * L <= from /\ to < t * L + L
  BY <1>2, Quotient
<1>4. DOMAIN ranges = 1..(t - f + 1)
  BY <1>1, <1>2 DEF SplitIntoYears, YearOf
<1>5. ASSUME NEW i \in DOMAIN ranges, NEW y \in Nat, y = f + i - 1
      PROVE  /\ ranges[i].from = IF y = f THEN from ELSE y * L
             /\ ranges[i].to = IF y = t THEN to ELSE (y + 1) * L - 1
  BY <1>1, <1>2, <1>4, <1>5 DEF SplitIntoYears, YearOf, Dates
<1>6. ASSUME NEW i \in DOMAIN ranges PROVE f + i - 1 \in f..t
  BY <1>3, <1>4
<1>7. ASSUME NEW i \in DOMAIN ranges, NEW y \in Nat, y = f + i - 1
      PROVE  \A d \in Int : d \in Days(ranges[i]) <=>
               d \in from..to /\ y * L <= d /\ d < y * L + L
  <2>1. PICK a, b : a = ranges[i].from /\ b = ranges[i].to
    OBVIOUS
  <2>2. /\ a = IF y = f THEN from ELSE y * L
        /\ b = IF y = t THEN to ELSE (y + 1) * L - 1
    BY <2>1, <1>5, <1>7
  <2>3. PICK low \in Nat : low = y * L
    OBVIOUS
  <2>4. (y + 1) * L = low + L
    BY <2>3
  <2>5. y \in f..t
    BY <1>6, <1>7
  <2>6. y # f => from <= low
    <3>1. from < f * L + L
      BY <1>2, Quotient
    <3>2. y # f => f * L + L <= low
      BY <2>3, <2>5, <1>3, LaterBegins
    <3>3. f * L \in Nat
      BY <1>3
    <3>4. QED BY <3>1, <3>2, <3>3, <2>3
  <2>7. y # t => low + L <= to
    <3>1. t * L <= to
      BY <1>2, Quotient
    <3>2. y # t => low + L <= t * L
      BY <2>3, <2>5, <1>3, LaterBegins
    <3>3. t * L \in Nat
      BY <1>3
    <3>4. QED BY <3>1, <3>2, <3>3, <2>3
  <2>8. y = f => low <= from
    BY <2>3, <1>3
  <2>9. y = t => to < low + L
    BY <2>3, <1>3
  <2>10. a \in Int /\ b \in Int
    BY <2>2, <2>3, <2>4
  <2>11. \A d \in Int : d \in a..b <=> d \in from..to /\ low <= d /\ d < low + L
    BY <2>2, <2>3, <2>4, <2>6, <2>7, <2>8, <2>9, <2>10
  <2>12. QED BY <2>1, <2>3, <2>11 DEF Days
<1>8. \A i \in DOMAIN ranges : \A d \in Days(ranges[i]) : d \in Nat
  <2> SUFFICES ASSUME NEW i \in DOMAIN ranges, NEW d \in Days(ranges[i]) PROVE d \in Nat
    OBVIOUS
  <2>1. PICK y \in Nat : y = f + i - 1
    BY <1>3, <1>6
  <2>2. d \in Int
    <3>1. /\ ranges[i].from = IF y = f THEN from ELSE y * L
          /\ ranges[i].to = IF y = t THEN to ELSE (y + 1) * L - 1
      BY <1>5, <2>1
    <3>2. ranges[i].from \in Int /\ ranges[i].to \in Int
      BY <3>1
    <3>3. QED BY <3>2 DEF Days
  <2>3. QED BY <1>7, <2>1, <2>2
<1>9. RegularParts(ranges, from, to, L)
  BY <1>2, <1>4, <1>7, <1>8 DEF RegularParts
<1>10. QED BY <1>2, <1>9, RegularRangesCut

LEMMA MonthsCut ==
  ASSUME NEW from \in Nat, NEW to \in Nat, from <= to
  PROVE  RangesCut(SplitIntoMonths(from, to), from, to)
<1>1. PICK L \in Nat \ {0} : L = MonthLength
  BY ExportAssumption
<1>2. PICK f, t, ranges : f = from \div L /\ t = to \div L /\ ranges = SplitIntoMonths(from, to)
  OBVIOUS
<1>3. f \in Nat /\ t \in Nat /\ f * L <= from /\ from < f * L + L
  BY <1>2, Quotient
<1>4. DOMAIN ranges = 1..(t - f + 1)
  BY <1>1, <1>2 DEF SplitIntoMonths, MonthOf
<1>5. ASSUME NEW i \in DOMAIN ranges, NEW y \in Nat, y = f + i - 1
      PROVE  /\ ranges[i].from = IF i = 1 THEN from ELSE y * L
             /\ ranges[i].to = IF (y + 1) * L - 1 < to THEN (y + 1) * L - 1 ELSE to
  BY <1>1, <1>2, <1>4, <1>5 DEF SplitIntoMonths, MonthOf, Dates
<1>6. ASSUME NEW i \in DOMAIN ranges PROVE f + i - 1 \in f..t /\ i \in Nat
  BY <1>3, <1>4
<1>7. ASSUME NEW i \in DOMAIN ranges, NEW y \in Nat, y = f + i - 1
      PROVE  /\ ranges[i].from \in Nat /\ ranges[i].to \in Int
             /\ \A d \in Int : d \in Days(ranges[i]) <=>
                  d \in from..to /\ y * L <= d /\ d < y * L + L
  <2>1. PICK a, b : a = ranges[i].from /\ b = ranges[i].to
    OBVIOUS
  <2>2. PICK low \in Nat : low = y * L
    OBVIOUS
  <2>3. (y + 1) * L = low + L
    BY <2>2
  <2>4. /\ a = IF i = 1 THEN from ELSE low
        /\ b = IF low + L - 1 < to THEN low + L - 1 ELSE to
    BY <2>1, <2>2, <2>3, <1>5, <1>7
  <2>5. i = 1 => low <= from
    BY <2>2, <1>3, <1>7
  <2>6. i # 1 => from <= low
    <3>1. i # 1 => f < y
      BY <1>3, <1>6, <1>7
    <3>2. f < y => f * L + L <= low
      BY <2>2, <1>3, LaterBegins
    <3>3. f * L \in Nat
      BY <1>3
    <3>4. QED BY <3>1, <3>2, <3>3, <1>3
  <2>7. a \in Nat /\ b \in Int
    BY <2>4
  <2>8. \A d \in Int : d \in a..b <=> d \in from..to /\ low <= d /\ d < low + L
    BY <2>4, <2>5, <2>6, <2>7
  <2>9. QED BY <2>1, <2>2, <2>7, <2>8 DEF Days
<1>8. ASSUME NEW i \in DOMAIN ranges PROVE Days(ranges[i]) \subseteq Nat
  <2>1. PICK y \in Nat : y = f + i - 1
    BY <1>3, <1>6
  <2>2. QED BY <2>1, <1>7 DEF Days
<1>9. RegularParts(ranges, from, to, L)
  BY <1>2, <1>4, <1>7, <1>8 DEF RegularParts
<1>10. QED BY <1>2, <1>9, RegularRangesCut

\* However a report is cut, each of its days is in one file of its employee.
LEMMA ReportIsCut ==
  ASSUME NEW staff \in SUBSET Employee, NEW from \in Nat, NEW to \in Nat, from <= to, NEW one
  PROVE  ChunksCut(ExportChunks(staff, from, to, one), staff, from, to)
<1>1. RangesCut(<<Dates(from, to)>>, from, to)
  <2>1. PICK ranges : ranges = <<Dates(from, to)>>
    OBVIOUS
  <2>2. DOMAIN ranges = {1} /\ ranges[1] = Dates(from, to)
    BY <2>1
  <2>3. Days(ranges[1]) = from..to
    BY <2>2 DEF Days, Dates
  <2>4. QED BY <2>1, <2>2, <2>3 DEF RangesCut
<1>2. ChunksCut({Chunk(staff, Dates(from, to))}, staff, from, to)
  <2>1. PICK c : c = Chunk(staff, Dates(from, to))
    OBVIOUS
  <2>2. c.users = staff /\ Days(c) = from..to
    BY <2>1 DEF Chunk, Dates, Days
  <2>3. ChunksCut({c}, staff, from, to)
    BY <2>2 DEF ChunksCut, Lists
  <2>4. QED BY <2>1, <2>3
<1>3. QED BY <1>1, <1>2, SinglesCut, FullBatchesCut, YearsCut, MonthsCut, CrossedCuts
         DEF ExportChunks

\* A report with its files.
DaysInOneFile(files, asked) ==
  \A row \in Employee \X (0..LastDate) :
    Cardinality({f \in files : row \in f.rows})
      = IF row \in WorkDaysFor(asked, WorkedOn) THEN 1 ELSE 0

LEMMA FilesAreWhole ==
  ASSUME NEW asked, ChunksCut(asked.chunks, asked.users, asked.from, asked.to)
  PROVE  DaysInOneFile(FilesOf(asked, WorkedOn), asked)
<1> SUFFICES ASSUME NEW row \in Employee \X (0..LastDate)
             PROVE  Cardinality({f \in FilesOf(asked, WorkedOn) : row \in f.rows})
                      = IF row \in WorkDaysFor(asked, WorkedOn) THEN 1 ELSE 0
  BY DEF DaysInOneFile
<1>1. PICK u, d : row = <<u, d>> /\ row[1] = u /\ row[2] = d
  OBVIOUS
<1>2. PICK files : files = FilesOf(asked, WorkedOn)
  OBVIOUS
<1>3. /\ \A f \in files : \E c \in asked.chunks : f = FileOf(c, WorkedOn)
      /\ \A c \in asked.chunks : FileOf(c, WorkedOn) \in files
  BY <1>2 DEF FilesOf
<1>4. \A c : row \in FileOf(c, WorkedOn).rows <=> row \in WorkedOn /\ Lists(c, u, d)
  BY <1>1 DEF FileOf, WorkDaysFor, Lists, Days
<1>5. row \in WorkDaysFor(asked, WorkedOn) <=>
        row \in WorkedOn /\ u \in asked.users /\ d \in asked.from..asked.to
  BY <1>1 DEF WorkDaysFor
<1>6. CASE row \in WorkDaysFor(asked, WorkedOn)
  <2>1. row \in WorkedOn /\ u \in asked.users /\ d \in asked.from..asked.to
    BY <1>5, <1>6
  <2>2. PICK c \in asked.chunks :
          Lists(c, u, d) /\ \A e \in asked.chunks : Lists(e, u, d) => e = c
    BY <2>1 DEF ChunksCut
  <2>3. PICK file : file = FileOf(c, WorkedOn)
    OBVIOUS
  <2>4. file \in files /\ row \in file.rows
    BY <2>1, <2>2, <2>3, <1>3, <1>4
  <2>5. \A f \in files : row \in f.rows => f = file
    BY <2>2, <2>3, <1>3, <1>4
  <2>6. {f \in files : row \in f.rows} = {file}
    BY <2>4, <2>5
  <2>7. QED BY <2>6, <1>2, <1>6, FS_Singleton
<1>7. CASE row \notin WorkDaysFor(asked, WorkedOn)
  <2>1. \A c \in asked.chunks : ~(row \in WorkedOn /\ Lists(c, u, d))
    BY <1>5, <1>7 DEF ChunksCut, Lists
  <2>2. {f \in files : row \in f.rows} = {}
    BY <2>1, <1>3, <1>4
  <2>3. QED BY <2>2, <1>2, <1>7, FS_EmptySet
<1>8. QED BY <1>6, <1>7
-----------------------------------------------------------------------------
\* A message of the queue.
Reports ==
  {[type |-> k, users |-> staff, from |-> f, to |-> t,
    chunks |-> ExportChunks(staff, f, t, one)] :
      k \in {"excel", "refused_cgu"}, staff \in SUBSET Employee,
      f \in 0..LastDate, t \in 0..LastDate, one \in BOOLEAN}

\* The messages the requests send: a period begins before it ends.
Asked == {m \in Reports : m.from <= m.to}

ExportStatus == {"wip", "ready", "downloaded", "cancelled", "failed"}

ExportRow == [message : Asked, status : ExportStatus, path : BOOLEAN]

ExportTask ==
  [at : {"idle", "generate", "refresh", "upload", "commit"}, export : Nat,
   files : {{}} \cup {FilesOf(m, WorkedOn) : m \in Asked}]

HasFile(n) == n \in DOMAIN bucket /\ exports[n].path

Works(task) == task.at # "idle"

WhollyMade(files, n) == files = FilesOf(exports[n].message, WorkedOn)

ExportRowsKept ==
  /\ broker \in Seq(Asked)
  /\ exports \in Seq(ExportRow)
  /\ \A n \in DOMAIN exports : Status(n) \in {"ready", "downloaded"} => HasFile(n)
  /\ DOMAIN bucket \subseteq DOMAIN exports
  /\ \A n \in DOMAIN bucket : WhollyMade(bucket[n], n)

TaskIsKept(task) ==
  /\ Works(task) => task.export \in DOMAIN exports
                    /\ Status(task.export) \in {"wip", "cancelled"}
  /\ task.at \in {"refresh", "upload", "commit"} => WhollyMade(task.files, task.export)
  /\ task.at = "commit" => task.export \in DOMAIN bucket

TasksKept ==
  /\ exportTasks \in [ExportWorker -> ExportTask]
  /\ \A w \in ExportWorker : TaskIsKept(Task(w))
  /\ \A w, x \in ExportWorker :
       Works(Task(w)) /\ Works(Task(x)) /\ w # x => Task(w).export # Task(x).export

Transferable(n) == exports[n].message.type = "refused_cgu" /\ Status(n) = "downloaded"

MayCheckOut(n) ==
  /\ n \in DOMAIN exports /\ Status(n) \in {"ready", "cancelled"} /\ HasFile(n)
  /\ \A w \in ExportWorker : Works(Task(w)) => Task(w).export # n

CheckoutKept ==
  /\ checkout.at = "write" => \A n \in checkout.ready : MayCheckOut(n)
  /\ checkout.at = "date" => \E n \in DOMAIN exports : Transferable(n)
  /\ transferred => \E n \in DOMAIN exports : Transferable(n)

ExportInv == ExportRowsKept /\ TasksKept /\ CheckoutKept

LEMMA RowsOfExports ==
  ASSUME ExportInv
  PROVE  /\ Len(exports) \in Nat /\ DOMAIN exports = 1..Len(exports)
         /\ exports \in [DOMAIN exports -> ExportRow]
BY LenProperties DEF ExportInv, ExportRowsKept

LEMMA ExportsBegin == ExportInit => ExportInv
<1> SUFFICES ASSUME ExportInit PROVE ExportInv
  OBVIOUS
<1>1. /\ exports = <<>> /\ broker = <<>> /\ DOMAIN bucket = {} /\ ~transferred
      /\ checkout.at = "none" /\ exportTasks = [w \in ExportWorker |-> Idle]
  BY DEF ExportInit, NoCheckout
<1>2. ExportRowsKept
  <2>1. broker \in Seq(Asked) /\ exports \in Seq(ExportRow) /\ Len(exports) = 0
    BY <1>1, EmptySeq
  <2>2. DOMAIN exports = {}
    BY <2>1, LenProperties
  <2>3. QED BY <1>1, <2>1, <2>2 DEF ExportRowsKept
<1>3. Idle \in ExportTask /\ Idle.at = "idle"
  BY DEF Idle, ExportTask
<1>4. TasksKept
  BY <1>1, <1>3 DEF TasksKept, TaskIsKept, Task, Works
<1>5. CheckoutKept
  BY <1>1 DEF CheckoutKept
<1>6. QED BY <1>2, <1>4, <1>5 DEF ExportInv

\* What a step that only sends or takes messages leaves alone.
LEMMA BrokerAlone ==
  ASSUME ExportInv, broker' \in Seq(Asked),
         UNCHANGED <<exports, exportTasks, bucket, checkout, transferred>>
  PROVE  ExportInv'
<1>2. ExportRowsKept'
  BY DEF ExportInv, ExportRowsKept, HasFile, WhollyMade, Status
<1>3. TasksKept'
  BY DEF ExportInv, TasksKept, TaskIsKept, WhollyMade, Status, Task, Works
<1>4. CheckoutKept'
  BY DEF ExportInv, CheckoutKept, MayCheckOut, Transferable, HasFile, Status, Task, Works
<1>5. QED BY <1>2, <1>3, <1>4 DEF ExportInv

LEMMA ReportIsAsked ==
  ASSUME NEW k \in {"excel", "refused_cgu"}, NEW staff \in SUBSET Employee,
         NEW f \in 0..LastDate, NEW t \in 0..LastDate, f <= t, NEW one \in BOOLEAN
  PROVE  [type |-> k, users |-> staff, from |-> f, to |-> t,
          chunks |-> ExportChunks(staff, f, t, one)] \in Asked
<1>1. PICK m : m = [type |-> k, users |-> staff, from |-> f, to |-> t,
                    chunks |-> ExportChunks(staff, f, t, one)]
  OBVIOUS
<1>2. m \in Reports
  BY <1>1 DEF Reports
<1>3. m.from = f /\ m.to = t
  BY <1>1
<1>4. QED BY <1>1, <1>2, <1>3 DEF Asked

LEMMA AskedIsCut ==
  ASSUME NEW m \in Asked
  PROVE  ChunksCut(m.chunks, m.users, m.from, m.to)
<1>1. PICK k \in {"excel", "refused_cgu"}, staff \in SUBSET Employee, f \in 0..LastDate,
           t \in 0..LastDate, one \in BOOLEAN :
        m = [type |-> k, users |-> staff, from |-> f, to |-> t,
             chunks |-> ExportChunks(staff, f, t, one)]
  BY DEF Asked, Reports
<1>2. m.chunks = ExportChunks(staff, f, t, one) /\ m.users = staff /\ m.from = f /\ m.to = t
  BY <1>1
<1>3. f <= t /\ f \in Nat /\ t \in Nat
  BY <1>2 DEF Asked
<1>4. QED BY <1>2, <1>3, ReportIsCut

LEMMA RequestReportKeeps ==
  ASSUME ExportInv, NEW staff \in SUBSET Employee, NEW from \in 0..LastDate,
         NEW to \in 0..LastDate, from <= to, NEW one \in BOOLEAN,
         RequestReport(staff, from, to, one)
  PROVE  ExportInv'
<1>1. PICK m : m = [type |-> "excel", users |-> staff, from |-> from, to |-> to,
                    chunks |-> ExportChunks(staff, from, to, one)]
  OBVIOUS
<1>3. m \in Asked
  BY <1>1, ReportIsAsked
<1>4. /\ broker' = Append(broker, m)
      /\ UNCHANGED <<exports, exportTasks, bucket, checkout, transferred>>
  BY <1>1 DEF RequestReport
<1>5. broker' \in Seq(Asked)
  BY <1>3, <1>4, AppendProperties DEF ExportInv, ExportRowsKept
<1>6. QED BY <1>4, <1>5, BrokerAlone

LEMMA RequestFullDataKeeps ==
  ASSUME ExportInv, RequestFullData
  PROVE  ExportInv'
<1>1. PICK sent \in 1..Cardinality(ExportCompany) : \E order \in [1..sent -> ExportCompany] :
        /\ broker' = broker \o [i \in 1..sent |-> FullReport(order[i])]
        /\ UNCHANGED <<exports, exportTasks, bucket, checkout, transferred>>
  BY DEF RequestFullData
<1>2. PICK order \in [1..sent -> ExportCompany] :
        /\ broker' = broker \o [i \in 1..sent |-> FullReport(order[i])]
        /\ UNCHANGED <<exports, exportTasks, bucket, checkout, transferred>>
  BY <1>1
<1>3. ASSUME NEW c \in ExportCompany PROVE FullReport(c) \in Asked
  <2>1. /\ StaffOf[c] \in SUBSET Employee /\ 0 <= LastDate
        /\ 0 \in 0..LastDate /\ LastDate \in 0..LastDate
    BY ExportAssumption
  <2>2. QED BY <2>1, ReportIsAsked DEF FullReport
<1>4. PICK messages : messages = [i \in 1..sent |-> FullReport(order[i])]
  OBVIOUS
<1>5. messages \in [1..sent -> Asked]
  BY <1>3, <1>4
<1>6. sent \in Nat
  OBVIOUS
<1>7. messages \in Seq(Asked)
  BY <1>5, <1>6, SeqDef
<1>8. broker' \in Seq(Asked)
  BY <1>2, <1>4, <1>7, ConcatProperties DEF ExportInv, ExportRowsKept
<1>9. QED BY <1>2, <1>8, BrokerAlone

LEMMA LoseMessageKeeps ==
  ASSUME ExportInv, NEW w \in ExportWorker, LoseMessage(w)
  PROVE  ExportInv'
<1>1. /\ broker # <<>> /\ broker' = Tail(broker)
      /\ UNCHANGED <<exports, exportTasks, bucket, checkout, transferred>>
  BY DEF LoseMessage
<1>2. broker' \in Seq(Asked)
  BY <1>1, HeadTailProperties DEF ExportInv, ExportRowsKept
<1>3. QED BY <1>1, <1>2, BrokerAlone

Unworked(n) == \A w \in ExportWorker : Works(Task(w)) => Task(w).export # n

OthersAreKept(w) ==
  \A x \in ExportWorker : x # w => \A t \in ExportTask : t = Task(x) => TaskIsKept(t)'

LEMMA TaskGoesOn ==
  ASSUME ExportInv, NEW w \in ExportWorker, NEW task \in ExportTask,
         Step(w, task), TaskIsKept(task)', OthersAreKept(w),
         Works(task) => Works(Task(w)) /\ task.export = Task(w).export
  PROVE  TasksKept' /\ \A n : Unworked(n) => Unworked(n)'
<1>1. /\ exportTasks \in [ExportWorker -> ExportTask]
      /\ exportTasks' = [exportTasks EXCEPT ![w] = task]
  BY DEF ExportInv, TasksKept, Step
<1>2. /\ exportTasks' \in [ExportWorker -> ExportTask]
      /\ exportTasks'[w] = task
      /\ \A x \in ExportWorker : x # w => exportTasks'[x] = exportTasks[x]
  BY <1>1
<1>3. ASSUME NEW x \in ExportWorker, NEW t, t = exportTasks'[x] PROVE TaskIsKept(t)'
  <2>1. CASE x = w
    BY <2>1, <1>2, <1>3
  <2>2. CASE x # w
    <3>1. t \in ExportTask /\ t = Task(x)
      BY <2>2, <1>1, <1>2, <1>3 DEF Task
    <3>2. QED BY <3>1, <2>2 DEF OthersAreKept
  <2>3. QED BY <2>1, <2>2
<1>4. \A x \in ExportWorker : TaskIsKept(Task(x))'
  BY <1>3 DEF Task, TaskIsKept, Works, Status, WhollyMade
<1>5. \A x, y \in ExportWorker :
        Works(Task(x)) /\ Works(Task(y)) /\ x # y => Task(x).export # Task(y).export
  BY DEF ExportInv, TasksKept
<1>6. \A x, y \in ExportWorker :
        Works(exportTasks'[x]) /\ Works(exportTasks'[y]) /\ x # y =>
          exportTasks'[x].export # exportTasks'[y].export
  BY <1>2, <1>5 DEF Task
<1>7. TasksKept'
  BY <1>2, <1>4, <1>6 DEF TasksKept, Task, Works
<1>8. \A n : Unworked(n) => Unworked(n)'
  BY <1>2 DEF Unworked, Task, Works
<1>9. QED BY <1>7, <1>8

LEMMA TasksSay ==
  ASSUME ExportInv, NEW w \in ExportWorker
  PROVE  /\ Task(w) \in ExportTask /\ TaskIsKept(Task(w))
         /\ \A x \in ExportWorker : Works(Task(w)) /\ Works(Task(x)) /\ w # x =>
              Task(w).export # Task(x).export
BY DEF ExportInv, TasksKept, Task

\* A step of a task that writes no row.
LEMMA TaskAlone ==
  ASSUME ExportInv, NEW w \in ExportWorker, NEW task \in ExportTask, Step(w, task),
         Works(task) => Works(Task(w)) /\ task.export = Task(w).export,
         UNCHANGED <<broker, exports, checkout, transferred>>,
         DOMAIN bucket \subseteq DOMAIN bucket', ExportRowsKept', TaskIsKept(task)'
  PROVE  ExportInv'
<1>1. OthersAreKept(w)
  <2> SUFFICES ASSUME NEW x \in ExportWorker, NEW t \in ExportTask, t = Task(x)
               PROVE  TaskIsKept(t)'
    BY DEF OthersAreKept
  <2>1. TaskIsKept(t)
    BY TasksSay
  <2>2. QED BY <2>1 DEF TaskIsKept, WhollyMade, Status
<1>2. TasksKept' /\ \A n : Unworked(n) => Unworked(n)'
  BY <1>1, TaskGoesOn
<1>3. CheckoutKept'
  <2>1. \A n : MayCheckOut(n) => MayCheckOut(n)'
    BY <1>2 DEF MayCheckOut, Unworked, HasFile, Status
  <2>2. \A n : Transferable(n) => Transferable(n)'
    BY DEF Transferable, Status
  <2>3. CheckoutKept
    BY DEF ExportInv
  <2>4. QED BY <2>1, <2>2, <2>3 DEF CheckoutKept
<1>4. QED BY <1>2, <1>3 DEF ExportInv

LEMMA NoRowTouched ==
  ASSUME ExportInv, UNCHANGED <<broker, exports, bucket>>
  PROVE  ExportRowsKept'
BY DEF ExportInv, ExportRowsKept, HasFile, WhollyMade, Status

LEMMA GenerateKeeps ==
  ASSUME ExportInv, NEW w \in ExportWorker, Generate(w)
  PROVE  ExportInv'
<1>1. PICK old \in ExportTask : old = Task(w)
  BY TasksSay
<1>2. PICK n : n = old.export
  OBVIOUS
<1>3. old.at = "generate" /\ n \in DOMAIN exports /\ Status(n) \in {"wip", "cancelled"}
  BY <1>1, <1>2, TasksSay DEF Generate, TaskIsKept, Works
<1>4. PICK asked \in Asked : asked = exports[n].message
  BY <1>3, RowsOfExports DEF ExportRow
<1>5. PICK task : task = [old EXCEPT !.at = "refresh", !.files = FilesOf(asked, WorkedOn)]
  OBVIOUS
<1>6. /\ task \in ExportTask /\ task.at = "refresh" /\ task.export = n
      /\ task.files = FilesOf(asked, WorkedOn)
  BY <1>2, <1>4, <1>5 DEF ExportTask
<1>7. Step(w, task) /\ UNCHANGED <<broker, exports, bucket, checkout, transferred>>
  BY <1>1, <1>2, <1>4, <1>5 DEF Generate
<1>8. TaskIsKept(task)'
  BY <1>3, <1>4, <1>6, <1>7 DEF TaskIsKept, WhollyMade, Status
<1>9. Works(Task(w)) /\ task.export = Task(w).export
  BY <1>1, <1>2, <1>3, <1>6 DEF Works
<1>10. QED BY <1>6, <1>7, <1>8, <1>9, NoRowTouched, TaskAlone

LEMMA IdleIsKept == Idle \in ExportTask /\ ~Works(Idle) /\ TaskIsKept(Idle)'
BY DEF Idle, ExportTask, Works, TaskIsKept

LEMMA AbortKeeps ==
  ASSUME ExportInv, NEW w \in ExportWorker, AbortIfCancelled(w)
  PROVE  ExportInv'
<1>1. PICK old \in ExportTask : old = Task(w)
  BY TasksSay
<1>2. PICK task : task = IF Status(old.export) = "cancelled" THEN Idle
                         ELSE [old EXCEPT !.at = "upload"]
  OBVIOUS
<1>3. /\ old.at = "refresh" /\ TaskIsKept(old) /\ Step(w, task)
      /\ UNCHANGED <<broker, exports, bucket, checkout, transferred>>
  BY <1>1, <1>2, TasksSay DEF AbortIfCancelled
<1>4. CASE task = Idle
  BY <1>3, <1>4, IdleIsKept, NoRowTouched, TaskAlone
<1>5. CASE task = [old EXCEPT !.at = "upload"]
  <2>1. /\ task \in ExportTask /\ task.at = "upload" /\ task.export = old.export
        /\ task.files = old.files
    BY <1>5 DEF ExportTask
  <2>2. TaskIsKept(task)'
    BY <1>3, <2>1 DEF TaskIsKept, WhollyMade, Status, Works
  <2>3. Works(Task(w)) /\ task.export = Task(w).export
    BY <1>1, <1>3, <2>1 DEF Works
  <2>4. QED BY <1>3, <2>1, <2>2, <2>3, NoRowTouched, TaskAlone
<1>6. QED BY <1>2, <1>4, <1>5

LEMMA UploadKeeps ==
  ASSUME ExportInv, NEW w \in ExportWorker, Upload(w)
  PROVE  ExportInv'
<1>1. PICK old \in ExportTask : old = Task(w)
  BY TasksSay
<1>2. PICK n, files : n = old.export /\ files = old.files
  OBVIOUS
<1>3. PICK task : task = [old EXCEPT !.at = "commit"]
  OBVIOUS
<1>4. /\ old.at = "upload" /\ Step(w, task)
      /\ bucket' = [k \in DOMAIN bucket \cup {n} |-> IF k = n THEN files ELSE bucket[k]]
      /\ UNCHANGED <<broker, exports, checkout, transferred>>
  BY <1>1, <1>2, <1>3 DEF Upload
<1>5. /\ n \in DOMAIN exports /\ Status(n) \in {"wip", "cancelled"} /\ WhollyMade(files, n)
  BY <1>1, <1>2, <1>4, TasksSay DEF TaskIsKept, Works
<1>6. /\ task \in ExportTask /\ task.at = "commit" /\ task.export = n /\ task.files = files
  BY <1>2, <1>3 DEF ExportTask
<1>7. /\ DOMAIN bucket' = DOMAIN bucket \cup {n} /\ bucket'[n] = files
      /\ \A k \in DOMAIN bucket : k # n => bucket'[k] = bucket[k]
  BY <1>4
<1>8. TaskIsKept(task)'
  BY <1>4, <1>5, <1>6, <1>7 DEF TaskIsKept, WhollyMade, Status
<1>9. ExportRowsKept'
  BY <1>4, <1>5, <1>7 DEF ExportInv, ExportRowsKept, HasFile, WhollyMade, Status
<1>10. Works(Task(w)) /\ task.export = Task(w).export
  BY <1>1, <1>2, <1>4, <1>6 DEF Works
<1>11. QED BY <1>4, <1>6, <1>7, <1>8, <1>9, <1>10, TaskAlone

\* The rows are written again, each with its message.
SameMessages == \A n \in DOMAIN exports : exports'[n].message = exports[n].message

RowsKeepTheirFiles ==
  \A n \in DOMAIN exports : exports'[n].status \in {"ready", "downloaded"} =>
    n \in DOMAIN bucket /\ exports'[n].path

LEMMA RowsRewritten ==
  ASSUME ExportInv, exports' \in [DOMAIN exports -> ExportRow], SameMessages,
         UNCHANGED <<broker, bucket>>, RowsKeepTheirFiles
  PROVE  ExportRowsKept' /\ DOMAIN exports' = DOMAIN exports
<1>1. Len(exports) \in Nat /\ DOMAIN exports = 1..Len(exports)
  BY RowsOfExports
<1>2. exports' \in Seq(ExportRow) /\ DOMAIN exports' = DOMAIN exports
  BY <1>1, SeqDef
<1>3. QED
  BY <1>2 DEF ExportInv, ExportRowsKept, HasFile, WhollyMade, Status, SameMessages,
     RowsKeepTheirFiles

LEMMA StartExportKeeps ==
  ASSUME ExportInv, NEW w \in ExportWorker, StartExport(w)
  PROVE  ExportInv'
<1>1. PICK m, n, row, task :
        /\ m = Head(broker) /\ n = Len(exports) + 1
        /\ row = [message |-> m, status |-> "wip", path |-> FALSE]
        /\ task = [Idle EXCEPT !.at = "generate", !.export = n]
  OBVIOUS
<1>2. /\ broker # <<>> /\ exports' = Append(exports, row) /\ broker' = Tail(broker)
      /\ Step(w, task) /\ UNCHANGED <<bucket, checkout, transferred>> /\ Task(w).at = "idle"
  BY <1>1 DEF StartExport
<1>3. broker \in Seq(Asked) /\ exports \in Seq(ExportRow)
  BY DEF ExportInv, ExportRowsKept
<1>4. m \in Asked /\ broker' \in Seq(Asked)
  BY <1>1, <1>2, <1>3, HeadTailProperties
<1>5. /\ row \in ExportRow /\ row.message = m /\ row.status = "wip"
  BY <1>1, <1>4 DEF ExportRow, ExportStatus
<1>6. /\ Len(exports) \in Nat /\ DOMAIN exports = 1..Len(exports)
      /\ n \in Nat /\ n \notin DOMAIN exports
  BY <1>1, RowsOfExports
<1>7. /\ exports' \in Seq(ExportRow) /\ Len(exports') = n /\ exports'[n] = row
      /\ \A i \in DOMAIN exports : exports'[i] = exports[i]
  BY <1>1, <1>2, <1>3, <1>5, <1>6, AppendProperties
<1>8. DOMAIN exports' = DOMAIN exports \cup {n}
  <2>1. DOMAIN exports' = 1..n
    BY <1>7, LenProperties
  <2>2. QED BY <2>1, <1>1, <1>6
<1>9. ExportRowsKept'
  <2>1. \A i \in DOMAIN exports' : Status(i)' \in {"ready", "downloaded"} =>
          i \in DOMAIN bucket' /\ exports'[i].path
    BY <1>2, <1>5, <1>7, <1>8 DEF ExportInv, ExportRowsKept, HasFile, Status
  <2>2. DOMAIN bucket' \subseteq DOMAIN exports'
    BY <1>2, <1>8 DEF ExportInv, ExportRowsKept
  <2>3. \A i \in DOMAIN bucket' : bucket'[i] = FilesOf(exports'[i].message, WorkedOn)
    BY <1>2, <1>7 DEF ExportInv, ExportRowsKept, WhollyMade
  <2>4. QED BY <1>4, <1>7, <2>1, <2>2, <2>3 DEF ExportRowsKept, HasFile, WhollyMade
<1>10. task \in ExportTask /\ task.at = "generate" /\ task.export = n
  BY <1>1, <1>6 DEF Idle, ExportTask
<1>11. /\ exportTasks' = [exportTasks EXCEPT ![w] = task]
       /\ exportTasks \in [ExportWorker -> ExportTask]
  BY <1>2 DEF Step, ExportInv, TasksKept
<1>12. /\ exportTasks' \in [ExportWorker -> ExportTask] /\ exportTasks'[w] = task
       /\ \A x \in ExportWorker : x # w => exportTasks'[x] = exportTasks[x]
  BY <1>10, <1>11
<1>13. TaskIsKept(task)'
  BY <1>5, <1>7, <1>8, <1>10 DEF TaskIsKept, Status
<1>14. ASSUME NEW t, TaskIsKept(t), t \in ExportTask PROVE TaskIsKept(t)'
  <2>1. t.at \in {"refresh", "upload", "commit"} => Works(t)
    BY DEF Works
  <2>2. QED BY <2>1, <1>2, <1>7, <1>8, <1>14 DEF TaskIsKept, WhollyMade, Status, Works
<1>15. TasksKept'
  <2>1. ASSUME NEW x \in ExportWorker, NEW t, t = exportTasks'[x] PROVE TaskIsKept(t)'
    <3>1. CASE x = w
      BY <3>1, <2>1, <1>12, <1>13
    <3>2. CASE x # w
      BY <3>2, <2>1, <1>12, <1>14, TasksSay DEF Task
    <3>3. QED BY <3>1, <3>2
  <2>2. \A x \in ExportWorker : TaskIsKept(Task(x))'
    BY <2>1 DEF Task, TaskIsKept, Works, Status, WhollyMade
  <2>3. \A x \in ExportWorker : x # w /\ Works(exportTasks'[x]) => exportTasks'[x].export # n
    BY <1>6, <1>12, TasksSay DEF TaskIsKept, Task
  <2>4. \A x, y \in ExportWorker :
          Works(exportTasks'[x]) /\ Works(exportTasks'[y]) /\ x # y =>
            exportTasks'[x].export # exportTasks'[y].export
    BY <2>3, <1>10, <1>12, TasksSay DEF Task
  <2>5. QED BY <2>2, <2>4, <1>12 DEF TasksKept, Task, Works
<1>16. CheckoutKept'
  <2>1. \A i : MayCheckOut(i) => MayCheckOut(i)'
    BY <1>2, <1>6, <1>7, <1>8, <1>10, <1>12 DEF MayCheckOut, HasFile, Status, Task, Works
  <2>2. \A i \in DOMAIN exports : Transferable(i) => i \in DOMAIN exports' /\ Transferable(i)'
    BY <1>7, <1>8 DEF Transferable, Status
  <2>3. CheckoutKept
    BY DEF ExportInv
  <2>4. QED BY <2>1, <2>2, <2>3, <1>2 DEF CheckoutKept
<1>17. QED BY <1>9, <1>15, <1>16 DEF ExportInv

\* The task of an export writes its row and rests: an export that is ready or
\* failed is worked on by nobody.
LEMMA TaskEnds ==
  ASSUME ExportInv, NEW w \in ExportWorker, NEW row \in ExportRow, Works(Task(w)),
         exports' = [exports EXCEPT ![Task(w).export] = row], Step(w, Idle),
         row.message = exports[Task(w).export].message,
         row.status \in {"ready", "failed"},
         row.status = "ready" => row.path /\ Task(w).at = "commit",
         UNCHANGED <<broker, bucket, checkout, transferred>>
  PROVE  ExportInv'
<1>1. PICK n : n = Task(w).export
  OBVIOUS
<1>2. n \in DOMAIN exports /\ Status(n) \in {"wip", "cancelled"}
  BY <1>1, TasksSay DEF TaskIsKept
<1>3. /\ exports' \in [DOMAIN exports -> ExportRow] /\ exports'[n] = row
      /\ \A i \in DOMAIN exports : i # n => exports'[i] = exports[i]
  BY <1>1, <1>2, RowsOfExports
<1>4. SameMessages
  BY <1>1, <1>3 DEF SameMessages
<1>5. RowsKeepTheirFiles
  <2>1. row.status = "ready" => n \in DOMAIN bucket
    BY <1>1, TasksSay DEF TaskIsKept
  <2>2. QED BY <2>1, <1>3 DEF RowsKeepTheirFiles, ExportInv, ExportRowsKept, HasFile, Status
<1>6. ExportRowsKept' /\ DOMAIN exports' = DOMAIN exports
  BY <1>3, <1>4, <1>5, RowsRewritten
<1>7. OthersAreKept(w)
  <2> SUFFICES ASSUME NEW x \in ExportWorker, x # w, NEW t \in ExportTask, t = Task(x)
               PROVE  TaskIsKept(t)'
    BY DEF OthersAreKept
  <2>1. TaskIsKept(t) /\ (Works(t) => t.export # n)
    BY <1>1, TasksSay
  <2>2. t.at \in {"refresh", "upload", "commit"} => Works(t)
    BY DEF Works
  <2>3. QED BY <2>1, <2>2, <1>3, <1>6 DEF TaskIsKept, WhollyMade, Status
<1>8. TasksKept' /\ \A i : Unworked(i) => Unworked(i)'
  BY <1>7, IdleIsKept, TaskGoesOn
<1>9. CheckoutKept'
  <2>1. \A i : MayCheckOut(i) => i # n
    BY <1>1 DEF MayCheckOut
  <2>2. \A i : MayCheckOut(i) => MayCheckOut(i)'
    BY <2>1, <1>3, <1>6, <1>8 DEF MayCheckOut, Unworked, HasFile, Status
  <2>3. \A i \in DOMAIN exports : Transferable(i) => i \in DOMAIN exports' /\ Transferable(i)'
    BY <1>2, <1>3, <1>6 DEF Transferable, Status
  <2>4. CheckoutKept
    BY DEF ExportInv
  <2>5. QED BY <2>2, <2>3, <2>4 DEF CheckoutKept
<1>10. QED BY <1>6, <1>8, <1>9 DEF ExportInv

LEMMA MarkReadyKeeps ==
  ASSUME ExportInv, NEW w \in ExportWorker, MarkReady(w)
  PROVE  ExportInv'
<1>1. PICK n : n = Task(w).export
  OBVIOUS
<1>2. Task(w).at = "commit" /\ Works(Task(w)) /\ n \in DOMAIN exports
  BY <1>1, TasksSay DEF MarkReady, AfterRefresh, Works, TaskIsKept
<1>3. PICK old \in ExportRow : old = exports[n]
  BY <1>2, RowsOfExports
<1>4. PICK row : row = [old EXCEPT !.status = "ready", !.path = TRUE]
  OBVIOUS
<1>5. row \in ExportRow /\ row.status = "ready" /\ row.path /\ row.message = old.message
  BY <1>4 DEF ExportRow, ExportStatus
<1>6. exports' = [exports EXCEPT ![n].status = "ready", ![n].path = TRUE]
  BY <1>1 DEF MarkReady
<1>7. exports' = [exports EXCEPT ![n] = row]
  BY <1>2, <1>3, <1>4, <1>6, RowsOfExports
<1>8. Step(w, Idle) /\ UNCHANGED <<broker, bucket, checkout, transferred>>
  BY DEF MarkReady
<1>9. QED BY <1>1, <1>2, <1>3, <1>5, <1>7, <1>8, TaskEnds

LEMMA FailExportKeeps ==
  ASSUME ExportInv, NEW w \in ExportWorker, FailExport(w)
  PROVE  ExportInv'
<1>1. PICK n : n = Task(w).export
  OBVIOUS
<1>2. Works(Task(w)) /\ n \in DOMAIN exports
  BY <1>1, TasksSay DEF FailExport, Works, TaskIsKept
<1>3. PICK old \in ExportRow : old = exports[n]
  BY <1>2, RowsOfExports
<1>4. PICK row : row = MarkFailed(old)
  OBVIOUS
<1>5. row \in ExportRow /\ row.status = "failed" /\ row.message = old.message
  BY <1>4 DEF ExportRow, ExportStatus, MarkFailed
<1>6. exports' = [exports EXCEPT ![n] = row]
  BY <1>1, <1>2, <1>3, <1>4, RowsOfExports DEF FailExport
<1>7. Step(w, Idle) /\ UNCHANGED <<broker, bucket, checkout, transferred>>
  BY DEF FailExport
<1>8. QED BY <1>1, <1>2, <1>3, <1>5, <1>6, <1>7, TaskEnds

LEMMA BreakExportKeeps ==
  ASSUME ExportInv, NEW w \in ExportWorker, BreakExport(w)
  PROVE  ExportInv'
<1>1. Step(w, Idle) /\ UNCHANGED <<broker, exports, bucket, checkout, transferred>>
  BY DEF BreakExport
<1>2. QED BY <1>1, IdleIsKept, NoRowTouched, TaskAlone

\* The tasks while a request writes rows.
LEMMA TasksUntouched ==
  ASSUME ExportInv, UNCHANGED <<exportTasks, bucket>>, SameMessages,
         DOMAIN exports' = DOMAIN exports,
         \A w \in ExportWorker : Works(Task(w)) =>
           exports'[Task(w).export].status \in {"wip", "cancelled"}
  PROVE  TasksKept' /\ \A n : Unworked(n) => Unworked(n)'
<1>1. ASSUME NEW w \in ExportWorker, NEW t \in ExportTask, t = exportTasks[w]
      PROVE  TaskIsKept(t)'
  <2>1. t = Task(w) /\ TaskIsKept(t)
    BY <1>1, TasksSay DEF Task
  <2>2. t.at \in {"refresh", "upload", "commit"} => Works(t)
    BY DEF Works
  <2>3. Works(t) => t.export \in DOMAIN exports /\ exports'[t.export].status \in {"wip", "cancelled"}
    BY <2>1 DEF TaskIsKept
  <2>4. QED BY <2>1, <2>2, <2>3 DEF TaskIsKept, WhollyMade, Status, SameMessages
<1>2. \A w \in ExportWorker : TaskIsKept(Task(w))'
  BY <1>1, TasksSay DEF Task, TaskIsKept, Works, Status, WhollyMade
<1>3. TasksKept'
  BY <1>2 DEF ExportInv, TasksKept, Task, Works
<1>4. QED BY <1>3 DEF Unworked, Task, Works

LEMMA CancelKeepsExports ==
  ASSUME ExportInv, CancelExports
  PROVE  ExportInv'
<1>1. /\ exports' = [n \in DOMAIN exports |->
                       IF IsCancellable(Status(n))
                       THEN [exports[n] EXCEPT !.status = "cancelled"] ELSE exports[n]]
      /\ UNCHANGED <<broker, exportTasks, bucket, checkout, transferred>>
  BY DEF CancelExports
<1>2. ASSUME NEW n \in DOMAIN exports
      PROVE  /\ exports'[n] \in ExportRow /\ exports'[n].message = exports[n].message
             /\ exports'[n].path = exports[n].path
             /\ exports'[n].status = IF Status(n) \in {"wip", "ready"} THEN "cancelled"
                                     ELSE Status(n)
  <2>1. PICK old \in ExportRow : old = exports[n]
    BY RowsOfExports
  <2>2. PICK row : row = [old EXCEPT !.status = "cancelled"]
    OBVIOUS
  <2>3. row \in ExportRow /\ row.message = old.message /\ row.path = old.path
        /\ row.status = "cancelled"
    BY <2>2 DEF ExportRow, ExportStatus
  <2>4. exports'[n] = IF Status(n) \in {"wip", "ready"} THEN row ELSE old
    BY <1>1, <2>1, <2>2 DEF IsCancellable
  <2>5. QED BY <2>1, <2>3, <2>4 DEF Status
<1>3. DOMAIN exports' = DOMAIN exports /\ exports' = [n \in DOMAIN exports |-> exports'[n]]
  BY <1>1
<1>4. exports' \in [DOMAIN exports -> ExportRow]
  BY <1>2, <1>3
<1>5. SameMessages /\ RowsKeepTheirFiles
  BY <1>2 DEF SameMessages, RowsKeepTheirFiles, ExportInv, ExportRowsKept, HasFile
<1>6. ExportRowsKept'
  BY <1>1, <1>4, <1>5, RowsRewritten
<1>7. \A w \in ExportWorker : Works(Task(w)) =>
        exports'[Task(w).export].status \in {"wip", "cancelled"}
  BY <1>2, TasksSay DEF TaskIsKept
<1>8. TasksKept' /\ \A n : Unworked(n) => Unworked(n)'
  BY <1>1, <1>3, <1>5, <1>7, TasksUntouched
<1>9. CheckoutKept'
  <2>1. \A n : MayCheckOut(n) => MayCheckOut(n)'
    BY <1>1, <1>2, <1>3, <1>8 DEF MayCheckOut, Unworked, HasFile, Status
  <2>2. \A n \in DOMAIN exports : Transferable(n) => n \in DOMAIN exports' /\ Transferable(n)'
    BY <1>2, <1>3 DEF Transferable, Status
  <2>3. CheckoutKept
    BY DEF ExportInv
  <2>4. QED BY <2>1, <2>2, <2>3, <1>1 DEF CheckoutKept
<1>10. QED BY <1>6, <1>8, <1>9 DEF ExportInv

\* What a checkout does beside the rows.
LEMMA CheckoutAlone ==
  ASSUME ExportInv, UNCHANGED <<broker, exports, exportTasks, bucket>>, CheckoutKept'
  PROVE  ExportInv'
<1>1. TasksKept'
  BY DEF ExportInv, TasksKept, TaskIsKept, WhollyMade, Status, Task, Works
<1>2. QED BY <1>1, NoRowTouched DEF ExportInv

LEMMA BeginCheckoutKeeps ==
  ASSUME ExportInv, BeginCheckout
  PROVE  ExportInv'
<1>1. PICK ready : ready = {n \in DOMAIN exports : IsReady(Status(n))}
  OBVIOUS
<1>2. /\ checkout' = [at |-> "write", ready |-> ready]
      /\ UNCHANGED <<broker, exports, exportTasks, bucket, transferred>>
  BY <1>1 DEF BeginCheckout
<1>3. ASSUME NEW n \in ready PROVE MayCheckOut(n)'
  <2>1. n \in DOMAIN exports /\ Status(n) = "ready" /\ HasFile(n)
    BY <1>1 DEF IsReady, ExportInv, ExportRowsKept
  <2>2. \A w \in ExportWorker : Works(Task(w)) => Task(w).export # n
    BY <2>1, TasksSay DEF TaskIsKept
  <2>3. QED BY <2>1, <2>2, <1>2 DEF MayCheckOut, HasFile, Status, Task, Works
<1>4. transferred' => \E n \in DOMAIN exports' : Transferable(n)'
  BY <1>2 DEF ExportInv, CheckoutKept, Transferable, Status
<1>5. CheckoutKept'
  BY <1>2, <1>3, <1>4 DEF CheckoutKept
<1>6. QED BY <1>2, <1>5, CheckoutAlone

LEMMA AfterCheckoutKeeps ==
  ASSUME ExportInv, CommitTransferDate \/ AbandonCheckout
  PROVE  ExportInv'
<1>1. /\ checkout' = NoCheckout
      /\ transferred' => transferred \/ checkout.at = "date"
      /\ UNCHANGED <<broker, exports, exportTasks, bucket>>
  BY DEF CommitTransferDate, AbandonCheckout
<1>2. transferred' => \E n \in DOMAIN exports' : Transferable(n)'
  BY <1>1 DEF ExportInv, CheckoutKept, Transferable, Status
<1>3. checkout'.at = "none"
  BY <1>1 DEF NoCheckout
<1>4. CheckoutKept'
  BY <1>2, <1>3 DEF CheckoutKept
<1>5. QED BY <1>1, <1>4, CheckoutAlone

LEMMA CommitCheckoutKeeps ==
  ASSUME ExportInv, NEW linked \in SUBSET checkout.ready, CommitCheckout(linked)
  PROVE  ExportInv'
<1>1. PICK ready : ready = checkout.ready
  OBVIOUS
<1>2. PICK transfers : transfers = {n \in ready : IsTransfer(n, linked)}
  OBVIOUS
<1>3. /\ checkout.at = "write"
      /\ exports' = [n \in DOMAIN exports |->
           IF n \notin ready THEN exports[n]
           ELSE [exports[n] EXCEPT !.status = IF n \in linked THEN "downloaded" ELSE "failed"]]
      /\ checkout' = IF transfers = {} THEN NoCheckout
                     ELSE [at |-> "date", ready |-> transfers]
      /\ UNCHANGED <<broker, exportTasks, bucket, transferred>>
  BY <1>1, <1>2 DEF CommitCheckout
<1>4. \A n \in ready : MayCheckOut(n)
  BY <1>1, <1>3 DEF ExportInv, CheckoutKept
<1>5. ASSUME NEW n \in DOMAIN exports
      PROVE  /\ exports'[n] \in ExportRow /\ exports'[n].message = exports[n].message
             /\ exports'[n].path = exports[n].path
             /\ exports'[n].status = IF n \notin ready THEN Status(n)
                                     ELSE IF n \in linked THEN "downloaded" ELSE "failed"
  <2>1. PICK old \in ExportRow : old = exports[n]
    BY RowsOfExports
  <2>2. PICK s : s = IF n \in linked THEN "downloaded" ELSE "failed"
    OBVIOUS
  <2>3. PICK row : row = [old EXCEPT !.status = s]
    OBVIOUS
  <2>4. row \in ExportRow /\ row.message = old.message /\ row.path = old.path /\ row.status = s
    BY <2>2, <2>3 DEF ExportRow, ExportStatus
  <2>5. exports'[n] = IF n \notin ready THEN old ELSE row
    BY <1>3, <2>1, <2>2, <2>3
  <2>6. QED BY <2>1, <2>2, <2>4, <2>5 DEF Status
<1>6. DOMAIN exports' = DOMAIN exports /\ exports' = [n \in DOMAIN exports |-> exports'[n]]
  BY <1>3
<1>7. exports' \in [DOMAIN exports -> ExportRow]
  BY <1>5, <1>6
<1>8. SameMessages
  BY <1>5 DEF SameMessages
<1>9. RowsKeepTheirFiles
  BY <1>4, <1>5 DEF RowsKeepTheirFiles, MayCheckOut, ExportInv, ExportRowsKept, HasFile
<1>10. ExportRowsKept'
  BY <1>3, <1>7, <1>8, <1>9, RowsRewritten
<1>11. \A w \in ExportWorker : Works(Task(w)) =>
         exports'[Task(w).export].status \in {"wip", "cancelled"}
  BY <1>4, <1>5, TasksSay DEF TaskIsKept, MayCheckOut
<1>12. TasksKept'
  BY <1>3, <1>6, <1>8, <1>11, TasksUntouched
<1>13. ASSUME NEW n \in transfers PROVE n \in DOMAIN exports' /\ Transferable(n)'
  <2>1. n \in ready /\ n \in linked /\ exports[n].message.type = "refused_cgu"
    BY <1>2 DEF IsTransfer
  <2>2. n \in DOMAIN exports
    BY <2>1, <1>4 DEF MayCheckOut
  <2>3. QED BY <2>1, <2>2, <1>5, <1>6 DEF Transferable, Status
<1>14. \A n \in DOMAIN exports : Transferable(n) => n \in DOMAIN exports' /\ Transferable(n)'
  BY <1>4, <1>5, <1>6 DEF Transferable, MayCheckOut, Status
<1>15. checkout'.at \in {"none", "date"}
  BY <1>3 DEF NoCheckout
<1>16. checkout'.at = "date" => transfers # {}
  BY <1>3 DEF NoCheckout
<1>17. CheckoutKept'
  <2>1. checkout'.at = "date" => \E n \in DOMAIN exports' : Transferable(n)'
    BY <1>13, <1>16
  <2>2. transferred' => \E n \in DOMAIN exports' : Transferable(n)'
    BY <1>3, <1>14 DEF ExportInv, CheckoutKept
  <2>3. QED BY <2>1, <2>2, <1>15 DEF CheckoutKept
<1>18. QED BY <1>10, <1>12, <1>17 DEF ExportInv

LEMMA ExportsRest ==
  ASSUME ExportInv, UNCHANGED exportVars
  PROVE  ExportInv'
<1>1. UNCHANGED <<broker, exports, exportTasks, bucket, checkout, transferred>>
  BY DEF exportVars
<1>2. CheckoutKept'
  BY <1>1 DEF ExportInv, CheckoutKept, MayCheckOut, Transferable, HasFile, Status, Task, Works
<1>3. QED BY <1>1, <1>2, CheckoutAlone

LEMMA ExportStep == ExportInv /\ [ExportNext]_exportVars => ExportInv'
<1> SUFFICES ASSUME ExportInv, [ExportNext]_exportVars PROVE ExportInv'
  OBVIOUS
<1>1. ASSUME NEW staff \in (SUBSET Employee) \ {{}}, NEW from \in 0..LastDate,
             NEW to \in 0..LastDate, NEW one \in BOOLEAN,
             from <= to, RequestReport(staff, from, to, one)
      PROVE  ExportInv'
  BY <1>1, RequestReportKeeps
<1>2. ASSUME NEW w \in ExportWorker, TaskStep(w) PROVE ExportInv'
  BY <1>2, StartExportKeeps, GenerateKeeps, AbortKeeps, UploadKeeps, MarkReadyKeeps,
     FailExportKeeps, LoseMessageKeeps, BreakExportKeeps DEF TaskStep
<1>3. ASSUME NEW linked \in SUBSET checkout.ready, CommitCheckout(linked) PROVE ExportInv'
  BY <1>3, CommitCheckoutKeeps
<1>4. QED
  BY <1>1, <1>2, <1>3, RequestFullDataKeeps, CancelKeepsExports, BeginCheckoutKeeps,
     AfterCheckoutKeeps, ExportsRest DEF ExportNext

LEMMA ExportInvSays ==
  ExportInv => ExportTypeOK /\ EachDayInOneFile /\ DownloadedHasFile /\ TransferredWasDownloaded
<1> SUFFICES ASSUME ExportInv
             PROVE  ExportTypeOK /\ EachDayInOneFile /\ DownloadedHasFile
                    /\ TransferredWasDownloaded
  OBVIOUS
<1>1. \A n \in DOMAIN exports : exports[n] \in ExportRow
  BY RowsOfExports
<1>2. ExportTypeOK
  BY <1>1, TasksSay DEF ExportTypeOK, ExportInv, ExportRowsKept, TaskIsKept, Works, Status,
     ExportRow, ExportStatus
<1>3. ASSUME NEW n \in DOMAIN bucket PROVE DaysInOneFile(bucket[n], exports[n].message)
  <2>1. PICK m \in Asked : m = exports[n].message
    BY <1>1 DEF ExportInv, ExportRowsKept, ExportRow
  <2>2. bucket[n] = FilesOf(m, WorkedOn)
    BY <2>1 DEF ExportInv, ExportRowsKept, WhollyMade
  <2>3. ChunksCut(m.chunks, m.users, m.from, m.to)
    BY AskedIsCut
  <2>4. QED BY <2>1, <2>2, <2>3, FilesAreWhole
<1>4. EachDayInOneFile
  BY <1>3 DEF EachDayInOneFile, DaysInOneFile
<1>5. DownloadedHasFile
  BY DEF DownloadedHasFile, ExportInv, ExportRowsKept, HasFile
<1>6. TransferredWasDownloaded
  BY DEF TransferredWasDownloaded, ExportInv, CheckoutKept, Transferable
<1>7. QED BY <1>2, <1>4, <1>5, <1>6

\* What was cancelled in time: its task has yet to read the row again, and no
\* checkout has read it.
DroppedIsKept(n) ==
  /\ n \in DOMAIN exports /\ Status(n) \in {"cancelled", "failed"}
  /\ \A w \in ExportWorker :
       Works(Task(w)) /\ Task(w).export = n => Task(w).at \in {"generate", "refresh"}
  /\ checkout.at = "write" => n \notin checkout.ready

DroppedKept == \A n \in dropped : DroppedIsKept(n)

\* A step of a task, seen from an export that was cancelled in time.
LEMMA DroppedTask ==
  ASSUME ExportInv, NEW w \in ExportWorker, NEW n, DroppedIsKept(n), TaskStep(w)
  PROVE  DroppedIsKept(n)'
<1>1. PICK old \in ExportTask : old = Task(w)
  BY TasksSay
<1>2. /\ exportTasks \in [ExportWorker -> ExportTask] /\ UNCHANGED checkout
      /\ n \in DOMAIN exports /\ Status(n) \in {"cancelled", "failed"}
  BY DEF ExportInv, TasksKept, TaskStep, StartExport, LoseMessage, Generate, AbortIfCancelled,
     Upload, MarkReady, FailExport, BreakExport, DroppedIsKept
<1>3. Works(old) /\ old.export = n => old.at \in {"generate", "refresh"} /\ Status(n) = "cancelled"
  BY <1>1, <1>2, TasksSay DEF DroppedIsKept, TaskIsKept
<1>4. ASSUME NEW task, Step(w, task), n \in DOMAIN exports',
             exports'[n].status \in {"cancelled", "failed"},
             Works(task) /\ task.export = n => task.at \in {"generate", "refresh"}
      PROVE  DroppedIsKept(n)'
  <2>1. /\ exportTasks'[w] = task
        /\ \A x \in ExportWorker : x # w => exportTasks'[x] = exportTasks[x]
    BY <1>2, <1>4 DEF Step
  <2>2. \A x \in ExportWorker : Works(exportTasks'[x]) /\ exportTasks'[x].export = n =>
          exportTasks'[x].at \in {"generate", "refresh"}
    BY <2>1, <1>4 DEF DroppedIsKept, Task
  <2>3. QED BY <2>2, <1>2, <1>4 DEF DroppedIsKept, Status, Task, Works
<1>5. CASE StartExport(w)
  <2>1. PICK row, task : /\ exports' = Append(exports, row) /\ Step(w, task)
                         /\ task = [Idle EXCEPT !.at = "generate", !.export = Len(exports) + 1]
    BY <1>5 DEF StartExport
  <2>2. n # Len(exports) + 1 /\ task.export = Len(exports) + 1
    BY <2>1, <1>2, RowsOfExports DEF Idle
  <2>3. n \in DOMAIN exports' /\ exports'[n] = exports[n]
    <3>1. n \in 1..Len(exports) /\ Len(exports) \in Nat
      BY <1>2, RowsOfExports
    <3>2. QED BY <3>1, <2>1
  <2>4. QED BY <2>1, <2>2, <2>3, <1>2, <1>4 DEF Status
<1>6. CASE LoseMessage(w)
  BY <1>6 DEF LoseMessage, DroppedIsKept, Status, Task, Works
<1>7. CASE Generate(w)
  <2>1. PICK files : Step(w, [old EXCEPT !.at = "refresh", !.files = files])
    BY <1>1, <1>7 DEF Generate
  <2>2. PICK task : task = [old EXCEPT !.at = "refresh", !.files = files]
    OBVIOUS
  <2>3. task.at = "refresh" /\ Step(w, task)
    BY <2>1, <2>2 DEF ExportTask
  <2>4. UNCHANGED exports
    BY <1>7 DEF Generate
  <2>5. QED BY <2>3, <2>4, <1>2, <1>4 DEF Status
<1>8. CASE AbortIfCancelled(w)
  <2>1. PICK task : task = IF Status(old.export) = "cancelled" THEN Idle
                           ELSE [old EXCEPT !.at = "upload"]
    OBVIOUS
  <2>2. Step(w, task) /\ UNCHANGED exports /\ Works(old)
    BY <1>1, <1>8, <2>1 DEF AbortIfCancelled, Works
  <2>3. CASE old.export = n
    <3>1. task = Idle
      BY <2>1, <2>2, <2>3, <1>3
    <3>2. QED BY <3>1, <2>2, <1>2, <1>4, IdleIsKept DEF Status
  <2>4. CASE old.export # n
    <3>1. Works(task) => task.export # n
      BY <2>1, <2>4, IdleIsKept DEF ExportTask
    <3>2. QED BY <3>1, <2>2, <1>2, <1>4 DEF Status
  <2>5. QED BY <2>3, <2>4
<1>9. CASE Upload(w)
  <2>1. PICK task : task = [old EXCEPT !.at = "commit"]
    OBVIOUS
  <2>2. Step(w, task) /\ UNCHANGED exports /\ Works(old) /\ old.at = "upload"
    BY <1>1, <1>9, <2>1 DEF Upload, Works
  <2>3. task.export # n
    BY <2>1, <2>2, <1>3 DEF ExportTask
  <2>4. QED BY <2>2, <2>3, <1>2, <1>4 DEF Status
<1>10. CASE MarkReady(w)
  <2>1. /\ Works(old) /\ old.at = "commit" /\ Step(w, Idle)
        /\ exports' = [exports EXCEPT ![old.export].status = "ready", ![old.export].path = TRUE]
    BY <1>1, <1>10 DEF MarkReady, AfterRefresh, Works
  <2>2. old.export # n
    BY <2>1, <1>3
  <2>3. n \in DOMAIN exports' /\ exports'[n] = exports[n]
    BY <2>1, <2>2, <1>2
  <2>4. QED BY <2>1, <2>3, <1>2, <1>4, IdleIsKept DEF Status
<1>11. CASE FailExport(w)
  <2>1. /\ Step(w, Idle)
        /\ exports' = [exports EXCEPT ![old.export] = MarkFailed(@)]
    BY <1>1, <1>11 DEF FailExport
  <2>2. exports[n] \in ExportRow
    BY <1>2, RowsOfExports
  <2>3. n \in DOMAIN exports' /\ exports'[n].status \in {"cancelled", "failed"}
    BY <2>1, <2>2, <1>2 DEF MarkFailed, Status, ExportRow
  <2>4. QED BY <2>1, <2>3, <1>4, IdleIsKept
<1>12. CASE BreakExport(w)
  <2>1. Step(w, Idle) /\ UNCHANGED exports
    BY <1>12 DEF BreakExport
  <2>2. QED BY <2>1, <1>2, <1>4, IdleIsKept DEF Status
<1>13. QED
  BY <1>5, <1>6, <1>7, <1>8, <1>9, <1>10, <1>11, <1>12 DEF TaskStep

LEMMA DroppedCancel ==
  ASSUME ExportInv, DroppedKept, CancelExports
  PROVE  DroppedKept'
<1>1. /\ exports' = [n \in DOMAIN exports |->
                       IF IsCancellable(Status(n))
                       THEN [exports[n] EXCEPT !.status = "cancelled"] ELSE exports[n]]
      /\ UNCHANGED <<exportTasks, checkout>>
      /\ dropped' = dropped \cup {n \in DOMAIN exports :
                                     IsCancellable(Status(n)) /\ ~IsTooLate(n)}
  BY DEF CancelExports
<1>2. DOMAIN exports' = DOMAIN exports
  BY <1>1
<1>3. ASSUME NEW n \in dropped' PROVE DroppedIsKept(n)'
  <2>1. n \in DOMAIN exports
    BY <1>1, <1>3 DEF DroppedKept, DroppedIsKept
  <2>2. exports[n] \in ExportRow
    BY <2>1, RowsOfExports
  <2>3. exports'[n].status \in {"cancelled", "failed"}
    BY <1>1, <1>3, <2>1, <2>2 DEF DroppedKept, DroppedIsKept, Status, ExportRow, IsCancellable
  <2>4. CASE n \in dropped
    BY <2>4, <2>1, <2>3, <1>1, <1>2 DEF DroppedKept, DroppedIsKept, Status, Task, Works
  <2>5. CASE n \notin dropped
    <3>1. ~IsTooLate(n)
      BY <2>5, <1>1, <1>3
    <3>2. ASSUME NEW w \in ExportWorker, Works(Task(w)), Task(w).export = n
          PROVE  Task(w).at \in {"generate", "refresh"}
      <4>1. Task(w).at \notin {"upload", "commit"}
        BY <3>1, <3>2 DEF IsTooLate
      <4>2. QED BY <4>1, <3>2, TasksSay DEF ExportTask, Works
    <3>3. checkout.at = "write" => n \notin checkout.ready
      BY <3>1 DEF IsTooLate
    <3>4. QED BY <3>2, <3>3, <2>1, <2>3, <1>1, <1>2 DEF DroppedIsKept, Status, Task, Works
  <2>6. QED BY <2>4, <2>5
<1>4. QED BY <1>3 DEF DroppedKept

LEMMA DroppedStep ==
  ASSUME ExportInv, DroppedKept, [ExportNext]_exportVars
  PROVE  DroppedKept'
<1>1. ASSUME NEW w \in ExportWorker, TaskStep(w) PROVE DroppedKept'
  <2>1. UNCHANGED dropped
    BY <1>1 DEF TaskStep, StartExport, LoseMessage, Generate, AbortIfCancelled, Upload,
       MarkReady, FailExport, BreakExport, historyOfExports
  <2>2. \A n \in dropped : DroppedIsKept(n)'
    BY <1>1, DroppedTask DEF DroppedKept
  <2>3. QED BY <2>1, <2>2 DEF DroppedKept
<1>2. ASSUME UNCHANGED <<exports, exportTasks, dropped>>,
             checkout'.at = "write" =>
               \A n \in checkout'.ready :
                 \/ checkout.at = "write" /\ n \in checkout.ready
                 \/ Status(n) = "ready"
      PROVE  DroppedKept'
  BY <1>2 DEF DroppedKept, DroppedIsKept, Status, Task, Works
<1>3. ASSUME NEW staff, NEW from, NEW to, NEW one, RequestReport(staff, from, to, one)
      PROVE  DroppedKept'
  BY <1>2, <1>3 DEF RequestReport, historyOfExports
<1>4. ASSUME RequestFullData PROVE DroppedKept'
  <2>1. UNCHANGED <<exports, exportTasks, dropped, checkout>>
    BY <1>4 DEF RequestFullData, historyOfExports
  <2>2. QED BY <1>2, <2>1
<1>5. ASSUME BeginCheckout PROVE DroppedKept'
  <2>1. PICK ready : ready = {n \in DOMAIN exports : IsReady(Status(n))}
    OBVIOUS
  <2>2. checkout' = [at |-> "write", ready |-> ready]
        /\ UNCHANGED <<exports, exportTasks, dropped>>
    BY <1>5, <2>1 DEF BeginCheckout, historyOfExports
  <2>3. QED BY <1>2, <2>1, <2>2 DEF IsReady
<1>6. ASSUME NEW linked, CommitCheckout(linked) PROVE DroppedKept'
  <2>1. /\ checkout.at = "write" /\ checkout'.at # "write"
        /\ DOMAIN exports' = DOMAIN exports
        /\ \A n \in DOMAIN exports : n \notin checkout.ready => exports'[n] = exports[n]
        /\ UNCHANGED <<exportTasks, dropped>>
    BY <1>6 DEF CommitCheckout, NoCheckout, historyOfExports
  <2>2. QED BY <2>1 DEF DroppedKept, DroppedIsKept, Status, Task, Works
<1>7. ASSUME CommitTransferDate \/ AbandonCheckout PROVE DroppedKept'
  BY <1>2, <1>7 DEF CommitTransferDate, AbandonCheckout, NoCheckout, historyOfExports
<1>8. ASSUME UNCHANGED exportVars PROVE DroppedKept'
  BY <1>2, <1>8 DEF exportVars, historyOfExports
<1>9. QED
  BY <1>1, <1>3, <1>4, <1>5, <1>6, <1>7, <1>8, DroppedCancel DEF ExportNext

\* For any employees, work days, companies, lengths of the months and years,
\* workers and limits, whatever fails: the files of a report give each work day
\* asked for once and nothing else, what is ready or was downloaded has its
\* files, one task works on an export, what was cancelled before its task read
\* the row again is not given, and a transfer is dated by a download of the
\* data of one company.
THEOREM ReportsStayWhole ==
  ExportSpec => []ExportsAreWhole
<1>1. ExportInit => ExportInv /\ DroppedKept
  BY ExportsBegin DEF ExportInit, DroppedKept
<1>2. ExportInv /\ DroppedKept /\ [ExportNext]_exportVars => ExportInv' /\ DroppedKept'
  BY ExportStep, DroppedStep
<1>3. ExportInv /\ DroppedKept => ExportsAreWhole
  BY ExportInvSays DEF ExportsAreWhole, DroppedStaysDropped, DroppedKept, DroppedIsKept
<1>4. QED BY <1>1, <1>2, <1>3, PTL DEF ExportSpec

-----------------------------------------------------------------------------
(* The deals of the companies.                                             *)

(* The lists of deals. *)

IdsOf(S) == {d.id : d \in S}

OfSiren(S, s) == {d \in S : d.siren = s}

\* The deals of a pipeline are numbered in the order of their creation.
DealsNumbered(S) ==
  /\ IsFiniteSet(S)
  /\ \A d, e \in S : d.id = e.id => d = e
  /\ IdsOf(S) = 1..Cardinality(S)

\* The same deal, at another time.
SameDeal(d, e) == d.id = e.id /\ d.siren = e.siren /\ d.name = e.name

ProspectState ==
  [siren : FunnelSiren \cup {NoSiren}, creatorActive : BOOLEAN,
   mission : FunnelDays \cup {NoMission}, mail : {"none", "first", "reminder"}]

FunnelItem == [company : Prospect, stage : Stages]

DealsAreNumbered ==
  /\ deals \in [Pipelines -> SUBSET Deal]
  /\ \A p \in Pipelines :
       DealsNumbered(deals[p]) /\ \A d \in deals[p] : d.siren = SirenOf(d.name)

DealsAreFew ==
  \A p \in Pipelines, s \in FunnelSiren : Cardinality(OfSiren(deals[p], s)) <= 1 + failures

\* What the command knows are deals; a SIREN it knows no deal of has one only
\* if a request failed.
SyncIsSound ==
  /\ sync = [pipeline |-> sync.pipeline, todo |-> sync.todo, later |-> sync.later,
             asked |-> sync.asked, known |-> sync.known]
  /\ sync.pipeline \in Pipelines \cup {"none"}
  /\ sync.todo \subseteq FunnelItem /\ sync.later \subseteq FunnelItem
  /\ sync.known \subseteq Deal
  /\ sync.asked =>
       /\ sync.pipeline \in Pipelines
       /\ \A d \in sync.known : \E e \in deals[sync.pipeline] : SameDeal(d, e)
       /\ \A s \in FunnelSiren :
            OfSiren(sync.known, s) = {} =>
              Cardinality(OfSiren(deals[sync.pipeline], s)) <= failures

\* What the command has still to do, or has to do later, in "Activation".
ActivationItems == IF sync.pipeline = "activation" THEN sync.todo ELSE sync.later

WonOver(c) ==
  prospects[c].mission # NoMission /\ prospects[c].mission <= MissionDeadline

\* A company with a deal won is won over, and is treated as such.
StaysWon(d) ==
  d.stage = "won" /\ Alone(d.name) =>
    WonOver(d.name) /\ \A i \in ActivationItems : i.company = d.name => i.stage = "won"

ActivationIsSound ==
  /\ \A i \in ActivationItems :
       prospects[i.company].creatorActive /\ (i.stage = "won" => WonOver(i.company))
  /\ \A i, j \in ActivationItems : i.company = j.company => i = j
  /\ \A d \in deals["activation"] : StaysWon(d)

FunnelInv ==
  /\ funnelDay \in FunnelDays /\ failures \in 0..MaxFailures
  /\ prospects \in [Prospect -> ProspectState]
  /\ DealsAreNumbered
  /\ DealsAreFew
  /\ SyncIsSound
  /\ ActivationIsSound

-----------------------------------------------------------------------------
(* Lists of deals.                                                          *)

LEMMA SameSize ==
  ASSUME NEW S, NEW T, IsFiniteSet(S), NEW f \in [S -> T],
         \A x, y \in S : f[x] = f[y] => x = y, \A z \in T : \E x \in S : f[x] = z
  PROVE  IsFiniteSet(T) /\ Cardinality(T) = Cardinality(S)
<1>1. f \in Bijection(S, T)
  BY Fun_IsBij
<1>2. ExistsBijection(S, T)
  BY <1>1 DEF ExistsBijection
<1>3. QED BY <1>2, FS_Bijection

\* There are as many deals as identifiers.
LEMMA OneIdEach ==
  ASSUME NEW S, IsFiniteSet(S), \A d, e \in S : d.id = e.id => d = e
  PROVE  IsFiniteSet(IdsOf(S)) /\ Cardinality(IdsOf(S)) = Cardinality(S)
<1>1. PICK f : f = [d \in S |-> d.id]
  OBVIOUS
<1>2. f \in [S -> IdsOf(S)] /\ \A d \in S : f[d] = d.id
  BY <1>1 DEF IdsOf
<1>3. \A z \in IdsOf(S) : \E d \in S : f[d] = z
  BY <1>2 DEF IdsOf
<1>4. \A d, e \in S : f[d] = f[e] => d = e
  BY <1>2
<1>5. QED BY <1>2, <1>3, <1>4, SameSize

\* The same deals at another time are as many.
LEMMA SameDealsAsMany ==
  ASSUME NEW S, NEW T, DealsNumbered(S), \A d, e \in T : d.id = e.id => d = e,
         \A d \in T : \E e \in S : SameDeal(d, e), \A e \in S : \E d \in T : SameDeal(d, e)
  PROVE  /\ DealsNumbered(T)
         /\ \A s : Cardinality(OfSiren(T, s)) = Cardinality(OfSiren(S, s))
<1>1. \A d, e \in S : d.id = e.id => d = e
  BY DEF DealsNumbered
<1>2. PICK f : f = [e \in S |-> CHOOSE d \in T : SameDeal(d, e)]
  OBVIOUS
<1>3. f \in [S -> T] /\ \A e \in S : SameDeal(f[e], e)
  BY <1>2
<1>4. \A x, y \in S : f[x] = f[y] => x = y
  BY <1>1, <1>3 DEF SameDeal
<1>5. \A d \in T : \E e \in S : f[e] = d
  BY <1>3 DEF SameDeal
<1>6. IsFiniteSet(T) /\ Cardinality(T) = Cardinality(S)
  BY <1>3, <1>4, <1>5, SameSize DEF DealsNumbered
<1>7. IdsOf(T) = IdsOf(S)
  BY DEF IdsOf, SameDeal
<1>8. DealsNumbered(T)
  BY <1>6, <1>7 DEF DealsNumbered
<1>9. ASSUME NEW s PROVE Cardinality(OfSiren(T, s)) = Cardinality(OfSiren(S, s))
  <2>1. PICK A, B : A = OfSiren(S, s) /\ B = OfSiren(T, s)
    OBVIOUS
  <2>2. A \subseteq S /\ B \subseteq T
    BY <2>1 DEF OfSiren
  <2>3. IsFiniteSet(A)
    BY <2>2, FS_Subset DEF DealsNumbered
  <2>4. PICK g : g = [e \in A |-> f[e]]
    OBVIOUS
  <2>5. g \in [A -> B] /\ \A e \in A : g[e] = f[e]
    BY <2>1, <2>2, <2>4, <1>3 DEF OfSiren, SameDeal
  <2>6. \A x, y \in A : g[x] = g[y] => x = y
    BY <2>2, <2>5, <1>4
  <2>7. \A d \in B : \E e \in A : g[e] = d
    <3>1. TAKE d \in B
    <3>2. PICK e \in S : f[e] = d
      BY <2>2, <1>5
    <3>3. e \in A
      BY <3>2, <2>1, <1>3 DEF OfSiren, SameDeal
    <3>4. QED BY <3>2, <3>3, <2>5
  <2>8. Cardinality(B) = Cardinality(A)
    BY <2>3, <2>5, <2>6, <2>7, SameSize
  <2>9. QED BY <2>1, <2>8
<1>10. QED BY <1>8, <1>9

LEMMA DealRewritten ==
  ASSUME NEW S \in SUBSET Deal, DealsNumbered(S), NEW now \in S, NEW f \in Deal, SameDeal(f, now)
  PROVE  /\ WithDeal(S, now, f) \in SUBSET Deal
         /\ DealsNumbered(WithDeal(S, now, f))
         /\ \A s : Cardinality(OfSiren(WithDeal(S, now, f), s)) = Cardinality(OfSiren(S, s))
         /\ \A e \in S : IF e.id = now.id THEN e = now /\ f \in WithDeal(S, now, f)
                         ELSE e \in WithDeal(S, now, f)
         /\ \A d \in WithDeal(S, now, f) : d = f \/ d \in S
<1>1. PICK T : T = WithDeal(S, now, f)
  OBVIOUS
<1>2. \A d : d \in T <=> (d = f \/ (d \in S /\ d.id # now.id))
  BY <1>1 DEF WithDeal
<1>3. \A d, e \in S : d.id = e.id => d = e
  BY DEF DealsNumbered
<1>4. \A d, e \in T : d.id = e.id => d = e
  BY <1>2, <1>3 DEF SameDeal
<1>5. \A d \in T : \E e \in S : SameDeal(d, e)
  BY <1>2 DEF SameDeal
<1>6. \A e \in S : \E d \in T : SameDeal(d, e)
  <2>1. TAKE e \in S
  <2>2. CASE e.id = now.id
    <3>1. e = now /\ f \in T
      BY <2>2, <1>2, <1>3
    <3>2. QED BY <3>1
  <2>3. CASE e.id # now.id
    BY <2>3, <1>2 DEF SameDeal
  <2>4. QED BY <2>2, <2>3
<1>7. DealsNumbered(T) /\ \A s : Cardinality(OfSiren(T, s)) = Cardinality(OfSiren(S, s))
  BY <1>4, <1>5, <1>6, SameDealsAsMany
<1>8. T \in SUBSET Deal
  BY <1>2
<1>9. QED BY <1>1, <1>2, <1>3, <1>7, <1>8

LEMMA DealAdded ==
  ASSUME NEW S \in SUBSET Deal, DealsNumbered(S), NEW d \in Deal, d.id = Cardinality(S) + 1
  PROVE  /\ DealsNumbered(S \cup {d})
         /\ \A s : Cardinality(OfSiren(S, s)) \in Nat
         /\ \A s : Cardinality(OfSiren(S \cup {d}, s)) =
                     Cardinality(OfSiren(S, s)) + (IF d.siren = s THEN 1 ELSE 0)
<1>1. PICK n \in Nat : n = Cardinality(S)
  BY FS_CardinalityType DEF DealsNumbered
<1>2. IsFiniteSet(S) /\ IdsOf(S) = 1..n /\ \A e, g \in S : e.id = g.id => e = g
  BY <1>1 DEF DealsNumbered
<1>3. \A e \in S : e.id \in 1..n
  BY <1>2 DEF IdsOf
<1>4. d \notin S /\ \A e \in S : e.id # d.id
  BY <1>1, <1>3
<1>5. IsFiniteSet(S \cup {d}) /\ Cardinality(S \cup {d}) = n + 1
  BY <1>1, <1>2, <1>4, FS_AddElement
<1>6. IdsOf(S \cup {d}) = 1..(n + 1)
  <2>1. IdsOf(S \cup {d}) = IdsOf(S) \cup {n + 1}
    BY <1>1 DEF IdsOf
  <2>2. 1..n \cup {n + 1} = 1..(n + 1)
    OBVIOUS
  <2>3. QED BY <2>1, <2>2, <1>2
<1>7. DealsNumbered(S \cup {d})
  BY <1>2, <1>4, <1>5, <1>6 DEF DealsNumbered
<1>8. ASSUME NEW s
      PROVE  /\ Cardinality(OfSiren(S, s)) \in Nat
             /\ Cardinality(OfSiren(S \cup {d}, s)) =
                  Cardinality(OfSiren(S, s)) + (IF d.siren = s THEN 1 ELSE 0)
  <2>1. PICK A : A = OfSiren(S, s)
    OBVIOUS
  <2>2. A \subseteq S
    BY <2>1 DEF OfSiren
  <2>3. IsFiniteSet(A) /\ Cardinality(A) \in Nat
    BY <2>2, <1>2, FS_Subset, FS_CardinalityType
  <2>4. OfSiren(S \cup {d}, s) = IF d.siren = s THEN A \cup {d} ELSE A
    BY <2>1 DEF OfSiren
  <2>5. Cardinality(A \cup {d}) = Cardinality(A) + 1
    BY <2>2, <2>3, <1>4, FS_AddElement
  <2>6. QED BY <2>1, <2>3, <2>4, <2>5
<1>9. QED BY <1>7, <1>8

LEMMA LinkedIsSame ==
  ASSUME NEW d \in Deal
  PROVE  Linked(d) \in Deal /\ SameDeal(Linked(d), d) /\ Linked(d).stage = d.stage
<1>1. PICK b \in BOOLEAN : b = (d.linked \/ HasBrevoCompany(d))
  OBVIOUS
<1>2. PICK f : f = [d EXCEPT !.linked = b]
  OBVIOUS
<1>3. f \in Deal /\ SameDeal(f, d) /\ f.stage = d.stage
  BY <1>2 DEF Deal, SameDeal
<1>4. Linked(d) = f
  BY <1>1, <1>2 DEF Linked, Deal
<1>5. QED BY <1>3, <1>4

-----------------------------------------------------------------------------
(* Steps that write no deal.                                                *)

\* What WonForGood says of a step.
WonStays ==
  \A c \in Prospect : Alone(c)' =>
    \A d \in DealsOf(c, "activation") : d.stage = "won" =>
       \E e \in DealsOf(c, "activation")' : e.id = d.id /\ e.stage = "won"

LEMMA UnwrittenStaysWon ==
  ASSUME UNCHANGED deals
  PROVE  WonStays
BY DEF WonStays, DealsOf

\* Companies are won over, or activate, for good.
ProspectsGrow ==
  \A c \in Prospect :
    /\ prospects'[c].siren = prospects[c].siren
    /\ prospects[c].creatorActive => prospects'[c].creatorActive
    /\ WonOver(c) => WonOver(c)'

LEMMA AloneBefore ==
  ASSUME ProspectsGrow, NEW c \in Prospect, Alone(c)'
  PROVE  Alone(c)
BY DEF ProspectsGrow, Alone, SirenOf

LEMMA DealNames ==
  ASSUME FunnelInv, NEW p \in Pipelines
  PROVE  deals[p] \in SUBSET Deal /\ \A d \in deals[p] : d.name \in Prospect
BY DEF FunnelInv, DealsAreNumbered, Deal

LEMMA ItemsAreItems ==
  ASSUME FunnelInv
  PROVE  ActivationItems \subseteq FunnelItem
BY DEF FunnelInv, SyncIsSound, ActivationItems

LEMMA ProspectsKeep ==
  ASSUME FunnelInv, funnelDay' \in FunnelDays, prospects' \in [Prospect -> ProspectState],
         ProspectsGrow, UNCHANGED <<deals, sync, failures>>
  PROVE  FunnelInv'
<1>1. DealsAreNumbered'
  BY DealNames DEF FunnelInv, DealsAreNumbered, ProspectsGrow, SirenOf
<1>2. DealsAreFew' /\ SyncIsSound'
  BY DEF FunnelInv, DealsAreFew, SyncIsSound
<1>3. ActivationItems' = ActivationItems
  BY DEF ActivationItems
<1>4. \A i \in ActivationItems' :
        prospects'[i.company].creatorActive /\ (i.stage = "won" => WonOver(i.company)')
  BY <1>3, ItemsAreItems DEF FunnelInv, ActivationIsSound, ProspectsGrow, FunnelItem
<1>5. ASSUME NEW d \in deals["activation"] PROVE StaysWon(d)'
  <2>1. d.name \in Prospect
    BY DealNames DEF Pipelines
  <2>2. StaysWon(d)
    BY DEF FunnelInv, ActivationIsSound
  <2>3. ASSUME d.stage = "won", Alone(d.name)' 
        PROVE  WonOver(d.name)' /\ \A i \in ActivationItems : i.company = d.name => i.stage = "won"
    BY <2>1, <2>2, <2>3, AloneBefore DEF StaysWon, ProspectsGrow
  <2>4. QED BY <2>3, <1>3 DEF StaysWon
<1>6. ActivationIsSound'
  BY <1>3, <1>4, <1>5 DEF FunnelInv, ActivationIsSound
<1>7. QED BY <1>1, <1>2, <1>6 DEF FunnelInv

LEMMA ChangeKeeps ==
  ASSUME FunnelInv, NEW c \in Prospect, NEW p \in ProspectState, Change(c, p),
         p.siren = prospects[c].siren, prospects[c].creatorActive => p.creatorActive,
         p.mission = prospects[c].mission \/ prospects[c].mission = NoMission
  PROVE  FunnelInv'
<1>1. /\ prospects' = [prospects EXCEPT ![c] = p] /\ prospects \in [Prospect -> ProspectState]
      /\ UNCHANGED <<funnelDay, deals, sync, failures>> /\ funnelDay \in FunnelDays
  BY DEF FunnelInv, Change
<1>2. /\ prospects' \in [Prospect -> ProspectState] /\ prospects'[c] = p
      /\ \A o \in Prospect : o # c => prospects'[o] = prospects[o]
  BY <1>1
<1>3. ProspectsGrow
  BY <1>2 DEF ProspectsGrow, WonOver
<1>4. QED BY <1>1, <1>2, <1>3, ProspectsKeep

LEMMA CompaniesKeep ==
  ASSUME FunnelInv, CompanyStep
  PROVE  FunnelInv' /\ WonStays
<1>1. UNCHANGED deals
  BY DEF CompanyStep, NextFunnelDay, CreatorActivates, FirstMissionValidated,
         CompanyIsWrittenTo, Change
<1>2. CASE NextFunnelDay
  <2>1. funnelDay' \in FunnelDays /\ UNCHANGED <<prospects, deals, sync, failures>>
    BY <1>2, FunnelAssumption DEF NextFunnelDay, FunnelInv, FunnelDays
  <2>2. ProspectsGrow
    BY <2>1 DEF ProspectsGrow, WonOver
  <2>3. QED BY <2>1, <2>2, ProspectsKeep, UnwrittenStaysWon DEF FunnelInv
<1>3. ASSUME NEW c \in Prospect,
             CreatorActivates(c) \/ FirstMissionValidated(c) \/ CompanyIsWrittenTo(c)
      PROVE  FunnelInv'
  <2>1. PICK old \in ProspectState : old = prospects[c]
    BY DEF FunnelInv
  <2>2. PICK day \in FunnelDays : day = funnelDay
    BY DEF FunnelInv
  <2>3. CASE CreatorActivates(c)
    <3>1. PICK p : p = [old EXCEPT !.creatorActive = TRUE]
      OBVIOUS
    <3>2. /\ p \in ProspectState /\ p.siren = old.siren /\ p.mission = old.mission
          /\ p.creatorActive
      BY <2>1, <3>1 DEF ProspectState
    <3>3. Change(c, p)
      BY <2>1, <2>3, <3>1 DEF CreatorActivates
    <3>4. QED BY <2>1, <3>2, <3>3, ChangeKeeps
  <2>4. CASE FirstMissionValidated(c)
    <3>1. PICK p : p = [old EXCEPT !.mission = day]
      OBVIOUS
    <3>2. /\ p \in ProspectState /\ p.siren = old.siren
          /\ p.creatorActive = old.creatorActive
      BY <2>1, <2>2, <3>1 DEF ProspectState
    <3>3. Change(c, p) /\ old.mission = NoMission
      BY <2>1, <2>2, <2>4, <3>1 DEF FirstMissionValidated
    <3>4. QED BY <2>1, <3>2, <3>3, ChangeKeeps
  <2>5. CASE CompanyIsWrittenTo(c)
    <3>1. PICK mail \in {"first", "reminder"} :
            mail = IF old.mail = "none" THEN "first" ELSE "reminder"
      OBVIOUS
    <3>2. PICK p : p = [old EXCEPT !.mail = mail]
      OBVIOUS
    <3>3. /\ p \in ProspectState /\ p.siren = old.siren /\ p.mission = old.mission
          /\ p.creatorActive = old.creatorActive
      BY <2>1, <3>2 DEF ProspectState
    <3>4. Change(c, p)
      BY <2>1, <2>5, <3>1, <3>2 DEF CompanyIsWrittenTo, ProspectState
    <3>5. QED BY <2>1, <3>3, <3>4, ChangeKeeps
  <2>6. QED BY <1>3, <2>3, <2>4, <2>5
<1>4. QED BY <1>1, <1>2, <1>3, UnwrittenStaysWon DEF CompanyStep

LEMMA FailuresCount ==
  ASSUME FunnelInv, Fail \/ UNCHANGED failures
  PROVE  failures' \in 0..MaxFailures /\ failures \in 0..MaxFailures /\ failures <= failures'
BY FunnelAssumption DEF FunnelInv, Fail

LEMMA DealCounts ==
  ASSUME FunnelInv, NEW p \in Pipelines, NEW s
  PROVE  Cardinality(OfSiren(deals[p], s)) \in Nat
<1>1. IsFiniteSet(deals[p])
  BY DEF FunnelInv, DealsAreNumbered, DealsNumbered
<1>2. OfSiren(deals[p], s) \subseteq deals[p]
  BY DEF OfSiren
<1>3. QED BY <1>1, <1>2, FS_Subset, FS_CardinalityType

\* The command goes on, with what it had to do, or with both lists anew.
LEMMA SyncAlone ==
  ASSUME FunnelInv, UNCHANGED <<funnelDay, prospects, deals>>, Fail \/ UNCHANGED failures,
         SyncIsSound',
         \A i \in ActivationItems' :
           i \in ActivationItems \/
           (prospects[i.company].creatorActive /\ (i.stage = "won" <=> WonOver(i.company))),
         \A i, j \in ActivationItems' : i.company = j.company => i = j
  PROVE  FunnelInv' /\ WonStays
<1>1. failures' \in 0..MaxFailures /\ failures \in 0..MaxFailures /\ failures <= failures'
  BY FailuresCount
<1>2. DealsAreNumbered'
  BY DEF FunnelInv, DealsAreNumbered, SirenOf
<1>3. DealsAreFew'
  <2>1. SUFFICES ASSUME NEW p \in Pipelines, NEW s \in FunnelSiren
                 PROVE  Cardinality(OfSiren(deals[p], s)) <= 1 + failures'
    BY DEF DealsAreFew
  <2>2. Cardinality(OfSiren(deals[p], s)) <= 1 + failures
    BY DEF FunnelInv, DealsAreFew
  <2>3. QED BY <2>2, <1>1, DealCounts
<1>4. \A i \in ActivationItems' :
        prospects'[i.company].creatorActive /\ (i.stage = "won" => WonOver(i.company)')
  BY DEF FunnelInv, ActivationIsSound, WonOver
<1>5. ASSUME NEW d \in deals["activation"] PROVE StaysWon(d)'
  <2>1. StaysWon(d)
    BY DEF FunnelInv, ActivationIsSound
  <2>2. Alone(d.name)' => Alone(d.name)
    BY DEF Alone, SirenOf
  <2>3. QED BY <2>1, <2>2 DEF StaysWon, WonOver
<1>6. ActivationIsSound'
  BY <1>4, <1>5 DEF ActivationIsSound
<1>7. QED BY <1>1, <1>2, <1>3, <1>6, UnwrittenStaysWon DEF FunnelInv

LEMMA StagesOf ==
  ASSUME FunnelInv, NEW c \in Prospect
  PROVE  /\ ActivationStage(c) \in Stages \cup {"none"}
         /\ ActivationStage(c) = "won" <=> WonOver(c)
         /\ AcquisitionStage(c) \in Stages
<1>1. PICK p \in ProspectState : p = prospects[c]
  BY DEF FunnelInv
<1>2. p.mission \in Int /\ MissionDeadline \in Int
  BY FunnelAssumption DEF ProspectState, FunnelDays, NoMission
<1>3. AcquisitionStage(c) \in Stages
  BY DEF AcquisitionStage, Stages
<1>4. CASE p.mission # NoMission /\ p.mission <= MissionDeadline
  <2>1. ~(p.mission > MissionDeadline)
    BY <1>2, <1>4
  <2>2. ActivationStage(c) = "won"
    BY <2>1, <1>1, <1>2, <1>4 DEF ActivationStage
  <2>3. WonOver(c) /\ "won" \in Stages
    BY <1>1, <1>4 DEF WonOver, Stages
  <2>4. QED BY <2>2, <2>3, <1>3
<1>5. CASE p.mission # NoMission /\ ~(p.mission <= MissionDeadline)
  <2>1. p.mission > MissionDeadline
    BY <1>2, <1>5
  <2>2. ActivationStage(c) = "none"
    BY <2>1, <1>1, <1>2, <1>5 DEF ActivationStage
  <2>3. ~WonOver(c)
    BY <1>1, <1>5 DEF WonOver
  <2>4. QED BY <2>2, <2>3, <1>3
<1>6. CASE p.mission = NoMission
  BY <1>1, <1>2, <1>3, <1>6 DEF ActivationStage, WonOver, Stages
<1>7. QED BY <1>4, <1>5, <1>6

LEMMA ListsOfItems ==
  ASSUME FunnelInv
  PROVE  /\ Listed("acquisition") \subseteq FunnelItem
         /\ Listed("activation") \subseteq FunnelItem
         /\ \A i \in Listed("activation") :
              prospects[i.company].creatorActive /\ (i.stage = "won" <=> WonOver(i.company))
         /\ \A i, j \in Listed("activation") : i.company = j.company => i = j
<1>1. ASSUME NEW i \in Listed("acquisition") PROVE i \in FunnelItem
  <2>1. PICK c \in AcquisitionCompanies : i = [company |-> c, stage |-> AcquisitionStage(c)]
    BY <1>1 DEF Listed
  <2>2. c \in Prospect /\ AcquisitionStage(c) \in Stages
    BY StagesOf DEF AcquisitionCompanies
  <2>3. QED BY <2>1, <2>2 DEF FunnelItem
<1>2. ASSUME NEW i \in Listed("activation")
      PROVE  /\ i \in FunnelItem /\ i.stage = ActivationStage(i.company)
             /\ prospects[i.company].creatorActive /\ (i.stage = "won" <=> WonOver(i.company))
  <2>1. PICK c \in ActivationCompanies : i = [company |-> c, stage |-> ActivationStage(c)]
    BY <1>2 DEF Listed
  <2>2. c \in Prospect /\ prospects[c].creatorActive /\ ActivationStage(c) # "none"
    BY DEF ActivationCompanies
  <2>3. PICK stage \in Stages : stage = ActivationStage(c) /\ (stage = "won" <=> WonOver(c))
    BY <2>2, StagesOf
  <2>4. i = [company |-> c, stage |-> stage]
    BY <2>1, <2>3
  <2>5. i \in FunnelItem /\ i.company = c /\ i.stage = stage
    BY <2>2, <2>4 DEF FunnelItem
  <2>6. QED BY <2>2, <2>3, <2>5
<1>3. ASSUME NEW i \in Listed("activation"), NEW j \in Listed("activation"),
             i.company = j.company
      PROVE  i = j
  <2>1. i.stage = j.stage
    BY <1>2, <1>3
  <2>2. QED BY <2>1, <1>2, <1>3 DEF FunnelItem
<1>4. QED BY <1>1, <1>2, <1>3

LEMMA SyncShape ==
  ASSUME FunnelInv
  PROVE  /\ sync = [pipeline |-> sync.pipeline, todo |-> sync.todo, later |-> sync.later,
                    asked |-> sync.asked, known |-> sync.known]
         /\ sync.pipeline \in Pipelines \cup {"none"}
         /\ sync.todo \subseteq FunnelItem /\ sync.later \subseteq FunnelItem
         /\ sync.known \subseteq Deal
         /\ \A i, j \in ActivationItems : i.company = j.company => i = j
BY DEF FunnelInv, SyncIsSound, ActivationIsSound

\* The command begins, ends or goes on to a pipeline, before it asks the deals.
LEMMA PipelineKeeps ==
  ASSUME FunnelInv, NEW pipeline \in Pipelines \cup {"none"}, NEW todo \in SUBSET FunnelItem,
         NEW later \in SUBSET FunnelItem,
         sync' = [pipeline |-> pipeline, todo |-> todo, later |-> later, asked |-> FALSE,
                  known |-> {}],
         (IF pipeline = "activation" THEN todo ELSE later)
           \in {{}, ActivationItems, Listed("activation")},
         UNCHANGED <<funnelDay, prospects, deals>>, Fail \/ UNCHANGED failures
  PROVE  FunnelInv' /\ WonStays
<1>1. /\ sync'.pipeline = pipeline /\ sync'.todo = todo /\ sync'.later = later
      /\ sync'.asked = FALSE /\ sync'.known = {}
  OBVIOUS
<1>2. SyncIsSound'
  BY <1>1 DEF SyncIsSound
<1>3. ActivationItems' \in {{}, ActivationItems, Listed("activation")}
  BY <1>1 DEF ActivationItems
<1>4. \A i \in ActivationItems' :
        i \in ActivationItems \/
        (prospects[i.company].creatorActive /\ (i.stage = "won" <=> WonOver(i.company)))
  BY <1>3, ListsOfItems
<1>5. \A i, j \in ActivationItems' : i.company = j.company => i = j
  BY <1>3, ListsOfItems, SyncShape
<1>6. QED BY <1>2, <1>4, <1>5, SyncAlone

LEMMA SyncAllFunnelsKeeps ==
  ASSUME FunnelInv, SyncAllFunnels
  PROVE  FunnelInv' /\ WonStays
<1>1. PICK first \in SUBSET FunnelItem, second \in SUBSET FunnelItem :
        first = Listed("acquisition") /\ second = Listed("activation")
  BY ListsOfItems
<1>2. /\ sync' = [pipeline |-> "acquisition", todo |-> first, later |-> second, asked |-> FALSE,
                  known |-> {}]
      /\ UNCHANGED <<funnelDay, prospects, deals, failures>>
  BY <1>1 DEF SyncAllFunnels, IdleSync, Companies
<1>3. QED BY <1>1, <1>2, PipelineKeeps DEF Pipelines

LEMMA SyncEndsKeeps ==
  ASSUME FunnelInv, SyncEnds \/ EndPipeline
  PROVE  FunnelInv' /\ WonStays
<1>1. UNCHANGED <<funnelDay, prospects, deals>> /\ (Fail \/ UNCHANGED failures)
  BY DEF SyncEnds, EndPipeline, Companies
<1>2. PICK later \in SUBSET FunnelItem : later = sync.later
  BY SyncShape
<1>3. CASE sync' = IdleSync
  BY <1>1, <1>3, PipelineKeeps DEF IdleSync
<1>4. CASE sync' # IdleSync
  <2>1. /\ sync.pipeline # "activation"
        /\ sync' = [IdleSync EXCEPT !.pipeline = "activation", !.todo = later]
    BY <1>2, <1>4 DEF SyncEnds, EndPipeline
  <2>2. ActivationItems = later
    BY <1>2, <2>1 DEF ActivationItems
  <2>3. sync' = [pipeline |-> "activation", todo |-> later, later |-> {}, asked |-> FALSE,
                 known |-> {}]
    BY <2>1 DEF IdleSync
  <2>4. QED BY <1>1, <2>2, <2>3, PipelineKeeps DEF Pipelines
<1>5. QED BY <1>3, <1>4

\* The deals are asked, or the request fails.
LEMMA AskDealsKeeps ==
  ASSUME FunnelInv, AskDeals \/ AskDealsFails
  PROVE  FunnelInv' /\ WonStays
<1>1. PICK p \in Pipelines : p = sync.pipeline
  BY SyncShape DEF AskDeals, AskDealsFails
<1>2. PICK known \in SUBSET Deal : known = IF AskDeals THEN deals[p] ELSE {}
  BY DealNames
<1>3. /\ UNCHANGED <<funnelDay, prospects, deals>>
      /\ (AskDeals /\ UNCHANGED failures) \/ (~AskDeals /\ Fail)
  BY DEF AskDeals, AskDealsFails, Companies
<1>4. sync' = [sync EXCEPT !.asked = TRUE, !.known = known]
  BY <1>1, <1>2 DEF AskDeals, AskDealsFails
<1>5. /\ sync' = [pipeline |-> sync'.pipeline, todo |-> sync'.todo, later |-> sync'.later,
                  asked |-> sync'.asked, known |-> sync'.known]
      /\ sync'.pipeline = p /\ sync'.todo = sync.todo /\ sync'.later = sync.later
      /\ sync'.known = known
  BY <1>1, <1>4, SyncShape
<1>6. \A d \in known : \E e \in deals'[p] : SameDeal(d, e)
  BY <1>2, <1>3 DEF SameDeal
<1>7. ASSUME NEW s \in FunnelSiren, OfSiren(known, s) = {}
      PROVE  Cardinality(OfSiren(deals'[p], s)) <= failures'
  <2>1. failures \in Nat /\ failures' \in Nat /\ MaxFailures \in Nat
    BY <1>3, FailuresCount, FunnelAssumption
  <2>2. CASE AskDeals
    <3>1. OfSiren(deals'[p], s) = {}
      BY <1>2, <1>3, <1>7, <2>2
    <3>2. QED BY <3>1, <2>1, FS_EmptySet
  <2>3. CASE ~AskDeals
    <3>1. failures' = failures + 1
      BY <1>3, <2>3 DEF Fail
    <3>2. Cardinality(OfSiren(deals[p], s)) <= 1 + failures
      BY DEF FunnelInv, DealsAreFew
    <3>3. QED BY <3>1, <3>2, <1>3, <2>1, DealCounts
  <2>4. QED BY <2>2, <2>3
<1>8. SyncIsSound'
  <2>1. sync'.pipeline \in Pipelines /\ sync'.todo \subseteq FunnelItem
          /\ sync'.later \subseteq FunnelItem
    BY <1>5, SyncShape
  <2>2. \A d \in sync'.known : \E e \in deals'[sync'.pipeline] : SameDeal(d, e)
    BY <1>5, <1>6
  <2>3. \A s \in FunnelSiren : OfSiren(sync'.known, s) = {} =>
          Cardinality(OfSiren(deals'[sync'.pipeline], s)) <= failures'
    BY <1>5, <1>7
  <2>4. QED BY <1>5, <2>1, <2>2, <2>3 DEF SyncIsSound
<1>9. ActivationItems' = ActivationItems
  BY <1>1, <1>5 DEF ActivationItems
<1>10. QED BY <1>3, <1>8, <1>9, SyncAlone, SyncShape

\* A company, or the pipeline, is passed over.
LEMMA TodoShrinks ==
  ASSUME FunnelInv, NEW todo \in SUBSET sync.todo, sync' = [sync EXCEPT !.todo = todo], Fail,
         UNCHANGED <<funnelDay, prospects, deals>>
  PROVE  FunnelInv' /\ WonStays
<1>1. /\ sync' = [pipeline |-> sync'.pipeline, todo |-> sync'.todo, later |-> sync'.later,
                  asked |-> sync'.asked, known |-> sync'.known]
      /\ sync'.pipeline = sync.pipeline /\ sync'.todo = todo /\ sync'.later = sync.later
      /\ sync'.known = sync.known /\ sync'.asked = sync.asked
  BY SyncShape
<1>2. failures' \in 0..MaxFailures /\ failures \in 0..MaxFailures /\ failures <= failures'
  BY FailuresCount
<1>3. SyncIsSound'
  <2>1. CASE ~sync.asked
    BY <1>1, <2>1, SyncShape DEF SyncIsSound
  <2>2. CASE sync.asked
    <3>1. sync.pipeline \in Pipelines
      BY <2>2 DEF FunnelInv, SyncIsSound
    <3>2. \A s \in FunnelSiren : OfSiren(sync.known, s) = {} =>
            Cardinality(OfSiren(deals[sync.pipeline], s)) <= failures'
      <4>1. TAKE s \in FunnelSiren
      <4>2. HAVE OfSiren(sync.known, s) = {}
      <4>3. Cardinality(OfSiren(deals[sync.pipeline], s)) <= failures
        BY <2>2, <4>2 DEF FunnelInv, SyncIsSound
      <4>4. Cardinality(OfSiren(deals[sync.pipeline], s)) \in Nat
        BY <3>1, DealCounts
      <4>5. QED BY <4>3, <4>4, <1>2
    <3>3. \A d \in sync.known : \E e \in deals[sync.pipeline] : SameDeal(d, e)
      BY <2>2 DEF FunnelInv, SyncIsSound
    <3>4. QED BY <1>1, <3>1, <3>2, <3>3, SyncShape DEF SyncIsSound
  <2>3. QED BY <2>1, <2>2
<1>4. ActivationItems' \subseteq ActivationItems
  BY <1>1 DEF ActivationItems
<1>5. QED BY <1>3, <1>4, SyncAlone, SyncShape

LEMMA PassedOverKeeps ==
  ASSUME FunnelInv, SkipPipeline \/ \E item \in sync.todo : CompanyFails(item) /\ Companies
  PROVE  FunnelInv' /\ WonStays
<1>1. CASE SkipPipeline
  BY <1>1, TodoShrinks DEF SkipPipeline, Companies
<1>2. ASSUME NEW item \in sync.todo, CompanyFails(item), Companies PROVE FunnelInv' /\ WonStays
  <2>1. PICK todo \in SUBSET sync.todo : todo = sync.todo \ {item}
    OBVIOUS
  <2>2. sync' = [sync EXCEPT !.todo = todo] /\ Fail /\ UNCHANGED <<funnelDay, prospects, deals>>
    BY <1>2, <2>1, SyncShape DEF CompanyFails, Companies
  <2>3. QED BY <2>2, TodoShrinks
<1>3. QED BY <1>1, <1>2

-----------------------------------------------------------------------------
(* Steps that write a deal.                                                 *)

LEMMA DealsKeep ==
  ASSUME FunnelInv, deals' \in [Pipelines -> SUBSET Deal],
         \A q \in Pipelines : DealsNumbered(deals'[q]) /\ \A d \in deals'[q] : d.siren = SirenOf(d.name),
         UNCHANGED <<funnelDay, prospects>>, Fail \/ UNCHANGED failures,
         DealsAreFew', SyncIsSound', sync'.pipeline = sync.pipeline,
         sync'.todo \subseteq sync.todo, sync'.later = sync.later,
         \A d \in deals'["activation"] : d \in deals["activation"] \/ StaysWon(d)',
         \A d \in deals["activation"] : d.stage = "won" /\ Alone(d.name) =>
           \E e \in deals'["activation"] : e.id = d.id /\ e.name = d.name /\ e.stage = "won"
  PROVE  FunnelInv' /\ WonStays
<1>1. failures' \in 0..MaxFailures
  BY FailuresCount
<1>2. DealsAreNumbered'
  BY DEF DealsAreNumbered, SirenOf
<1>3. ActivationItems' \subseteq ActivationItems
  BY DEF ActivationItems
<1>4. \A i \in ActivationItems' :
        prospects'[i.company].creatorActive /\ (i.stage = "won" => WonOver(i.company)')
  BY <1>3 DEF FunnelInv, ActivationIsSound, WonOver
<1>5. \A i, j \in ActivationItems' : i.company = j.company => i = j
  BY <1>3, SyncShape
<1>6. ASSUME NEW d \in deals'["activation"] PROVE StaysWon(d)'
  <2>1. CASE d \in deals["activation"]
    <3>1. StaysWon(d)
      BY <2>1 DEF FunnelInv, ActivationIsSound
    <3>2. Alone(d.name)' => Alone(d.name)
      BY DEF Alone, SirenOf
    <3>3. WonOver(d.name) => WonOver(d.name)'
      BY DEF WonOver
    <3>4. QED BY <3>1, <3>2, <3>3, <1>3 DEF StaysWon
  <2>2. QED BY <2>1
<1>7. ActivationIsSound'
  BY <1>4, <1>5, <1>6 DEF ActivationIsSound
<1>8. ASSUME NEW c \in Prospect, Alone(c)', NEW d \in DealsOf(c, "activation"), d.stage = "won"
      PROVE  \E e \in DealsOf(c, "activation")' : e.id = d.id /\ e.stage = "won"
  <2>1. Alone(c)
    BY <1>8 DEF Alone, SirenOf
  <2>2. d \in deals["activation"] /\ d.name = c
    BY DEF DealsOf
  <2>3. PICK e \in deals'["activation"] : e.id = d.id /\ e.name = c /\ e.stage = "won"
    BY <1>8, <2>1, <2>2
  <2>4. e \in DealsOf(c, "activation")'
    BY <2>3 DEF DealsOf
  <2>5. QED BY <2>3, <2>4
<1>9. QED BY <1>1, <1>2, <1>7, <1>8 DEF FunnelInv, WonStays

\* The stage of a deal is as the company's, in "Activation".
StageIsKept(p, now, f) ==
  p = "activation" /\ Alone(f.name) => (now.stage = "won" => f.stage = "won")

LEMMA RewriteKeeps ==
  ASSUME FunnelInv, NEW p \in Pipelines, NEW now \in deals[p], NEW f \in Deal, SameDeal(f, now),
         deals' = [deals EXCEPT ![p] = WithDeal(deals[p], now, f)],
         UNCHANGED <<funnelDay, prospects>>, Fail \/ UNCHANGED failures,
         NEW todo \in SUBSET sync.todo, sync' = [sync EXCEPT !.todo = todo],
         StageIsKept(p, now, f), p = "activation" => StaysWon(f)'
  PROVE  FunnelInv' /\ WonStays
<1>1. PICK S \in SUBSET Deal : S = deals[p] /\ DealsNumbered(S)
  BY DEF FunnelInv, DealsAreNumbered
<1>2. PICK T \in SUBSET Deal : T = WithDeal(S, now, f) /\ DealsNumbered(T)
  BY <1>1, DealRewritten
<1>3. /\ \A s : Cardinality(OfSiren(T, s)) = Cardinality(OfSiren(S, s))
      /\ \A e \in S : IF e.id = now.id THEN e = now /\ f \in T ELSE e \in T
      /\ \A d \in T : d = f \/ d \in S
  BY <1>1, <1>2, DealRewritten
<1>4. /\ deals' \in [Pipelines -> SUBSET Deal] /\ deals'[p] = T
      /\ \A q \in Pipelines : q # p => deals'[q] = deals[q]
  BY <1>1, <1>2 DEF FunnelInv, DealsAreNumbered
<1>5. ASSUME NEW q \in Pipelines
      PROVE  /\ DealsNumbered(deals'[q])
             /\ \A d \in deals'[q] : d.siren = SirenOf(d.name)
             /\ \A s : Cardinality(OfSiren(deals'[q], s)) = Cardinality(OfSiren(deals[q], s))
             /\ \A e \in deals[q] : \E d \in deals'[q] : SameDeal(e, d)
  <2>1. DealsNumbered(deals[q]) /\ \A d \in deals[q] : d.siren = SirenOf(d.name)
    BY DEF FunnelInv, DealsAreNumbered
  <2>2. CASE q = p
    <3>1. \A d \in T : d.siren = SirenOf(d.name)
      BY <2>1, <2>2, <1>1, <1>3 DEF SameDeal
    <3>2. \A e \in S : \E d \in T : SameDeal(e, d)
      BY <1>3 DEF SameDeal
    <3>3. QED BY <3>1, <3>2, <2>2, <1>1, <1>2, <1>3, <1>4
  <2>3. CASE q # p
    BY <2>1, <2>3, <1>4 DEF SameDeal
  <2>4. QED BY <2>2, <2>3
<1>6. failures' \in 0..MaxFailures /\ failures \in 0..MaxFailures /\ failures <= failures'
  BY FailuresCount
<1>7. DealsAreFew'
  <2>1. SUFFICES ASSUME NEW q \in Pipelines, NEW s \in FunnelSiren
                 PROVE  Cardinality(OfSiren(deals'[q], s)) <= 1 + failures'
    BY DEF DealsAreFew
  <2>2. Cardinality(OfSiren(deals[q], s)) <= 1 + failures
    BY DEF FunnelInv, DealsAreFew
  <2>3. QED BY <2>2, <1>5, <1>6, DealCounts
<1>8. /\ sync' = [pipeline |-> sync'.pipeline, todo |-> sync'.todo, later |-> sync'.later,
                  asked |-> sync'.asked, known |-> sync'.known]
      /\ sync'.pipeline = sync.pipeline /\ sync'.todo = todo /\ sync'.later = sync.later
      /\ sync'.known = sync.known /\ sync'.asked = sync.asked
  BY SyncShape
<1>9. SyncIsSound'
  <2>1. CASE ~sync.asked
    BY <1>8, <2>1, SyncShape DEF SyncIsSound
  <2>2. CASE sync.asked
    <3>1. PICK q \in Pipelines : q = sync.pipeline
      BY <2>2 DEF FunnelInv, SyncIsSound
    <3>2. ASSUME NEW s \in FunnelSiren, OfSiren(sync.known, s) = {}
          PROVE  Cardinality(OfSiren(deals'[q], s)) <= failures'
      <4>1. Cardinality(OfSiren(deals[q], s)) <= failures
        BY <2>2, <3>1, <3>2 DEF FunnelInv, SyncIsSound
      <4>2. QED BY <4>1, <1>5, <1>6, DealCounts
    <3>3. \A d \in sync.known : \E e \in deals'[q] : SameDeal(d, e)
      <4>1. \A d \in sync.known : \E e \in deals[q] : SameDeal(d, e)
        BY <2>2, <3>1 DEF FunnelInv, SyncIsSound
      <4>2. QED BY <4>1, <1>5 DEF SameDeal
    <3>4. QED BY <1>8, <3>1, <3>2, <3>3, SyncShape DEF SyncIsSound
  <2>3. QED BY <2>1, <2>2
<1>10. ASSUME NEW d \in deals'["activation"] PROVE d \in deals["activation"] \/ StaysWon(d)'
  BY <1>1, <1>3, <1>4 DEF Pipelines
<1>11. ASSUME NEW d \in deals["activation"], d.stage = "won", Alone(d.name)
       PROVE  \E e \in deals'["activation"] : e.id = d.id /\ e.name = d.name /\ e.stage = "won"
  <2>1. CASE p = "activation" /\ d.id = now.id
    <3>1. d = now /\ f \in deals'["activation"]
      BY <2>1, <1>1, <1>3, <1>4
    <3>2. f.stage = "won" /\ f.id = d.id /\ f.name = d.name
      BY <2>1, <3>1, <1>11 DEF StageIsKept, SameDeal
    <3>3. QED BY <3>1, <3>2
  <2>2. CASE p # "activation" \/ d.id # now.id
    <3>1. d \in deals'["activation"]
      BY <2>2, <1>1, <1>3, <1>4 DEF Pipelines
    <3>2. QED BY <3>1, <1>11
  <2>3. QED BY <2>1, <2>2
<1>12. QED BY <1>4, <1>5, <1>7, <1>8, <1>9, <1>10, <1>11, DealsKeep

\* A deal is created, and the command knows of it or not.
LEMMA CreateKeeps ==
  ASSUME FunnelInv, sync.asked, NEW p \in Pipelines, p = sync.pipeline,
         NEW d \in Deal, d.id = Cardinality(deals[p]) + 1, d.siren = SirenOf(d.name),
         NEW f \in Deal, SameDeal(f, d),
         deals' = [deals EXCEPT ![p] = deals[p] \cup {f}],
         UNCHANGED <<funnelDay, prospects>>,
         NEW todo \in SUBSET sync.todo, NEW known \in {sync.known, sync.known \cup {d}},
         sync' = [sync EXCEPT !.todo = todo, !.known = known],
         Fail \/ UNCHANGED failures, known = sync.known => Fail,
         d.siren \in FunnelSiren => OfSiren(sync.known, d.siren) = {},
         p = "activation" => StaysWon(f)'
  PROVE  FunnelInv' /\ WonStays
<1>1. PICK S \in SUBSET Deal : S = deals[p] /\ DealsNumbered(S)
  BY DEF FunnelInv, DealsAreNumbered
<1>2. PICK T \in SUBSET Deal : T = S \cup {f}
  OBVIOUS
<1>3. /\ DealsNumbered(T)
      /\ \A s : Cardinality(OfSiren(T, s)) =
                  Cardinality(OfSiren(S, s)) + (IF d.siren = s THEN 1 ELSE 0)
  BY <1>1, <1>2, DealAdded DEF SameDeal
<1>4. /\ deals' \in [Pipelines -> SUBSET Deal] /\ deals'[p] = T
      /\ \A q \in Pipelines : q # p => deals'[q] = deals[q]
  BY <1>1, <1>2 DEF FunnelInv, DealsAreNumbered
<1>5. ASSUME NEW q \in Pipelines
      PROVE  DealsNumbered(deals'[q]) /\ \A e \in deals'[q] : e.siren = SirenOf(e.name)
  <2>1. DealsNumbered(deals[q]) /\ \A e \in deals[q] : e.siren = SirenOf(e.name)
    BY DEF FunnelInv, DealsAreNumbered
  <2>2. CASE q = p
    BY <2>1, <2>2, <1>1, <1>2, <1>3, <1>4 DEF SameDeal
  <2>3. CASE q # p
    BY <2>1, <2>3, <1>4
  <2>4. QED BY <2>2, <2>3
<1>6. failures' \in 0..MaxFailures /\ failures \in 0..MaxFailures /\ failures <= failures'
  BY FailuresCount
<1>7. known = sync.known => failures' = failures + 1
  BY DEF Fail
<1>8. ASSUME NEW s \in FunnelSiren
      PROVE  /\ Cardinality(OfSiren(T, s)) <= 1 + failures'
             /\ OfSiren(known, s) = {} => Cardinality(OfSiren(T, s)) <= failures'
  <2>1. Cardinality(OfSiren(S, s)) \in Nat
    BY <1>1, DealCounts
  <2>2. /\ Cardinality(OfSiren(S, s)) <= 1 + failures
        /\ OfSiren(sync.known, s) = {} => Cardinality(OfSiren(S, s)) <= failures
    BY <1>1 DEF FunnelInv, DealsAreFew, SyncIsSound
  <2>3. CASE d.siren = s
    <3>1. Cardinality(OfSiren(S, s)) <= failures
      BY <2>2, <2>3
    <3>2. OfSiren(known, s) = {} => known = sync.known
      BY <2>3 DEF OfSiren
    <3>3. Cardinality(OfSiren(T, s)) = Cardinality(OfSiren(S, s)) + 1
      BY <2>3, <1>3
    <3>4. QED BY <3>1, <3>2, <3>3, <2>1, <1>6, <1>7
  <2>4. CASE d.siren # s
    <3>1. OfSiren(known, s) = OfSiren(sync.known, s)
      BY <2>4 DEF OfSiren
    <3>2. Cardinality(OfSiren(T, s)) = Cardinality(OfSiren(S, s))
      BY <2>1, <2>4, <1>3
    <3>3. QED BY <3>1, <3>2, <2>1, <2>2, <1>6
  <2>5. QED BY <2>3, <2>4
<1>9. DealsAreFew'
  <2>1. SUFFICES ASSUME NEW q \in Pipelines, NEW s \in FunnelSiren
                 PROVE  Cardinality(OfSiren(deals'[q], s)) <= 1 + failures'
    BY DEF DealsAreFew
  <2>2. CASE q = p
    BY <2>2, <1>4, <1>8
  <2>3. CASE q # p
    <3>1. Cardinality(OfSiren(deals[q], s)) <= 1 + failures
      BY DEF FunnelInv, DealsAreFew
    <3>2. QED BY <2>3, <3>1, <1>4, <1>6, DealCounts
  <2>4. QED BY <2>2, <2>3
<1>10. /\ sync' = [pipeline |-> sync'.pipeline, todo |-> sync'.todo, later |-> sync'.later,
                   asked |-> sync'.asked, known |-> sync'.known]
       /\ sync'.pipeline = sync.pipeline /\ sync'.todo = todo /\ sync'.later = sync.later
       /\ sync'.known = known /\ sync'.asked = sync.asked
  BY SyncShape
<1>11. SyncIsSound'
  <2>1. \A e \in known : \E g \in T : SameDeal(e, g)
    <3>1. \A e \in sync.known : \E g \in S : SameDeal(e, g)
      BY <1>1 DEF FunnelInv, SyncIsSound
    <3>2. QED BY <3>1, <1>2 DEF SameDeal
  <2>2. \A e \in sync'.known : \E g \in deals'[sync'.pipeline] : SameDeal(e, g)
    BY <2>1, <1>4, <1>10
  <2>3. \A s \in FunnelSiren : OfSiren(sync'.known, s) = {} =>
          Cardinality(OfSiren(deals'[sync'.pipeline], s)) <= failures'
    BY <1>4, <1>8, <1>10
  <2>4. QED BY <2>2, <2>3, <1>10, SyncShape DEF SyncIsSound
<1>12. ASSUME NEW e \in deals'["activation"] PROVE e \in deals["activation"] \/ StaysWon(e)'
  BY <1>1, <1>2, <1>4 DEF Pipelines
<1>13. ASSUME NEW e \in deals["activation"], e.stage = "won"
       PROVE  \E g \in deals'["activation"] : g.id = e.id /\ g.name = e.name /\ g.stage = "won"
  <2>1. e \in deals'["activation"]
    BY <1>1, <1>2, <1>4 DEF Pipelines
  <2>2. QED BY <2>1, <1>13
<1>14. QED BY <1>4, <1>5, <1>9, <1>10, <1>11, <1>12, <1>13, DealsKeep

\* The items of a company alone of its SIREN are its own: one.
LEMMA AloneItem ==
  ASSUME FunnelInv, sync.pipeline = "activation", NEW item \in sync.todo,
         NEW c \in Prospect, Alone(c),
         item.company = c \/ (SirenOf(item.company) = SirenOf(c) /\ SirenOf(c) # NoSiren)
  PROVE  /\ item.company = c
         /\ \A i \in sync.todo \ {item} : i.company # c
         /\ item.stage = "won" => WonOver(c)
<1>1. ActivationItems = sync.todo
  BY DEF ActivationItems
<1>2. /\ item.company \in Prospect /\ prospects[item.company].creatorActive
      /\ item.stage = "won" => WonOver(item.company)
  BY <1>1, ItemsAreItems DEF FunnelInv, ActivationIsSound, FunnelItem
<1>3. item.company = c
  BY <1>2 DEF Alone
<1>4. QED BY <1>1, <1>2, <1>3, SyncShape

\* The company has been treated: its deal is in its stage, and not its turn.
LEMMA TreatedStaysWon ==
  ASSUME FunnelInv, sync.pipeline = "activation", NEW item \in sync.todo, NEW f \in Deal,
         Alone(f.name) => /\ item.company = f.name
                          /\ f.stage = "won" => item.stage = "won" \/ WonOver(f.name),
         UNCHANGED prospects, sync'.pipeline = sync.pipeline, sync'.todo = sync.todo \ {item}
  PROVE  StaysWon(f)'
<1>1. f.name \in Prospect
  BY DEF Deal
<1>2. Alone(f.name)' => Alone(f.name)
  BY DEF Alone, SirenOf
<1>3. ActivationItems' = sync.todo \ {item}
  BY DEF ActivationItems
<1>4. WonOver(f.name) => WonOver(f.name)'
  BY DEF WonOver
<1>5. Alone(f.name) => /\ \A i \in sync.todo \ {item} : i.company # f.name
                       /\ f.stage = "won" => WonOver(f.name)
  BY <1>1, AloneItem
<1>6. QED BY <1>2, <1>3, <1>4, <1>5 DEF StaysWon

LEMMA UpdateKeeps ==
  ASSUME FunnelInv, sync.asked, NEW item \in sync.todo, NEW d \in sync.known,
         UpdateExistingDeal(item, d), Companies
  PROVE  FunnelInv' /\ WonStays
<1>1. PICK p \in Pipelines : p = sync.pipeline
  BY DEF FunnelInv, SyncIsSound
<1>2. PICK S \in SUBSET Deal : S = deals[p] /\ DealsNumbered(S) /\ \A e \in S : e.siren = SirenOf(e.name)
  BY DEF FunnelInv, DealsAreNumbered
<1>3. PICK now \in S : now = (CHOOSE e \in S : e.id = d.id) /\ SameDeal(now, d)
  <2>1. PICK e \in S : SameDeal(d, e)
    BY <1>1, <1>2 DEF FunnelInv, SyncIsSound
  <2>2. \A g \in S : g.id = d.id => g = e
    BY <2>1, <1>2 DEF DealsNumbered, SameDeal
  <2>3. QED BY <2>1, <2>2 DEF SameDeal
<1>4. item \in FunnelItem /\ item.stage \in Stages
  BY SyncShape DEF FunnelItem
<1>5. PICK moved \in Deal :
        /\ moved = IF StageChanged(d, item.stage) THEN [now EXCEPT !.stage = item.stage] ELSE now
        /\ SameDeal(moved, now) /\ moved.stage \in {item.stage, now.stage}
  <2>1. PICK g : g = [now EXCEPT !.stage = item.stage]
    OBVIOUS
  <2>2. g \in Deal /\ SameDeal(g, now) /\ g.stage = item.stage
    BY <2>1, <1>4 DEF Deal, SameDeal
  <2>3. QED BY <2>1, <2>2 DEF SameDeal
<1>6. d \in ExistingDeals(item.company, sync.known)
  BY DEF UpdateExistingDeal
<1>7. PICK f \in {Linked(moved), moved} :
        /\ deals' = [deals EXCEPT ![p] = WithDeal(deals[p], now, f)]
        /\ Fail \/ UNCHANGED failures
        /\ sync' = [sync EXCEPT !.todo = sync.todo \ {item}]
        /\ UNCHANGED <<funnelDay, prospects>>
  BY <1>1, <1>2, <1>3, <1>5, SyncShape DEF UpdateExistingDeal, Companies, FunnelInv, DealsAreNumbered
<1>8. f \in Deal /\ SameDeal(f, now) /\ f.stage = moved.stage
  BY <1>5, <1>7, LinkedIsSame DEF SameDeal
<1>9. /\ f.name = d.name /\ f.name \in Prospect /\ f.siren = d.siren
      /\ d.siren = SirenOf(d.name)
  BY <1>2, <1>3, <1>8 DEF SameDeal, Deal
<1>10. item.company = f.name \/ (SirenOf(item.company) = SirenOf(f.name) /\ SirenOf(f.name) # NoSiren)
  BY <1>6, <1>9 DEF ExistingDeals, BySiren, ByName
<1>11. ASSUME p = "activation", Alone(f.name)
       PROVE  /\ item.company = f.name
              /\ now.stage = "won" => item.stage = "won" /\ WonOver(f.name)
  <2>1. item.company = f.name
    BY <1>1, <1>9, <1>10, <1>11, AloneItem
  <2>2. StaysWon(now) /\ now.name = f.name
    BY <1>2, <1>8, <1>11 DEF FunnelInv, ActivationIsSound, SameDeal
  <2>3. item \in ActivationItems
    BY <1>1, <1>11 DEF ActivationItems
  <2>4. QED BY <2>1, <2>2, <2>3, <1>11 DEF StaysWon
<1>12. StageIsKept(p, now, f)
  BY <1>5, <1>8, <1>11 DEF StageIsKept
<1>13. sync'.pipeline = sync.pipeline /\ sync'.todo = sync.todo \ {item}
  BY <1>7, SyncShape
<1>14. p = "activation" => StaysWon(f)'
  <2>1. HAVE p = "activation"
  <2>2. Alone(f.name) => /\ item.company = f.name
                         /\ f.stage = "won" => item.stage = "won" \/ WonOver(f.name)
    BY <2>1, <1>5, <1>8, <1>11
  <2>3. QED BY <2>1, <2>2, <1>1, <1>7, <1>8, <1>13, TreatedStaysWon
<1>15. PICK todo \in SUBSET sync.todo : todo = sync.todo \ {item}
  OBVIOUS
<1>16. now \in deals[p] /\ sync' = [sync EXCEPT !.todo = todo]
  BY <1>2, <1>7, <1>15
<1>17. QED BY <1>7, <1>8, <1>12, <1>14, <1>16, RewriteKeeps

LEMMA NewDealIsDeal ==
  ASSUME FunnelInv, NEW p \in Pipelines, NEW c \in Prospect, NEW stage \in Stages
  PROVE  /\ NewDeal(c, p, stage) \in Deal
         /\ NewDeal(c, p, stage).id = Cardinality(deals[p]) + 1
         /\ NewDeal(c, p, stage).siren = SirenOf(c)
         /\ NewDeal(c, p, stage).name = c
         /\ NewDeal(c, p, stage).stage = stage
<1>1. PICK id \in Nat : id = Cardinality(deals[p]) + 1
  BY FS_CardinalityType DEF FunnelInv, DealsAreNumbered, DealsNumbered
<1>2. PICK siren \in FunnelSiren \cup {NoSiren} : siren = SirenOf(c)
  BY DEF FunnelInv, ProspectState, SirenOf
<1>3. NewDeal(c, p, stage) = [id |-> id, siren |-> siren, name |-> c, stage |-> stage,
                              linked |-> FALSE]
  BY <1>1, <1>2 DEF NewDeal, NextDealId
<1>4. QED BY <1>1, <1>2, <1>3 DEF Deal

LEMMA CreationKeeps ==
  ASSUME FunnelInv, sync.asked, NEW item \in sync.todo,
         CreateNewDeal(item) \/ CreationUnanswered(item), Companies
  PROVE  FunnelInv' /\ WonStays
<1>1. PICK p \in Pipelines : p = sync.pipeline
  BY DEF FunnelInv, SyncIsSound
<1>2. item.company \in Prospect /\ item.stage \in Stages
  BY SyncShape DEF FunnelItem
<1>3. PICK d \in Deal :
        /\ d = NewDeal(item.company, p, item.stage)
        /\ d.id = Cardinality(deals[p]) + 1 /\ d.siren = SirenOf(item.company)
        /\ d.name = item.company /\ d.stage = item.stage
  BY <1>2, NewDealIsDeal
<1>4. ExistingDeals(item.company, sync.known) = {}
  BY DEF CreateNewDeal, CreationUnanswered
<1>5. PICK f \in {Linked(d), d}, known \in {sync.known, sync.known \cup {d}} :
        /\ deals' = [deals EXCEPT ![p] = deals[p] \cup {f}]
        /\ Fail \/ UNCHANGED failures
        /\ known = sync.known => Fail
        /\ sync' = [sync EXCEPT !.todo = sync.todo \ {item}, !.known = known]
        /\ UNCHANGED <<funnelDay, prospects>>
  <2>1. CASE CreateNewDeal(item)
    <3>1. d \notin sync.known
      <4>1. \A e \in sync.known : \E g \in deals[p] : e.id = g.id
        BY <1>1 DEF FunnelInv, SyncIsSound, SameDeal
      <4>2. PICK n \in Nat : n = Cardinality(deals[p])
        BY FS_CardinalityType DEF FunnelInv, DealsAreNumbered, DealsNumbered
      <4>3. \A g \in deals[p] : g.id \in 1..n
        BY <4>2 DEF FunnelInv, DealsAreNumbered, DealsNumbered, IdsOf
      <4>4. d.id = n + 1
        BY <1>3, <4>2
      <4>5. QED BY <4>1, <4>2, <4>3, <4>4
    <3>2. PICK known : known = sync.known \cup {d}
      OBVIOUS
    <3>3. /\ \E f \in {Linked(d), d} :
               /\ deals' = [deals EXCEPT ![p] = deals[p] \cup {f}]
               /\ Fail \/ UNCHANGED failures
          /\ sync' = [sync EXCEPT !.todo = sync.todo \ {item}, !.known = known]
          /\ UNCHANGED <<funnelDay, prospects>>
      BY <2>1, <3>2, <1>1, <1>3, SyncShape
      DEF CreateNewDeal, UpdateDealIdentifier, Companies, FunnelInv, DealsAreNumbered
    <3>4. known # sync.known
      BY <3>1, <3>2
    <3>5. QED BY <3>2, <3>3, <3>4
  <2>2. CASE CreationUnanswered(item)
    <3>1. /\ deals' = [deals EXCEPT ![p] = deals[p] \cup {d}] /\ Fail
          /\ sync' = [sync EXCEPT !.todo = sync.todo \ {item}]
          /\ UNCHANGED <<funnelDay, prospects>>
      BY <2>2, <1>1, <1>3, SyncShape
      DEF CreationUnanswered, Companies, FunnelInv, DealsAreNumbered
    <3>2. sync' = [sync EXCEPT !.todo = sync.todo \ {item}, !.known = sync.known]
      BY <3>1, SyncShape
    <3>3. QED BY <3>1, <3>2
  <2>3. QED BY <2>1, <2>2
<1>6. f \in Deal /\ SameDeal(f, d) /\ f.stage = d.stage
  BY <1>5, LinkedIsSame DEF SameDeal
<1>7. sync'.pipeline = sync.pipeline /\ sync'.todo = sync.todo \ {item}
  BY <1>5, SyncShape
<1>8. p = "activation" => StaysWon(f)'
  <2>1. HAVE p = "activation"
  <2>2. item.company = f.name /\ f.stage = item.stage
    BY <1>3, <1>6 DEF SameDeal
  <2>3. QED BY <2>1, <2>2, <1>1, <1>5, <1>6, <1>7, TreatedStaysWon
<1>9. d.siren \in FunnelSiren => OfSiren(sync.known, d.siren) = {}
  BY <1>3, <1>4, FunnelAssumption DEF ExistingDeals, BySiren, ByName, OfSiren
<1>10. PICK todo \in SUBSET sync.todo : todo = sync.todo \ {item}
  OBVIOUS
<1>11. sync' = [sync EXCEPT !.todo = todo, !.known = known]
  BY <1>5, <1>10
<1>12. d.id = Cardinality(deals[p]) + 1 /\ d.siren = SirenOf(d.name) /\ p = sync.pipeline
  BY <1>1, <1>3
<1>13. known \in {sync.known, sync.known \cup {d}} /\ (known = sync.known => Fail)
  BY <1>5
<1>14. /\ deals' = [deals EXCEPT ![p] = deals[p] \cup {f}] /\ (Fail \/ UNCHANGED failures)
       /\ UNCHANGED <<funnelDay, prospects>>
  BY <1>5
<1>15. QED BY <1>6, <1>8, <1>9, <1>11, <1>12, <1>13, <1>14, CreateKeeps

LEMMA LinkKeeps ==
  ASSUME FunnelInv, LinkBrevoDeals
  PROVE  FunnelInv' /\ WonStays
<1>1. PICK p \in Pipelines : \E d \in deals[p] : LinkExistingDeal(p, d)
  BY DEF LinkBrevoDeals
<1>2. PICK d \in deals[p] : LinkExistingDeal(p, d)
  BY <1>1
<1>3. d \in Deal
  BY DealNames
<1>4. PICK f \in Deal : f = Linked(d) /\ SameDeal(f, d) /\ f.stage = d.stage
  BY <1>3, LinkedIsSame
<1>5. /\ deals' = [deals EXCEPT ![p] = WithDeal(deals[p], d, f)]
      /\ UNCHANGED <<funnelDay, prospects, sync, failures>>
  BY <1>2, <1>4 DEF LinkExistingDeal, Companies, FunnelInv, DealsAreNumbered
<1>6. PICK todo \in SUBSET sync.todo : todo = sync.todo
  OBVIOUS
<1>7. sync' = [sync EXCEPT !.todo = todo]
  BY <1>5, <1>6, SyncShape
<1>8. p = "activation" => StaysWon(f)'
  <2>1. HAVE p = "activation"
  <2>2. StaysWon(d)
    BY <2>1 DEF FunnelInv, ActivationIsSound
  <2>3. ActivationItems' = ActivationItems /\ (Alone(f.name)' <=> Alone(f.name))
    BY <1>5 DEF ActivationItems, Alone, SirenOf
  <2>4. QED BY <2>2, <2>3, <1>4, <1>5 DEF StaysWon, SameDeal, WonOver
<1>9. StageIsKept(p, d, f)
  BY <1>4 DEF StageIsKept
<1>10. QED BY <1>4, <1>5, <1>7, <1>8, <1>9, RewriteKeeps

-----------------------------------------------------------------------------
LEMMA FunnelStarts == FunnelInit => FunnelInv
<1> SUFFICES ASSUME FunnelInit PROVE FunnelInv
  OBVIOUS
<1>1. PICK l \in SirenLayouts :
        prospects = [c \in Prospect |-> [siren |-> l[c], creatorActive |-> FALSE,
                                         mission |-> NoMission, mail |-> "none"]]
  BY DEF FunnelInit
<1>2. l \in [Prospect -> FunnelSiren \cup {NoSiren}]
  BY FunnelAssumption
<1>3. prospects \in [Prospect -> ProspectState]
  BY <1>1, <1>2 DEF ProspectState
<1>4. funnelDay \in FunnelDays /\ failures = 0 /\ failures \in 0..MaxFailures
  BY FunnelAssumption DEF FunnelInit, FunnelDays
<1>5. \A p \in Pipelines : deals[p] = {}
  BY DEF FunnelInit
<1>6. IsFiniteSet({}) /\ Cardinality({}) = 0 /\ IdsOf({}) = {}
  BY FS_EmptySet DEF IdsOf
<1>7. DealsAreNumbered
  <2>1. 1..0 = {}
    OBVIOUS
  <2>2. DealsNumbered({})
    BY <2>1, <1>6 DEF DealsNumbered
  <2>3. QED BY <2>2, <1>5 DEF DealsAreNumbered, FunnelInit
<1>8. DealsAreFew
  <2>1. \A s : OfSiren({}, s) = {}
    BY DEF OfSiren
  <2>2. QED BY <2>1, <1>4, <1>5, <1>6 DEF DealsAreFew
<1>9. SyncIsSound
  BY DEF FunnelInit, IdleSync, SyncIsSound
<1>10. ActivationIsSound
  BY <1>5 DEF FunnelInit, IdleSync, ActivationItems, ActivationIsSound, Pipelines
<1>11. QED BY <1>3, <1>4, <1>7, <1>8, <1>9, <1>10 DEF FunnelInv

LEMMA FunnelStep == FunnelInv /\ [FunnelNext]_funnelVars => FunnelInv' /\ WonStays
<1> SUFFICES ASSUME FunnelInv, [FunnelNext]_funnelVars PROVE FunnelInv' /\ WonStays
  OBVIOUS
<1>1. ASSUME NEW item \in sync.todo, SyncSingleCompany(item) \/ SyncSingleCompanyFails(item)
      PROVE  FunnelInv' /\ WonStays
  BY <1>1, UpdateKeeps, CreationKeeps, PassedOverKeeps
  DEF SyncSingleCompany, SyncSingleCompanyFails
<1>2. CASE SyncStep \/ SyncFails
  BY <1>1, <1>2, SyncAllFunnelsKeeps, AskDealsKeeps, SyncEndsKeeps, PassedOverKeeps
  DEF SyncStep, SyncFails
<1>3. CASE CompanyStep
  BY <1>3, CompaniesKeep
<1>4. CASE LinkBrevoDeals
  BY <1>4, LinkKeeps
<1>5. CASE UNCHANGED funnelVars
  <2>1. UNCHANGED <<funnelDay, prospects, deals, sync, failures>>
    BY <1>5 DEF funnelVars
  <2>2. ProspectsGrow
    BY <2>1 DEF ProspectsGrow, WonOver
  <2>3. QED BY <2>1, <2>2, ProspectsKeep, UnwrittenStaysWon DEF FunnelInv
<1>6. QED BY <1>2, <1>3, <1>4, <1>5 DEF FunnelNext

LEMMA FunnelIsTyped == FunnelInv => FunnelTypeOK
<1> SUFFICES ASSUME FunnelInv PROVE FunnelTypeOK
  OBVIOUS
<1>1. \A c \in Prospect : /\ prospects[c].mission \in FunnelDays \cup {NoMission}
                          /\ prospects[c].mail \in {"none", "first", "reminder"}
  BY DEF FunnelInv, ProspectState
<1>2. \A p \in Pipelines : deals[p] \subseteq Deal /\ \A d, e \in deals[p] : d.id = e.id => d = e
  BY DEF FunnelInv, DealsAreNumbered, DealsNumbered
<1>3. \A item \in sync.todo \cup sync.later : item.stage \in Stages
  BY SyncShape DEF FunnelItem
<1>4. QED BY <1>1, <1>2, <1>3 DEF FunnelInv, FunnelTypeOK

LEMMA FewDealsHaveCauses == FunnelInv => SecondDealHasCause
<1> SUFFICES ASSUME FunnelInv, NEW p \in Pipelines, NEW c \in Prospect, SirenOf(c) # NoSiren
             PROVE  Cardinality({d \in deals[p] : d.siren = SirenOf(c)}) <= 1 + failures
  BY DEF SecondDealHasCause
<1>1. PICK s \in FunnelSiren : s = SirenOf(c)
  BY DEF FunnelInv, ProspectState, SirenOf
<1>2. Cardinality(OfSiren(deals[p], s)) <= 1 + failures
  BY DEF FunnelInv, DealsAreFew
<1>3. QED BY <1>1, <1>2 DEF OfSiren

\* services/brevo: of the companies that share a SIREN, a second deal in a
\* pipeline has a failed request as its cause, and a company won over is
\* never lost again, whatever requests fail and whenever the command ends.
THEOREM DealsStayTrue ==
  FunnelSpec => FunnelIsTrue
<1>1. FunnelInv /\ [FunnelNext]_funnelVars => [WonStays]_funnelVars
  BY FunnelStep
<1>2. FunnelInv /\ [FunnelNext]_funnelVars => FunnelInv'
  BY FunnelStep
<1>3. FunnelSpec => [][WonStays]_funnelVars
  BY <1>1, <1>2, FunnelStarts, PTL DEF FunnelSpec
<1>4. FunnelSpec => WonForGood
  BY <1>3 DEF WonForGood, WonStays
<1>5. QED BY <1>2, <1>4, FunnelStarts, FunnelIsTyped, FewDealsHaveCauses,
          PTL DEF FunnelSpec, FunnelIsTrue

-----------------------------------------------------------------------------
(* The register of companies.                                              *)

StaffRecord ==
  [status : {"none", "pending", "approved"}, start : -1..1, ended : BOOLEAN]

RegistryRow ==
  [siren : Siren, sirets : SUBSET Establishment, ceased : BOOLEAN,
   infoAge : 0..OldInfo, admin : StaffRecord, worker : StaffRecord,
   seen : SUBSET CompanyRow]

Items == {{}} \cup {{e} : e \in Establishment}

RequestState ==
  [phase : {"none", "status", "insee", "store", "contact", "company", "link", "answered"},
   by : {"none", "administrator", "software"}, siren : Siren \cup {"none"},
   asked : SUBSET Items, todo : SUBSET Items, item : Items,
   status : {"none", "unregistered", "fully", "partially"},
   seen : SUBSET CompanyRow, crm : SUBSET {"contact", "company", "link"}]

\* What was asked of an item needs no more work.
Settled(s, item) ==
  insee[s] = "closed" \/ \E c \in RowsOf(s) : Covers(c, item) \/ item = {}

\* What a request that may store its item had seen leaves the item free.
SawRoom(q) ==
  \A c \in q.seen : /\ c \in RowsOf(q.siren)
                    /\ registered[c].sirets # {} /\ q.item # {}

RequestIsSound(q) ==
  /\ IF q.phase = "none" THEN q.asked = {} ELSE q.siren \in Siren
  /\ \A item \in q.asked : item \in q.todo \/ Settled(q.siren, item)
  /\ q.phase \in {"contact", "company", "link"} => Settled(q.siren, q.item)
  /\ q.phase \in {"insee", "store"} => SawRoom(q)
  /\ q.phase = "answered" => q.todo = {}

RequestsAreSound == \A r \in SignUpRequest : RequestIsSound(signUps[r])

RowsAreNumbered ==
  /\ registered \in [CompanyRow -> RegistryRow \cup {NoRow}]
  /\ Rows = 1..Cardinality(Rows)
  /\ \A c \in Rows : registered[c].seen \subseteq Rows

JobIsSound ==
  /\ ceasedJob = [on |-> ceasedJob.on, ran |-> ceasedJob.ran, todo |-> ceasedJob.todo,
                  current |-> ceasedJob.current, read |-> ceasedJob.read]
  /\ ceasedJob.todo \subseteq Rows
  /\ ceasedJob.current \in ceasedJob.todo \cup {0}
  /\ ~ceasedJob.on => ceasedJob.current = 0
  /\ ceasedJob.current # 0 => insee[registered[ceasedJob.current].siren] = "closed"

RegistryInv ==
  /\ RowsAreNumbered
  /\ signUps \in [SignUpRequest -> RequestState]
  /\ insee \in [Siren -> {"open", "unlisted", "closed"}]
  /\ outages \in 0..MaxOutages
  /\ SharedOnlyAtOnce
  /\ OnlyClosedCease
  /\ JobIsSound
  /\ RequestsAreSound

LEMMA NoRowIsNone == NoRow \notin RegistryRow
<1>1. \A row \in RegistryRow : row.siren \in Siren
  BY DEF RegistryRow
<1>2. NoRow.siren = "none"
  BY DEF NoRow
<1>3. QED BY <1>1, <1>2, RegistryAssumption

LEMMA RowsAreWritten ==
  ASSUME RegistryInv
  PROVE  /\ Rows \subseteq CompanyRow /\ 0 \notin Rows
         /\ \A c \in Rows : registered[c] \in RegistryRow
         /\ \A c \in CompanyRow : c \in Rows <=> registered[c] \in RegistryRow
BY NoRowIsNone, RegistryAssumption DEF RegistryInv, RowsAreNumbered, Rows

\* What is stored of a company, and what the INSEE has closed, stays so.
RowsStand ==
  \A c \in Rows : /\ c \in Rows'
                  /\ registered'[c].siren = registered[c].siren
                  /\ registered'[c].sirets = registered[c].sirets
                  /\ registered'[c].seen = registered[c].seen

ClosedStay == \A s \in Siren : insee[s] = "closed" => insee'[s] = "closed"

LEMMA SettledStays ==
  ASSUME RowsStand, ClosedStay, NEW s \in Siren, NEW item, Settled(s, item)
  PROVE  Settled(s, item)'
BY DEF RowsStand, ClosedStay, Settled, RowsOf, Covers

LEMMA RoomStays ==
  ASSUME RowsStand, NEW q \in RequestState, SawRoom(q)
  PROVE  SawRoom(q)'
BY DEF RowsStand, SawRoom, RowsOf

LEMMA SoundStays ==
  ASSUME RowsStand, ClosedStay, NEW q \in RequestState, RequestIsSound(q)
  PROVE  RequestIsSound(q)'
<1>1. CASE q.phase = "none"
  BY <1>1 DEF RequestIsSound
<1>2. CASE q.phase # "none"
  BY <1>2, SettledStays, RoomStays DEF RequestIsSound
<1>3. QED BY <1>1, <1>2

LEMMA EachIsSound ==
  ASSUME \A r \in SignUpRequest : \A q : q = signUps'[r] => RequestIsSound(q)'
  PROVE  RequestsAreSound'
BY DEF RequestsAreSound, RequestIsSound, SawRoom, Settled, RowsOf, Covers

\* A request goes on while the others wait.
LEMMA RequestGoesOn ==
  ASSUME RegistryInv, NEW r \in SignUpRequest, NEW q \in RequestState, SetRequest(r, q),
         RowsStand, ClosedStay, RequestIsSound(q)'
  PROVE  signUps' \in [SignUpRequest -> RequestState] /\ RequestsAreSound'
<1>1. /\ signUps \in [SignUpRequest -> RequestState]
      /\ signUps' = [signUps EXCEPT ![r] = q]
  BY DEF RegistryInv, SetRequest
<1>2. /\ signUps' \in [SignUpRequest -> RequestState] /\ signUps'[r] = q
      /\ \A x \in SignUpRequest : x # r => signUps'[x] = signUps[x]
  BY <1>1
<1>3. ASSUME NEW x \in SignUpRequest, NEW p, p = signUps'[x] PROVE RequestIsSound(p)'
  <2>1. CASE x = r
    BY <2>1, <1>2, <1>3
  <2>2. CASE x # r
    <3>1. p = signUps[x]
      BY <2>2, <1>2, <1>3
    <3>2. p \in RequestState /\ RequestIsSound(p)
      BY <3>1 DEF RegistryInv, RequestsAreSound
    <3>3. QED BY <3>2, SoundStays
  <2>3. QED BY <2>1, <2>2
<1>4. RequestsAreSound'
  BY <1>3, EachIsSound
<1>5. QED BY <1>2, <1>4

LEMMA RequestSays ==
  ASSUME RegistryInv, NEW r \in SignUpRequest
  PROVE  signUps[r] \in RequestState /\ RequestIsSound(signUps[r])
BY DEF RegistryInv, RequestsAreSound

\* The request takes the next item once this one is settled.
LEMMA NextItem ==
  ASSUME NEW q \in RequestState, q.phase # "none", q.siren \in Siren,
         \A item \in q.asked : item \in q.todo \/ Settled(q.siren, item)',
         Settled(q.siren, q.item)'
  PROVE  AfterFailure(q) \in RequestState /\ RequestIsSound(AfterFailure(q))'
<1>1. PICK next : next = AfterFailure(q)
  OBVIOUS
<1>2. /\ next = [q EXCEPT !.todo = q.todo \ {q.item}, !.item = {}, !.status = "none",
                          !.seen = {}, !.crm = {},
                          !.phase = IF q.todo = {q.item} THEN "answered" ELSE "status"]
  BY <1>1 DEF AfterFailure, RequestState
<1>3. {} \in Items
  BY DEF Items
<1>4. /\ next \in RequestState /\ next.siren = q.siren /\ next.asked = q.asked
      /\ next.todo = q.todo \ {q.item} /\ next.item = {}
      /\ next.phase = IF q.todo = {q.item} THEN "answered" ELSE "status"
  BY <1>2, <1>3 DEF RequestState
<1>5. RequestIsSound(next)'
  BY <1>4 DEF RequestIsSound
<1>6. QED BY <1>1, <1>4, <1>5

\* A step of a request that writes no row.
LEMMA RequestAlone ==
  ASSUME RegistryInv, NEW r \in SignUpRequest, NEW q \in RequestState, SetRequest(r, q),
         UNCHANGED <<registered, insee, ceasedJob>>, outages' \in 0..MaxOutages,
         RequestIsSound(q)'
  PROVE  RegistryInv'
<1>1. UNCHANGED Rows
  BY DEF Rows
<1>2. RowsStand /\ ClosedStay
  BY <1>1 DEF RowsStand, ClosedStay
<1>3. signUps' \in [SignUpRequest -> RequestState] /\ RequestsAreSound'
  BY <1>2, RequestGoesOn
<1>4. RowsAreNumbered' /\ JobIsSound'
  BY <1>1 DEF RegistryInv, RowsAreNumbered, JobIsSound
<1>5. SharedOnlyAtOnce' /\ OnlyClosedCease'
  BY <1>1 DEF RegistryInv, SharedOnlyAtOnce, Shared, OnlyClosedCease
<1>6. QED BY <1>3, <1>4, <1>5 DEF RegistryInv

\* The rows stay, so what was settled is.
LEMMA NothingStored ==
  ASSUME UNCHANGED <<registered, insee>>
  PROVE  RowsStand /\ ClosedStay
BY DEF RowsStand, ClosedStay, Rows

LEMMA BeginKeeps ==
  ASSUME RegistryInv, NEW r \in SignUpRequest, NEW by \in {"administrator", "software"},
         NEW s \in Siren, NEW items \in SUBSET Items, Begin(r, by, s, items)
  PROVE  RegistryInv'
<1>1. PICK q : q = [IdleRequest EXCEPT !.phase = "status", !.by = by, !.siren = s,
                                       !.asked = items, !.todo = items]
  OBVIOUS
<1>2. SetRequest(r, q) /\ UNCHANGED <<registered, insee, ceasedJob, outages>>
  BY <1>1 DEF Begin
<1>3. {} \in Items
  BY DEF Items
<1>4. /\ q \in RequestState /\ q.phase = "status" /\ q.siren = s /\ q.asked = items
      /\ q.todo = items
  BY <1>1, <1>3 DEF IdleRequest, RequestState
<1>5. RequestIsSound(q)'
  BY <1>4 DEF RequestIsSound
<1>6. outages' \in 0..MaxOutages
  BY <1>2 DEF RegistryInv
<1>7. QED BY <1>2, <1>4, <1>5, <1>6, RequestAlone

\* An item that may not be stored is settled.
LEMMA RefusedIsSettled ==
  ASSUME RegistryInv, NEW s \in Siren, NEW item \in Items,
         ~MayStore(GetSirenRegistrationStatus(s), item)
  PROVE  Settled(s, item)
<1>1. CASE RowsOf(s) = {}
  BY <1>1 DEF MayStore, GetSirenRegistrationStatus
<1>2. CASE \E c \in RowsOf(s) : registered[c].sirets = {}
  BY <1>2 DEF Settled, Covers
<1>3. CASE RowsOf(s) # {} /\ ~\E c \in RowsOf(s) : registered[c].sirets = {}
  <2>1. GetSirenRegistrationStatus(s) = "partially"
    BY <1>3 DEF GetSirenRegistrationStatus
  <2>2. item = {}
    BY <2>1 DEF MayStore
  <2>3. QED BY <2>2, <1>3 DEF Settled
<1>4. QED BY <1>1, <1>2, <1>3

LEMMA ReadStatusKeeps ==
  ASSUME RegistryInv, NEW r \in SignUpRequest, NEW item \in signUps[r].todo, ReadStatus(r, item)
  PROVE  RegistryInv'
<1>1. PICK old \in RequestState : old = signUps[r] /\ RequestIsSound(old)
  BY RequestSays
<1>2. PICK status : status = GetSirenRegistrationStatus(old.siren)
  OBVIOUS
<1>3. PICK q : q = [old EXCEPT !.item = item, !.crm = {}, !.status = status,
                              !.seen = RowsOf(old.siren)]
  OBVIOUS
<1>4. /\ old.phase = "status" /\ UNCHANGED <<registered, insee, ceasedJob, outages>>
      /\ SetRequest(r, IF MayStore(q.status, item) THEN [q EXCEPT !.phase = "insee"]
                       ELSE AfterFailure(q))
  BY <1>1, <1>2, <1>3 DEF ReadStatus
<1>5. status \in {"unregistered", "fully", "partially"} /\ item \in Items /\ item \in old.todo
      /\ RowsOf(old.siren) \in SUBSET CompanyRow
  BY <1>1, <1>2 DEF GetSirenRegistrationStatus, RequestState, RowsOf, Rows
<1>6. /\ q \in RequestState /\ q.phase = "status" /\ q.siren = old.siren /\ q.item = item
      /\ q.asked = old.asked /\ q.todo = old.todo /\ q.status = status
      /\ q.seen = RowsOf(old.siren)
  BY <1>3, <1>4, <1>5 DEF RequestState
<1>7. old.siren \in Siren /\ \A i \in old.asked : i \in old.todo \/ Settled(old.siren, i)
  BY <1>1, <1>4 DEF RequestIsSound
<1>8. \A i \in old.asked : i \in old.todo \/ Settled(old.siren, i)'
  BY <1>4, <1>7, NothingStored, SettledStays
<1>9. outages' \in 0..MaxOutages
  BY <1>4 DEF RegistryInv
<1>10. CASE MayStore(status, item)
  <2>1. PICK next : next = [q EXCEPT !.phase = "insee"]
    OBVIOUS
  <2>2. /\ next \in RequestState /\ next.phase = "insee" /\ next.siren = q.siren
        /\ next.asked = q.asked /\ next.todo = q.todo /\ next.item = item
        /\ next.seen = RowsOf(old.siren)
    BY <2>1, <1>6 DEF RequestState
  <2>6. SawRoom(next)
    BY <2>2, <1>2, <1>6, <1>10 DEF SawRoom, MayStore, GetSirenRegistrationStatus
  <2>7. SawRoom(next)'
    BY <2>2, <2>6, <1>4, NothingStored, RoomStays
  <2>3. RequestIsSound(next)'
    BY <2>2, <2>7, <1>6, <1>7, <1>8 DEF RequestIsSound
  <2>4. SetRequest(r, next)
    BY <2>1, <1>4, <1>6, <1>10
  <2>5. QED BY <2>2, <2>3, <2>4, <1>4, <1>9, RequestAlone
<1>11. CASE ~MayStore(status, item)
  <2>1. Settled(old.siren, item)'
    BY <1>2, <1>4, <1>5, <1>7, <1>11, RefusedIsSettled, NothingStored, SettledStays
  <2>2. AfterFailure(q) \in RequestState /\ RequestIsSound(AfterFailure(q))'
    BY <2>1, <1>6, <1>7, <1>8, NextItem
  <2>3. SetRequest(r, AfterFailure(q))
    BY <1>4, <1>6, <1>11
  <2>4. QED BY <2>2, <2>3, <1>4, <1>9, RequestAlone
<1>12. QED BY <1>10, <1>11

\* The request goes on to another phase, with the same item.
LEMMA PhaseGoesOn ==
  ASSUME RegistryInv, NEW r \in SignUpRequest, NEW q \in RequestState, SetRequest(r, q),
         UNCHANGED <<registered, insee, ceasedJob>>, outages' \in 0..MaxOutages,
         signUps[r].phase # "none", q.phase \in {"store", "contact", "company", "link"},
         q.siren = signUps[r].siren, q.asked = signUps[r].asked, q.todo = signUps[r].todo,
         IF q.phase = "store" THEN SawRoom(q) ELSE Settled(q.siren, q.item)
  PROVE  RegistryInv'
<1>1. RequestIsSound(signUps[r])
  BY RequestSays
<1>2. q.siren \in Siren /\ \A item \in q.asked : item \in q.todo \/ Settled(q.siren, item)
  BY <1>1 DEF RequestIsSound
<1>3. RequestIsSound(q)'
  BY <1>2, NothingStored, SettledStays, RoomStays DEF RequestIsSound
<1>4. QED BY <1>3, RequestAlone

\* The request ends with its item, which is settled.
LEMMA ItemEnds ==
  ASSUME RegistryInv, NEW r \in SignUpRequest, NEW q \in RequestState, q = signUps[r],
         SetRequest(r, AfterFailure(q)), UNCHANGED <<registered, insee, ceasedJob>>,
         outages' \in 0..MaxOutages, q.phase # "none", Settled(q.siren, q.item)
  PROVE  RegistryInv'
<1>1. RequestIsSound(q)
  BY RequestSays
<1>2. q.siren \in Siren /\ \A item \in q.asked : item \in q.todo \/ Settled(q.siren, item)
  BY <1>1 DEF RequestIsSound
<1>3. /\ \A item \in q.asked : item \in q.todo \/ Settled(q.siren, item)'
      /\ Settled(q.siren, q.item)'
  BY <1>2, NothingStored, SettledStays
<1>4. AfterFailure(q) \in RequestState /\ RequestIsSound(AfterFailure(q))'
  BY <1>2, <1>3, NextItem
<1>5. QED BY <1>4, RequestAlone

LEMMA OutageCounts ==
  ASSUME RegistryInv, Outage \/ UNCHANGED outages
  PROVE  outages' \in 0..MaxOutages
<1>1. outages \in 0..MaxOutages
  BY DEF RegistryInv
<1>2. QED BY <1>1, RegistryAssumption DEF Outage

LEMMA InseeKeeps ==
  ASSUME RegistryInv, NEW r \in SignUpRequest, AskInsee(r) \/ InseeIsDown(r)
  PROVE  RegistryInv'
<1>1. PICK q \in RequestState : q = signUps[r] /\ RequestIsSound(q)
  BY RequestSays
<1>2. PICK next : next = [q EXCEPT !.phase = "store"]
  OBVIOUS
<1>3. /\ next \in RequestState /\ next.phase = "store" /\ next.siren = q.siren
      /\ next.asked = q.asked /\ next.todo = q.todo /\ next.item = q.item
      /\ next.seen = q.seen
  BY <1>2 DEF RequestState
<1>4. /\ q.phase = "insee" /\ UNCHANGED <<registered, insee, ceasedJob>>
      /\ Outage \/ UNCHANGED outages
      /\ \/ SetRequest(r, AfterFailure(q)) /\ insee[q.siren] = "closed"
         \/ SetRequest(r, next)
  BY <1>1, <1>2 DEF AskInsee, InseeIsDown
<1>5. outages' \in 0..MaxOutages
  BY <1>4, OutageCounts
<1>6. CASE SetRequest(r, AfterFailure(q)) /\ insee[q.siren] = "closed"
  <2>1. Settled(q.siren, q.item)
    BY <1>6 DEF Settled
  <2>2. QED BY <2>1, <1>1, <1>4, <1>5, <1>6, ItemEnds
<1>7. CASE SetRequest(r, next)
  <2>1. SawRoom(next)
    BY <1>1, <1>3, <1>4 DEF RequestIsSound, SawRoom
  <2>2. QED BY <2>1, <1>1, <1>3, <1>4, <1>5, <1>7, PhaseGoesOn
<1>8. QED BY <1>4, <1>6, <1>7

LEMMA SignedUpKeeps ==
  ASSUME RegistryInv, NEW r \in SignUpRequest, SiretAlreadySignedUp(r)
  PROVE  RegistryInv'
<1>1. PICK q \in RequestState : q = signUps[r] /\ RequestIsSound(q)
  BY RequestSays
<1>2. /\ q.phase = "store" /\ ~SiretIsFree(q.siren, q.item) /\ SetRequest(r, AfterFailure(q))
      /\ UNCHANGED <<registered, insee, ceasedJob, outages>>
  BY <1>1 DEF SiretAlreadySignedUp
<1>3. PICK c \in Rows : registered[c].siren = q.siren /\ registered[c].sirets \cap q.item # {}
  BY <1>2 DEF SiretIsFree, Overlaps
<1>4. q.item \in Items
  BY DEF RequestState
<1>5. PICK e \in Establishment : q.item = {e}
  BY <1>3, <1>4 DEF Items
<1>6. Settled(q.siren, q.item)
  BY <1>3, <1>5 DEF Settled, RowsOf, Covers
<1>7. QED BY <1>1, <1>2, <1>6, OutageCounts, ItemEnds

LEMMA BrevoKeeps ==
  ASSUME RegistryInv, NEW r \in SignUpRequest, SendToBrevo(r) \/ BrevoIsDown(r)
  PROVE  RegistryInv'
<1>1. PICK old \in RequestState : old = signUps[r] /\ RequestIsSound(old)
  BY RequestSays
<1>2. /\ old.phase \in {"contact", "company", "link"}
      /\ UNCHANGED <<registered, insee, ceasedJob>> /\ (Outage \/ UNCHANGED outages)
  BY <1>1 DEF SendToBrevo, BrevoIsDown
<1>3. outages' \in 0..MaxOutages
  BY <1>2, OutageCounts
<1>4. Settled(old.siren, old.item)
  BY <1>1, <1>2 DEF RequestIsSound
<1>5. CASE BrevoIsDown(r)
  <2>1. SetRequest(r, AfterFailure(old))
    BY <1>1, <1>5 DEF BrevoIsDown, AfterSuccess
  <2>2. QED BY <2>1, <1>1, <1>2, <1>3, <1>4, ItemEnds
<1>6. CASE SendToBrevo(r)
  <2>1. PICK q : q = [old EXCEPT !.crm = old.crm \cup {old.phase}]
    OBVIOUS
  <2>2. /\ q \in RequestState /\ q.phase = old.phase /\ q.siren = old.siren
        /\ q.asked = old.asked /\ q.todo = old.todo /\ q.item = old.item
    BY <2>1, <1>2 DEF RequestState
  <2>3. SetRequest(r, IF old.phase = "link" THEN AfterFailure(q)
                      ELSE [q EXCEPT !.phase = NextPhase[q.phase]])
    BY <2>1, <1>1, <1>6 DEF SendToBrevo, AfterSuccess, RequestState
  <2>4. CASE old.phase = "link"
    <3>1. /\ \A item \in q.asked : item \in q.todo \/ Settled(q.siren, item)'
          /\ Settled(q.siren, q.item)' /\ q.siren \in Siren
      BY <2>2, <1>1, <1>2, <1>4, NothingStored, SettledStays DEF RequestIsSound
    <3>2. AfterFailure(q) \in RequestState /\ RequestIsSound(AfterFailure(q))'
      BY <3>1, <2>2, <1>2, NextItem
    <3>3. SetRequest(r, AfterFailure(q))
      BY <2>3, <2>4
    <3>4. QED BY <3>2, <3>3, <1>2, <1>3, RequestAlone
  <2>5. CASE old.phase # "link"
    <3>1. PICK next : next = [q EXCEPT !.phase = NextPhase[q.phase]]
      OBVIOUS
    <3>2. NextPhase[q.phase] \in {"company", "link"}
      BY <2>2, <2>5, <1>2 DEF NextPhase
    <3>3. /\ next \in RequestState /\ next.phase \in {"company", "link"} /\ next.siren = old.siren
          /\ next.asked = old.asked /\ next.todo = old.todo /\ next.item = old.item
      BY <3>1, <3>2, <2>2 DEF RequestState
    <3>4. SetRequest(r, next)
      BY <3>1, <2>3, <2>5
    <3>5. QED BY <3>3, <3>4, <1>1, <1>2, <1>3, <1>4, PhaseGoesOn
  <2>6. QED BY <2>4, <2>5
<1>7. QED BY <1>5, <1>6

\* A company has its item to itself among those its request had seen.
LEMMA StoreKeeps ==
  ASSUME RegistryInv, NEW r \in SignUpRequest, StoreCompany(r)
  PROVE  RegistryInv'
<1>1. PICK q \in RequestState : q = signUps[r] /\ RequestIsSound(q)
  BY RequestSays
<1>2. PICK n \in Nat : Rows = 1..n /\ n = Cardinality(Rows)
  <2>1. IsFiniteSet(Rows) /\ Rows = 1..Cardinality(Rows)
    BY RowsAreWritten, RegistryAssumption, FS_Subset DEF RegistryInv, RowsAreNumbered
  <2>2. QED BY <2>1, FS_CardinalityType
<1>3. PICK new \in Nat, row \in {Stored(q)} : new = n + 1 /\ row = Stored(q)
  OBVIOUS
<1>4. /\ q.phase = "store" /\ SiretIsFree(q.siren, q.item) /\ new \in CompanyRow
      /\ registered' = [registered EXCEPT ![new] = row]
      /\ SetRequest(r, IF q.by = "software" THEN AfterFailure(q)
                       ELSE [q EXCEPT !.phase = "contact"])
      /\ UNCHANGED <<insee, ceasedJob, outages>>
  BY <1>1, <1>2, <1>3 DEF StoreCompany, NextRow, AfterSuccess
<1>5. q.siren \in Siren /\ q.item \in Items
  BY <1>1, <1>4 DEF RequestIsSound, RequestState
<1>6. /\ Nobody \in StaffRecord /\ ~Nobody.ended
      /\ Employed("approved", 0) \in StaffRecord /\ ~Employed("approved", 0).ended
  BY DEF Nobody, Employed, StaffRecord
<1>7. PICK admin \in StaffRecord : ~admin.ended /\
        admin = IF q.by = "software" THEN Nobody ELSE Employed("approved", 0)
  BY <1>6
<1>8. row = [siren |-> q.siren, sirets |-> q.item, ceased |-> FALSE, infoAge |-> 0,
             admin |-> admin, worker |-> Nobody, seen |-> q.seen]
  BY <1>3, <1>7 DEF Stored
<1>9. q.item \subseteq Establishment /\ 0 \in 0..OldInfo /\ q.seen \in SUBSET CompanyRow
  BY <1>5, RegistryAssumption DEF Items, RequestState
<1>10. /\ row \in RegistryRow /\ row.siren = q.siren /\ row.sirets = q.item
       /\ row.seen = q.seen
       /\ ~row.ceased /\ ~row.admin.ended /\ ~row.worker.ended
  BY <1>5, <1>6, <1>7, <1>8, <1>9 DEF RegistryRow
<1>11. new \notin Rows
  BY <1>2, <1>3
<1>12. /\ registered' \in [CompanyRow -> RegistryRow \cup {NoRow}] /\ registered'[new] = row
       /\ \A c \in CompanyRow : c # new => registered'[c] = registered[c]
  BY <1>4, <1>10 DEF RegistryInv, RowsAreNumbered
<1>13. Rows' = Rows \cup {new}
  BY <1>4, <1>10, <1>11, <1>12, NoRowIsNone DEF Rows
<1>14. RowsAreNumbered'
  <2>1. 1..n \cup {new} = 1..new
    BY <1>3
  <2>2. Rows' = 1..new
    BY <2>1, <1>2, <1>13
  <2>3. Cardinality(1..new) = new
    BY FS_Interval
  <2>4. q.seen \subseteq Rows
    BY <1>1, <1>4 DEF RequestIsSound, SawRoom, RowsOf
  <2>5. \A c \in Rows : c # new /\ c \in CompanyRow /\ registered[c].seen \subseteq Rows
    BY <1>11, RowsAreWritten DEF RegistryInv, RowsAreNumbered
  <2>6. \A c \in Rows' : registered'[c].seen \subseteq Rows'
    BY <2>4, <2>5, <1>10, <1>12, <1>13
  <2>7. QED BY <2>2, <2>3, <2>6, <1>12 DEF RowsAreNumbered
<1>15. \A c \in Rows : c # new /\ c \in CompanyRow /\ registered'[c] = registered[c]
  BY <1>11, <1>12, RowsAreWritten
<1>16. RowsStand /\ ClosedStay
  BY <1>4, <1>13, <1>15 DEF RowsStand, ClosedStay
<1>17. SharedOnlyAtOnce'
  <2>1. ASSUME NEW c \in q.seen PROVE ~Shared(c, new)'
    <3>1. /\ c \in Rows /\ registered[c].siren = q.siren /\ registered[c].sirets # {}
          /\ q.item # {}
      BY <1>1, <1>4 DEF RequestIsSound, SawRoom, RowsOf
    <3>2. registered[c].sirets \cap q.item = {}
      BY <3>1, <1>4 DEF SiretIsFree, Overlaps
    <3>3. QED BY <3>1, <3>2, <1>10, <1>12, <1>15 DEF Shared
  <2>2. ASSUME NEW d \in Rows, NEW c \in registered[d].seen PROVE ~Shared(c, d)'
    <3>1. c \in Rows /\ ~Shared(c, d)
      BY DEF RegistryInv, RowsAreNumbered, SharedOnlyAtOnce
    <3>2. QED BY <3>1, <1>15 DEF Shared
  <2>3. ASSUME NEW d \in Rows' PROVE \A c \in registered'[d].seen : ~Shared(c, d)'
    BY <2>1, <2>2, <1>10, <1>12, <1>13, <1>15
  <2>4. QED BY <2>3 DEF SharedOnlyAtOnce
<1>18. OnlyClosedCease'
  BY <1>4, <1>10, <1>12, <1>13, <1>15 DEF RegistryInv, OnlyClosedCease
<1>19. JobIsSound'
  BY <1>4, <1>13, <1>15 DEF RegistryInv, JobIsSound
<1>20. Settled(q.siren, q.item)'
  BY <1>10, <1>12, <1>13 DEF Settled, RowsOf, Covers
<1>21. \A item \in q.asked : item \in q.todo \/ Settled(q.siren, item)'
  BY <1>1, <1>4, <1>5, <1>16, SettledStays DEF RequestIsSound
<1>22. signUps' \in [SignUpRequest -> RequestState] /\ RequestsAreSound'
  <2>1. CASE q.by = "software"
    <3>1. AfterFailure(q) \in RequestState /\ RequestIsSound(AfterFailure(q))'
      BY <1>4, <1>5, <1>20, <1>21, NextItem
    <3>2. SetRequest(r, AfterFailure(q))
      BY <1>4, <2>1
    <3>3. QED BY <3>1, <3>2, <1>16, RequestGoesOn
  <2>2. CASE q.by # "software"
    <3>1. PICK next : next = [q EXCEPT !.phase = "contact"]
      OBVIOUS
    <3>2. /\ next \in RequestState /\ next.phase = "contact" /\ next.siren = q.siren
          /\ next.asked = q.asked /\ next.todo = q.todo /\ next.item = q.item
      BY <3>1 DEF RequestState
    <3>3. RequestIsSound(next)'
      BY <3>2, <1>5, <1>20, <1>21 DEF RequestIsSound
    <3>4. SetRequest(r, next)
      BY <3>1, <1>4, <2>2
    <3>5. QED BY <3>2, <3>3, <3>4, <1>16, RequestGoesOn
  <2>3. QED BY <2>1, <2>2
<1>23. QED BY <1>4, <1>14, <1>17, <1>18, <1>19, <1>22 DEF RegistryInv

\* The details of the companies change; what they stand for does not.
Rewritten(c) ==
  IF c \in Rows
  THEN /\ registered'[c] \in RegistryRow
       /\ registered'[c].siren = registered[c].siren
       /\ registered'[c].sirets = registered[c].sirets
       /\ registered'[c].seen = registered[c].seen
       /\ registered'[c].ceased \/ registered'[c].admin.ended \/ registered'[c].worker.ended =>
            insee[registered[c].siren] = "closed"
  ELSE registered'[c] = NoRow

LEMMA RowsRewrittenKeep ==
  ASSUME RegistryInv, registered' = [c \in CompanyRow |-> registered'[c]],
         \A c \in CompanyRow : Rewritten(c), UNCHANGED <<signUps, insee, outages>>,
         ceasedJob' = [on |-> ceasedJob'.on, ran |-> ceasedJob'.ran, todo |-> ceasedJob'.todo,
                       current |-> ceasedJob'.current, read |-> ceasedJob'.read],
         ceasedJob'.todo \subseteq ceasedJob.todo,
         \/ ceasedJob'.current = 0
         \/ UNCHANGED ceasedJob
  PROVE  RegistryInv'
<1>1. \A c \in CompanyRow : registered'[c] \in RegistryRow \cup {NoRow}
  BY DEF Rewritten
<1>2. registered' \in [CompanyRow -> RegistryRow \cup {NoRow}]
  BY <1>1
<1>3. Rows' = Rows
  BY NoRowIsNone, RowsAreWritten DEF Rows, Rewritten
<1>5. \A c \in Rows : Rewritten(c) /\ c \in CompanyRow
  BY RowsAreWritten
<1>4. RowsAreNumbered'
  BY <1>2, <1>3, <1>5 DEF RegistryInv, RowsAreNumbered, Rewritten
<1>6. RowsStand /\ ClosedStay
  BY <1>3, <1>5 DEF RowsStand, ClosedStay, Rewritten
<1>7. RequestsAreSound'
  <2>1. ASSUME NEW r \in SignUpRequest, NEW q, q = signUps'[r] PROVE RequestIsSound(q)'
    <3>1. q \in RequestState /\ RequestIsSound(q)
      BY <2>1, RequestSays
    <3>2. QED BY <3>1, <1>6, SoundStays
  <2>2. QED BY <2>1, EachIsSound
<1>8. SharedOnlyAtOnce'
  <2>1. ASSUME NEW d \in Rows, NEW c \in registered'[d].seen PROVE ~Shared(c, d)'
    <3>1. registered'[d].seen = registered[d].seen /\ c \in Rows /\ ~Shared(c, d)
      BY <1>5 DEF Rewritten, RegistryInv, RowsAreNumbered, SharedOnlyAtOnce
    <3>2. QED BY <3>1, <1>5 DEF Shared, Rewritten
  <2>2. QED BY <2>1, <1>3 DEF SharedOnlyAtOnce
<1>9. OnlyClosedCease'
  BY <1>3, <1>5 DEF OnlyClosedCease, Rewritten
<1>10. JobIsSound'
  <2>1. ceasedJob.todo \subseteq Rows
    BY DEF RegistryInv, JobIsSound
  <2>2. CASE UNCHANGED ceasedJob
    BY <2>1, <2>2, <1>3, <1>5 DEF RegistryInv, JobIsSound, Rewritten
  <2>3. CASE ceasedJob'.current = 0
    BY <2>1, <2>3, <1>3 DEF JobIsSound
  <2>4. QED BY <2>2, <2>3
<1>11. QED BY <1>4, <1>7, <1>8, <1>9, <1>10 DEF RegistryInv

\* One row changes.
LEMMA RowRewritten ==
  ASSUME RegistryInv, NEW c \in Rows, NEW row \in RegistryRow,
         registered' = [registered EXCEPT ![c] = row], UNCHANGED insee,
         row.siren = registered[c].siren, row.sirets = registered[c].sirets,
         row.seen = registered[c].seen,
         row.ceased \/ row.admin.ended \/ row.worker.ended =>
           insee[registered[c].siren] = "closed"
  PROVE  /\ registered' = [d \in CompanyRow |-> registered'[d]]
         /\ \A d \in CompanyRow : Rewritten(d)
<1>1. registered \in [CompanyRow -> RegistryRow \cup {NoRow}]
  BY DEF RegistryInv, RowsAreNumbered
<1>2. c \in CompanyRow
  BY RowsAreWritten
<1>3. /\ registered' = [d \in CompanyRow |-> registered'[d]]
      /\ registered'[c] = row
      /\ \A d \in CompanyRow : d # c => registered'[d] = registered[d]
  BY <1>1, <1>2
<1>4. ASSUME NEW d \in CompanyRow PROVE Rewritten(d)
  <2>1. CASE d = c
    BY <2>1, <1>3 DEF Rewritten
  <2>2. CASE d # c /\ d \in Rows
    BY <2>2, <1>3, RowsAreWritten DEF Rewritten, RegistryInv, OnlyClosedCease
  <2>3. CASE d \notin Rows
    BY <2>3, <1>1, <1>3 DEF Rewritten, Rows
  <2>4. QED BY <2>1, <2>2, <2>3
<1>5. QED BY <1>3, <1>4

LEMMA JobShape ==
  ASSUME RegistryInv
  PROVE  /\ ceasedJob = [on |-> ceasedJob.on, ran |-> ceasedJob.ran, todo |-> ceasedJob.todo,
                         current |-> ceasedJob.current, read |-> ceasedJob.read]
         /\ ceasedJob.todo \subseteq Rows /\ ceasedJob.current \in ceasedJob.todo \cup {0}
BY DEF RegistryInv, JobIsSound

LEMMA SetWorkerKeeps ==
  ASSUME RegistryInv, NEW c \in Rows, NEW w \in StaffRecord,
         w.ended => registered[c].worker.ended, SetWorker(c, w)
  PROVE  RegistryInv'
<1>1. PICK old \in RegistryRow : old = registered[c]
  BY RowsAreWritten
<1>2. PICK row : row = [old EXCEPT !.worker = w]
  OBVIOUS
<1>3. /\ row \in RegistryRow /\ row.siren = old.siren /\ row.sirets = old.sirets
      /\ row.seen = old.seen /\ row.ceased = old.ceased /\ row.admin = old.admin /\ row.worker = w
  BY <1>2 DEF RegistryRow
<1>4. registered' = [registered EXCEPT ![c] = row] /\ UNCHANGED <<signUps, insee, ceasedJob, outages>>
  <2>1. c \in DOMAIN registered
    BY RowsAreWritten DEF RegistryInv, RowsAreNumbered
  <2>2. QED BY <2>1, <1>1, <1>2 DEF SetWorker
<1>5. old.ceased \/ old.admin.ended \/ old.worker.ended => insee[old.siren] = "closed"
  BY <1>1 DEF RegistryInv, OnlyClosedCease
<1>6. row.ceased \/ row.admin.ended \/ row.worker.ended => insee[registered[c].siren] = "closed"
  BY <1>1, <1>3, <1>5
<1>7. /\ registered' = [d \in CompanyRow |-> registered'[d]]
      /\ \A d \in CompanyRow : Rewritten(d)
  BY <1>1, <1>3, <1>4, <1>6, RowRewritten
<1>8. QED BY <1>4, <1>7, JobShape, RowsRewrittenKeep

LEMMA WorkersKeep ==
  ASSUME RegistryInv, NEW c \in Rows,
         WorkerAccepts(c) \/ \E start \in 0..1 : Hire(c, start)
  PROVE  RegistryInv'
<1>1. PICK old \in StaffRecord : old = registered[c].worker
  BY RowsAreWritten DEF RegistryRow
<1>2. CASE WorkerAccepts(c)
  <2>1. PICK w : w = [old EXCEPT !.status = "approved"]
    OBVIOUS
  <2>2. w \in StaffRecord /\ w.ended = old.ended
    BY <2>1 DEF StaffRecord
  <2>3. SetWorker(c, w)
    BY <1>1, <1>2, <2>1 DEF WorkerAccepts
  <2>4. QED BY <2>2, <2>3, <1>1, SetWorkerKeeps
<1>3. ASSUME NEW start \in 0..1, Hire(c, start) PROVE RegistryInv'
  <2>1. PICK w : w = Employed("pending", start)
    OBVIOUS
  <2>2. w \in StaffRecord /\ ~w.ended
    BY <2>1 DEF StaffRecord, Employed
  <2>3. SetWorker(c, w)
    BY <1>3, <2>1 DEF Hire
  <2>4. QED BY <2>2, <2>3, SetWorkerKeeps
<1>4. QED BY <1>2, <1>3

LEMMA StillOpenKeeps ==
  ASSUME RegistryInv, NEW c \in ceasedJob.todo, StillOpen(c)
  PROVE  RegistryInv'
<1>1. c \in Rows
  BY JobShape
<1>2. PICK old \in RegistryRow : old = registered[c]
  BY <1>1, RowsAreWritten
<1>3. PICK row : row = [old EXCEPT !.infoAge = 0]
  OBVIOUS
<1>4. 0 \in 0..OldInfo
  BY RegistryAssumption
<1>5. /\ row \in RegistryRow /\ row.siren = old.siren /\ row.sirets = old.sirets
      /\ row.seen = old.seen /\ row.ceased = old.ceased /\ row.admin = old.admin /\ row.worker = old.worker
  BY <1>3, <1>4 DEF RegistryRow
<1>6. /\ ceasedJob.current = 0 /\ ceasedJob' = [ceasedJob EXCEPT !.todo = ceasedJob.todo \ {c}]
      /\ UNCHANGED <<signUps, insee, outages>>
  BY JobShape DEF StillOpen
<1>7. registered' = [registered EXCEPT ![c] = row]
  <2>1. c \in DOMAIN registered
    BY <1>1, RowsAreWritten DEF RegistryInv, RowsAreNumbered
  <2>2. QED BY <2>1, <1>2, <1>3 DEF StillOpen
<1>8. old.ceased \/ old.admin.ended \/ old.worker.ended => insee[old.siren] = "closed"
  BY <1>1, <1>2 DEF RegistryInv, OnlyClosedCease
<1>9. /\ registered' = [d \in CompanyRow |-> registered'[d]]
      /\ \A d \in CompanyRow : Rewritten(d)
  BY <1>1, <1>2, <1>5, <1>6, <1>7, <1>8, RowRewritten
<1>10. /\ ceasedJob' = [on |-> ceasedJob'.on, ran |-> ceasedJob'.ran, todo |-> ceasedJob'.todo,
                        current |-> ceasedJob'.current, read |-> ceasedJob'.read]
       /\ ceasedJob'.todo \subseteq ceasedJob.todo /\ ceasedJob'.current = 0
  BY <1>6, JobShape
<1>11. QED BY <1>6, <1>9, <1>10, RowsRewrittenKeep

\* The job reads a company, or stops: no row is written.
LEMMA JobAlone ==
  ASSUME RegistryInv, UNCHANGED <<registered, signUps, insee>>, outages' \in 0..MaxOutages,
         JobIsSound'
  PROVE  RegistryInv'
<1>1. UNCHANGED Rows
  BY DEF Rows
<1>2. RowsAreNumbered' /\ SharedOnlyAtOnce' /\ OnlyClosedCease'
  BY <1>1 DEF RegistryInv, RowsAreNumbered, SharedOnlyAtOnce, Shared, OnlyClosedCease
<1>3. RequestsAreSound'
  BY <1>1 DEF RegistryInv, RequestsAreSound, RequestIsSound, SawRoom, Settled, RowsOf, Covers
<1>4. QED BY <1>2, <1>3 DEF RegistryInv

LEMMA ReadEmploymentsKeeps ==
  ASSUME RegistryInv, NEW c \in ceasedJob.todo, ReadEmployments(c)
  PROVE  RegistryInv'
<1>1. PICK read : read = {<<p, registered[c][p].status>> : p \in OpenEmployments(c)}
  OBVIOUS
<1>2. /\ ceasedJob' = [ceasedJob EXCEPT !.current = c, !.read = read]
      /\ insee[registered[c].siren] = "closed"
      /\ UNCHANGED <<registered, signUps, insee, outages>>
  BY <1>1 DEF ReadEmployments, HasCompanyCeasedActivity
<1>3. /\ ceasedJob' = [on |-> ceasedJob'.on, ran |-> ceasedJob'.ran, todo |-> ceasedJob'.todo,
                       current |-> ceasedJob'.current, read |-> ceasedJob'.read]
      /\ ceasedJob'.todo = ceasedJob.todo /\ ceasedJob'.current = c
  BY <1>2, JobShape
<1>4. Rows' = Rows
  BY <1>2 DEF Rows
<1>5. ceasedJob.on /\ ceasedJob'.on = ceasedJob.on
  BY <1>2, JobShape DEF ReadEmployments
<1>6. JobIsSound'
  BY <1>2, <1>3, <1>4, <1>5, JobShape DEF JobIsSound
<1>7. QED BY <1>2, <1>6, OutageCounts, JobAlone

LEMMA StartCeasedJobKeeps ==
  ASSUME RegistryInv, StartCeasedJob
  PROVE  RegistryInv'
<1>1. PICK S \in Oldest({c \in Rows : ~registered[c].ceased}) :
        ceasedJob' = [ceasedJob EXCEPT !.on = TRUE, !.ran = TRUE, !.todo = S]
  BY DEF StartCeasedJob
<1>2. S \subseteq Rows
  BY <1>1 DEF Oldest
<1>3. UNCHANGED <<registered, signUps, insee, outages>> /\ ~ceasedJob.on
  BY DEF StartCeasedJob
<1>4. /\ ceasedJob' = [on |-> ceasedJob'.on, ran |-> ceasedJob'.ran, todo |-> ceasedJob'.todo,
                       current |-> ceasedJob'.current, read |-> ceasedJob'.read]
      /\ ceasedJob'.todo = S /\ ceasedJob'.current = ceasedJob.current
  BY <1>1, JobShape
<1>5. ceasedJob.current = 0
  BY <1>3 DEF RegistryInv, JobIsSound
<1>6. Rows' = Rows
  BY <1>3 DEF Rows
<1>7. JobIsSound'
  BY <1>2, <1>4, <1>5, <1>6 DEF JobIsSound
<1>8. QED BY <1>3, <1>7, OutageCounts, JobAlone

LEMMA TerminatedStaff ==
  ASSUME NEW e \in StaffRecord
  PROVE  [e EXCEPT !.ended = TRUE] \in StaffRecord /\ Nobody \in StaffRecord
<1>1. PICK f : f = [e EXCEPT !.ended = TRUE]
  OBVIOUS
<1>2. f \in StaffRecord
  BY <1>1 DEF StaffRecord
<1>3. Nobody \in StaffRecord
  BY DEF StaffRecord, Nobody
<1>4. QED BY <1>1, <1>2, <1>3

\* The job's company loses its staff: the INSEE has closed it.
LEMMA CeaseCompanyKeeps ==
  ASSUME RegistryInv, CeaseCompany
  PROVE  RegistryInv'
<1>1. PICK c \in Rows : c = ceasedJob.current /\ c # 0
  BY JobShape DEF CeaseCompany
<1>2. PICK old \in RegistryRow : old = registered[c]
  BY RowsAreWritten
<1>3. insee[old.siren] = "closed"
  BY <1>1, <1>2 DEF RegistryInv, JobIsSound
<1>4. PICK admin \in StaffRecord : admin = Terminated(c, "admin")
  <2>1. PICK a \in StaffRecord : a = registered[c]["admin"]
    BY <1>2 DEF RegistryRow
  <2>2. QED BY <2>1, TerminatedStaff DEF Terminated
<1>5. PICK worker \in StaffRecord : worker = Terminated(c, "worker")
  <2>1. PICK a \in StaffRecord : a = registered[c]["worker"]
    BY <1>2 DEF RegistryRow
  <2>2. QED BY <2>1, TerminatedStaff DEF Terminated
<1>6. PICK row : row = [old EXCEPT !.ceased = TRUE, !.infoAge = 0, !.admin = admin,
                                   !.worker = worker]
  OBVIOUS
<1>7. 0 \in 0..OldInfo
  BY RegistryAssumption
<1>8. /\ row \in RegistryRow /\ row.siren = old.siren /\ row.sirets = old.sirets
      /\ row.seen = old.seen
  BY <1>6, <1>7 DEF RegistryRow
<1>9. /\ ceasedJob' = [ceasedJob EXCEPT !.todo = ceasedJob.todo \ {c}, !.current = 0, !.read = {}]
      /\ UNCHANGED <<signUps, insee, outages>>
  BY <1>1, JobShape DEF CeaseCompany
<1>10. registered' = [registered EXCEPT ![c] = row]
  <2>1. c \in DOMAIN registered
    BY RowsAreWritten DEF RegistryInv, RowsAreNumbered
  <2>2. QED BY <2>1, <1>1, <1>2, <1>4, <1>5, <1>6 DEF CeaseCompany
<1>11. /\ registered' = [d \in CompanyRow |-> registered'[d]]
       /\ \A d \in CompanyRow : Rewritten(d)
  BY <1>2, <1>3, <1>8, <1>9, <1>10, RowRewritten
<1>12. /\ ceasedJob' = [on |-> ceasedJob'.on, ran |-> ceasedJob'.ran, todo |-> ceasedJob'.todo,
                        current |-> ceasedJob'.current, read |-> ceasedJob'.read]
       /\ ceasedJob'.todo \subseteq ceasedJob.todo /\ ceasedJob'.current = 0
  BY <1>9, JobShape
<1>13. QED BY <1>9, <1>11, <1>12, RowsRewrittenKeep

LEMMA JobStopsKeeps ==
  ASSUME RegistryInv, CeaseIsRefused \/ JobAsksInVain \/ EndCeasedJob
  PROVE  RegistryInv'
<1>1. /\ CeasedJobStops /\ UNCHANGED <<registered, signUps, insee>>
      /\ (Outage \/ UNCHANGED outages)
  BY DEF CeaseIsRefused, JobAsksInVain, EndCeasedJob
<1>2. /\ ceasedJob' = [on |-> ceasedJob'.on, ran |-> ceasedJob'.ran, todo |-> ceasedJob'.todo,
                       current |-> ceasedJob'.current, read |-> ceasedJob'.read]
      /\ ceasedJob'.todo = {} /\ ceasedJob'.current = 0
  BY <1>1, JobShape DEF CeasedJobStops
<1>3. JobIsSound'
  BY <1>2 DEF JobIsSound
<1>4. QED BY <1>1, <1>3, OutageCounts, JobAlone

\* An employment is a day nearer, or a day older.
LEMMA SoonerStaff ==
  ASSUME NEW e \in StaffRecord,
         NEW f, f = [e EXCEPT !.start = IF e = Nobody THEN 0 ELSE IF @ < 0 THEN -1 ELSE @ - 1]
  PROVE  f \in StaffRecord /\ f.ended = e.ended
<1>1. PICK start \in -1..1 :
        start = IF e = Nobody THEN 0 ELSE IF e.start < 0 THEN -1 ELSE e.start - 1
  <2>1. e.start \in -1..1
    BY DEF StaffRecord
  <2>2. QED BY <2>1
<1>2. f = [e EXCEPT !.start = start]
  BY <1>1 DEF StaffRecord
<1>3. QED BY <1>2 DEF StaffRecord

LEMMA OlderRow ==
  ASSUME RegistryInv, NEW c \in Rows
  PROVE  /\ Older(c) \in RegistryRow
         /\ Older(c).siren = registered[c].siren /\ Older(c).sirets = registered[c].sirets
         /\ Older(c).seen = registered[c].seen
         /\ Older(c).ceased = registered[c].ceased
         /\ Older(c).admin.ended = registered[c].admin.ended
         /\ Older(c).worker.ended = registered[c].worker.ended
<1>1. PICK old \in RegistryRow : old = registered[c] /\ registered[c] # NoRow
  BY RowsAreWritten, NoRowIsNone
<1>2. old.admin \in StaffRecord /\ old.worker \in StaffRecord /\ old.infoAge \in 0..OldInfo
  BY DEF RegistryRow
<1>3. PICK admin \in StaffRecord : admin.ended = old.admin.ended /\
        admin = [old.admin EXCEPT !.start = IF old.admin = Nobody THEN 0
                                            ELSE IF @ < 0 THEN -1 ELSE @ - 1]
  BY <1>2, SoonerStaff
<1>4. PICK worker \in StaffRecord : worker.ended = old.worker.ended /\
        worker = [old.worker EXCEPT !.start = IF old.worker = Nobody THEN 0
                                              ELSE IF @ < 0 THEN -1 ELSE @ - 1]
  BY <1>2, SoonerStaff
<1>5. PICK age \in 0..OldInfo :
        age = IF old.infoAge < OldInfo THEN old.infoAge + 1 ELSE old.infoAge
  BY <1>2, RegistryAssumption
<1>6. PICK row : row = [old EXCEPT !.infoAge = age, !.admin = admin, !.worker = worker]
  OBVIOUS
<1>7. Older(c) = row
  BY <1>1, <1>3, <1>4, <1>5, <1>6 DEF Older, RegistryRow
<1>8. /\ row \in RegistryRow /\ row.siren = old.siren /\ row.sirets = old.sirets
      /\ row.seen = old.seen /\ row.ceased = old.ceased /\ row.admin = admin /\ row.worker = worker
  BY <1>6 DEF RegistryRow
<1>9. QED BY <1>1, <1>3, <1>4, <1>7, <1>8

LEMMA NextRegistryDayKeeps ==
  ASSUME RegistryInv, NextRegistryDay
  PROVE  RegistryInv'
<1>1. /\ registered' = [c \in CompanyRow |-> Older(c)] /\ ~ceasedJob.on
      /\ ceasedJob' = [ceasedJob EXCEPT !.ran = FALSE]
      /\ UNCHANGED <<signUps, insee, outages>>
  BY DEF NextRegistryDay
<1>2. ceasedJob.current = 0
  BY <1>1 DEF RegistryInv, JobIsSound
<1>3. /\ ceasedJob' = [on |-> ceasedJob'.on, ran |-> ceasedJob'.ran, todo |-> ceasedJob'.todo,
                       current |-> ceasedJob'.current, read |-> ceasedJob'.read]
      /\ ceasedJob'.todo = ceasedJob.todo /\ ceasedJob'.current = 0
  BY <1>1, <1>2, JobShape
<1>4. registered' = [c \in CompanyRow |-> registered'[c]]
  BY <1>1
<1>5. ASSUME NEW c \in CompanyRow PROVE Rewritten(c)
  <2>1. CASE c \in Rows
    <3>1. registered'[c] = Older(c)
      BY <1>1
    <3>2. registered[c].ceased \/ registered[c].admin.ended \/ registered[c].worker.ended =>
            insee[registered[c].siren] = "closed"
      BY <2>1 DEF RegistryInv, OnlyClosedCease
    <3>3. QED BY <2>1, <3>1, <3>2, OlderRow DEF Rewritten
  <2>2. CASE c \notin Rows
    BY <1>1, <2>2 DEF Rewritten, Rows, Older
  <2>3. QED BY <2>1, <2>2
<1>6. QED BY <1>1, <1>3, <1>4, <1>5, RowsRewrittenKeep

LEMMA ClosesKeeps ==
  ASSUME RegistryInv, NEW s \in Siren, Closes(s)
  PROVE  RegistryInv'
<1>1. /\ insee' = [insee EXCEPT ![s] = "closed"]
      /\ UNCHANGED <<registered, signUps, ceasedJob, outages>>
  BY DEF Closes
<1>2. /\ insee' \in [Siren -> {"open", "unlisted", "closed"}]
      /\ \A t \in Siren : insee[t] = "closed" => insee'[t] = "closed"
  BY <1>1 DEF RegistryInv
<1>3. Rows' = Rows
  BY <1>1 DEF Rows
<1>4. RowsStand /\ ClosedStay
  BY <1>1, <1>2, <1>3 DEF RowsStand, ClosedStay
<1>5. RowsAreNumbered' /\ SharedOnlyAtOnce'
  BY <1>1, <1>3 DEF RegistryInv, RowsAreNumbered, SharedOnlyAtOnce, Shared
<1>6. \A c \in Rows : registered[c].siren \in Siren
  BY RowsAreWritten DEF RegistryRow
<1>7. OnlyClosedCease'
  BY <1>1, <1>2, <1>3, <1>6 DEF RegistryInv, OnlyClosedCease
<1>8. JobIsSound'
  <2>1. ceasedJob.current # 0 => ceasedJob.current \in Rows
    BY JobShape
  <2>2. QED BY <2>1, <1>1, <1>2, <1>3, <1>6 DEF RegistryInv, JobIsSound
<1>9. RequestsAreSound'
  <2>1. ASSUME NEW r \in SignUpRequest, NEW q, q = signUps'[r] PROVE RequestIsSound(q)'
    <3>1. q \in RequestState /\ RequestIsSound(q)
      BY <2>1, <1>1, RequestSays
    <3>2. QED BY <3>1, <1>4, SoundStays
  <2>2. QED BY <2>1, EachIsSound
<1>10. QED BY <1>1, <1>2, <1>5, <1>7, <1>8, <1>9 DEF RegistryInv

LEMMA SignUpsKeep ==
  ASSUME RegistryInv, NEW r \in SignUpRequest, NEW s \in Siren,
         \/ CompanySignUp(r, s)
         \/ \E es \in SUBSET Establishment : CompaniesSignUp(r, s, es)
         \/ \E item \in {{}} \cup {{e} : e \in Establishment} :
               CompanySoftwareRegistration(r, s, item)
  PROVE  RegistryInv'
<1>1. CASE CompanySignUp(r, s)
  <2>1. {{}} \in SUBSET Items
    BY DEF Items
  <2>2. QED BY <1>1, <2>1, BeginKeeps DEF CompanySignUp
<1>2. ASSUME NEW es \in SUBSET Establishment, CompaniesSignUp(r, s, es) PROVE RegistryInv'
  <2>1. {{e} : e \in es} \in SUBSET Items
    BY DEF Items
  <2>2. QED BY <1>2, <2>1, BeginKeeps DEF CompaniesSignUp
<1>3. ASSUME NEW item \in {{}} \cup {{e} : e \in Establishment},
             CompanySoftwareRegistration(r, s, item)
      PROVE  RegistryInv'
  <2>1. {item} \in SUBSET Items
    BY DEF Items
  <2>2. QED BY <1>3, <2>1, BeginKeeps DEF CompanySoftwareRegistration
<1>4. QED BY <1>1, <1>2, <1>3

LEMMA RegistryStarts == RegistryInit => RegistryInv
<1> SUFFICES ASSUME RegistryInit PROVE RegistryInv
  OBVIOUS
<1>1. Rows = {}
  BY DEF RegistryInit, Rows
<1>2. Cardinality({}) = 0 /\ 1..0 = {}
  BY FS_EmptySet
<1>3. RowsAreNumbered
  BY <1>1, <1>2 DEF RegistryInit, RowsAreNumbered
<1>4. IdleRequest \in RequestState
  BY DEF IdleRequest, RequestState, Items
<1>5. signUps \in [SignUpRequest -> RequestState]
  BY <1>4 DEF RegistryInit
<1>6. RequestsAreSound
  BY <1>1 DEF RegistryInit, RequestsAreSound, RequestIsSound, IdleRequest
<1>7. insee \in [Siren -> {"open", "unlisted", "closed"}] /\ outages \in 0..MaxOutages
  BY RegistryAssumption DEF RegistryInit
<1>8. JobIsSound /\ SharedOnlyAtOnce /\ OnlyClosedCease
  BY <1>1 DEF RegistryInit, JobIsSound, SharedOnlyAtOnce, OnlyClosedCease
<1>9. QED BY <1>3, <1>5, <1>6, <1>7, <1>8 DEF RegistryInv

LEMMA RegistryStep == RegistryInv /\ [RegistryNext]_registryVars => RegistryInv'
<1> SUFFICES ASSUME RegistryInv, [RegistryNext]_registryVars PROVE RegistryInv'
  OBVIOUS
<1>1. ASSUME NEW r \in SignUpRequest, SignUpStep(r) PROVE RegistryInv'
  BY <1>1, ReadStatusKeeps, InseeKeeps, StoreKeeps, SignedUpKeeps, BrevoKeeps DEF SignUpStep
<1>2. ASSUME NEW r \in SignUpRequest, NEW s \in Siren,
             \/ CompanySignUp(r, s)
             \/ \E es \in SUBSET Establishment : CompaniesSignUp(r, s, es)
             \/ \E item \in {{}} \cup {{e} : e \in Establishment} :
                   CompanySoftwareRegistration(r, s, item)
      PROVE  RegistryInv'
  BY <1>2, SignUpsKeep
<1>3. CASE CeasedJobStep \/ JobAsksInVain
  BY <1>3, StartCeasedJobKeeps, CeaseCompanyKeeps, JobStopsKeeps, StillOpenKeeps,
     ReadEmploymentsKeeps DEF CeasedJobStep
<1>4. CASE NextRegistryDay
  BY <1>4, NextRegistryDayKeeps
<1>5. ASSUME NEW c \in Rows, WorkerAccepts(c) \/ \E start \in 0..1 : Hire(c, start)
      PROVE  RegistryInv'
  BY <1>5, WorkersKeep
<1>6. ASSUME NEW s \in Siren, Closes(s) PROVE RegistryInv'
  BY <1>6, ClosesKeeps
<1>7. CASE UNCHANGED registryVars
  <2>1. UNCHANGED <<registered, signUps, insee, ceasedJob, outages>> /\ UNCHANGED Rows
    BY <1>7 DEF registryVars, Rows
  <2>2. JobIsSound'
    BY <2>1 DEF RegistryInv, JobIsSound
  <2>3. QED BY <2>1, <2>2, OutageCounts, JobAlone
<1>8. QED BY <1>1, <1>2, <1>3, <1>4, <1>5, <1>6, <1>7 DEF RegistryNext

LEMMA RegistryIsTyped == RegistryInv => RegistryTypeOK
<1> SUFFICES ASSUME RegistryInv PROVE RegistryTypeOK
  OBVIOUS
<1>1. \A c \in Rows : /\ registered[c].siren \in Siren
                      /\ registered[c].sirets \subseteq Establishment
                      /\ registered[c].infoAge \in 0..OldInfo
                      /\ registered[c]["admin"].start \in -1..1
                      /\ registered[c]["worker"].start \in -1..1
  <2>1. SUFFICES ASSUME NEW c \in Rows
                 PROVE  /\ registered[c].siren \in Siren
                        /\ registered[c].sirets \subseteq Establishment
                        /\ registered[c].infoAge \in 0..OldInfo
                        /\ registered[c]["admin"].start \in -1..1
                        /\ registered[c]["worker"].start \in -1..1
    OBVIOUS
  <2>2. PICK row \in RegistryRow : row = registered[c]
    BY RowsAreWritten
  <2>3. QED BY <2>2 DEF RegistryRow, StaffRecord
<1>2. ASSUME NEW r \in SignUpRequest
      PROVE  signUps[r].phase \in {"none", "status", "insee", "store", "contact",
                                   "company", "link", "answered"}
  BY RequestSays DEF RequestState
<1>3. Rows = 1..Cardinality(Rows) /\ outages \in 0..MaxOutages
  BY DEF RegistryInv, RowsAreNumbered
<1>4. QED BY <1>1, <1>2, <1>3, JobShape DEF RegistryTypeOK

LEMMA RequestsAreComplete == RegistryInv => AnswerIsComplete
<1> SUFFICES ASSUME RegistryInv, NEW r \in SignUpRequest, signUps[r].phase = "answered",
                    insee[signUps[r].siren] # "closed", NEW item \in signUps[r].asked
             PROVE  \E c \in RowsOf(signUps[r].siren) : Covers(c, item) \/ item = {}
  BY DEF AnswerIsComplete
<1>1. PICK q : q = signUps[r]
  OBVIOUS
<1>2. q.todo = {} /\ (item \in q.todo \/ Settled(q.siren, item))
  BY <1>1, RequestSays DEF RequestIsSound
<1>3. QED BY <1>1, <1>2 DEF Settled

\* domain/company.py and controllers/company.py: whatever the requests and
\* the nights, two companies stand for one establishment only if they were
\* registered at once, an answered request left none of what it asked for
\* without a company, and only a company whose SIREN the INSEE closed is
\* marked so or loses its staff.
THEOREM RegistryStaysSound ==
  RegistrySpec => []RegistryIsSound
<1>1. RegistryInv => RegistryIsSound
  BY RegistryIsTyped, RequestsAreComplete DEF RegistryInv, RegistryIsSound
<1>2. QED BY <1>1, RegistryStarts, RegistryStep, PTL DEF RegistrySpec
=============================================================================
