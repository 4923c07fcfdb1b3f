-------------------------- MODULE CompanyRegistry --------------------------
(***************************************************************************)
(* The companies: their registration by an administrator or by a software, *)
(* for a whole SIREN or for some of its establishments (SIRETs); what is    *)
(* sent to Brevo at the registration; their details; and the nightly job    *)
(* that asks the INSEE which of them have ceased their activity             *)
(* (controllers/company.py, domain/company.py, helpers/siren.py).           *)
(*                                                                         *)
(* Requests run at once: each looks at what is registered, asks the INSEE,  *)
(* then inserts.  Dates are relative to today, so that days need no bound:  *)
(* an age stops growing at OldInfo and a past date is -1.                   *)
(***************************************************************************)
EXTENDS Integers, FiniteSets

CONSTANTS
  Siren,
  Establishment,   \* the last digits of the SIRETs
  SignUpRequest,   \* bound: the requests that register companies
  CompanyRow,      \* bound: 1..n, the rows of the table company
  OldInfo,         \* bound: the age of an answer of the INSEE stops here,
                   \* after the nights the job needs to treat all companies
  RowsPerNight,    \* the companies the job treats in a night: 100
  MaxOutages       \* bound: how often the INSEE or Brevo does not answer

VARIABLES
  registered,   \* the rows of company, with their employments
  signUps,      \* the requests and what they know
  insee,        \* what the INSEE says of each SIREN
  ceasedJob,    \* the job: its companies, the employments it has read
  outages

registryVars == <<registered, signUps, insee, ceasedJob, outages>>

ASSUME RegistryAssumption ==
  /\ CompanyRow \subseteq Nat \ {0} /\ IsFiniteSet(CompanyRow)
  /\ OldInfo \in Nat /\ MaxOutages \in Nat /\ "none" \notin Siren

NoRow == [siren |-> "none"]

Rows == {c \in CompanyRow : registered[c] # NoRow}

RowsOf(s) == {c \in Rows : registered[c].siren = s}

Outage == outages < MaxOutages /\ outages' = outages + 1

-----------------------------------------------------------------------------
(* What is registered of a SIREN.  An item is what one company stands for:  *)
(* {} the whole SIREN, {e} one of its establishments.                       *)

GetSirenRegistrationStatus(s) ==
  IF RowsOf(s) = {} THEN "unregistered"
  ELSE IF \E c \in RowsOf(s) : registered[c].sirets = {} THEN "fully"
  ELSE "partially"

MayStore(status, item) ==
  \/ status = "unregistered"
  \/ status = "partially" /\ item # {}

\* The constraint only_one_company_per_siret: an empty list overlaps nothing.
Overlaps(c, s, item) ==
  registered[c].siren = s /\ registered[c].sirets \cap item # {}

SiretIsFree(s, item) == \A c \in Rows : ~Overlaps(c, s, item)

-----------------------------------------------------------------------------
(* The registration.                                                        *)

IdleRequest == [phase |-> "none", by |-> "none", siren |-> "none",
                asked |-> {}, todo |-> {}, item |-> {}, status |-> "none",
                seen |-> {}, crm |-> {}]

RegistryInit ==
  /\ registered = [c \in CompanyRow |-> NoRow]
  /\ signUps = [r \in SignUpRequest |-> IdleRequest]
  /\ insee \in [Siren -> {"open", "unlisted"}]
  /\ ceasedJob = [on |-> FALSE, ran |-> FALSE, todo |-> {}, current |-> 0,
                  read |-> {}]
  /\ outages = 0

SetRequest(r, q) == signUps' = [signUps EXCEPT ![r] = q]

Begin(r, by, s, items) ==
  /\ signUps[r].phase = "none"
  /\ SetRequest(r, [IdleRequest EXCEPT !.phase = "status", !.by = by, !.siren = s,
                       !.asked = items, !.todo = items])
  /\ UNCHANGED <<registered, insee, ceasedJob, outages>>

\* A SIREN, its number of workers and its SIRETs are well formed.
CompanySignUp(r, s) == Begin(r, "administrator", s, {{}})

CompaniesSignUp(r, s, es) ==
  es # {} /\ Begin(r, "administrator", s, {{e} : e \in es})

CompanySoftwareRegistration(r, s, item) == Begin(r, "software", s, {item})

\* Seeded fault: the companies that follow one that is refused are left out.
AfterFailureOfAll(q) ==
  [q EXCEPT !.todo = {}, !.item = {}, !.status = "none", !.seen = {},
            !.crm = {}, !.phase = "answered"]

\* sign_up_companies goes on with the next company.
AfterFailure(q) ==
  [q EXCEPT !.todo = @ \ {q.item}, !.item = {}, !.status = "none",
            !.seen = {}, !.crm = {},
            !.phase = IF q.todo = {q.item} THEN "answered" ELSE "status"]

AfterSuccess(q) == AfterFailure(q)

\* The companies are taken in the order given: here, in any order.  History:
\* a request, then its row, keeps the companies of the SIREN it has seen.
ReadStatus(r, item) ==
  LET q == [signUps[r] EXCEPT !.item = item, !.crm = {},
               !.status = GetSirenRegistrationStatus(signUps[r].siren),
               !.seen = RowsOf(signUps[r].siren)] IN
  /\ signUps[r].phase = "status" /\ item \in signUps[r].todo
  /\ SetRequest(r, IF MayStore(q.status, item) THEN [q EXCEPT !.phase = "insee"]
                   ELSE AfterFailure(q))
  /\ UNCHANGED <<registered, insee, ceasedJob, outages>>

\* The company is stored when the INSEE does not answer, or does not list it.
AskInsee(r) ==
  LET q == signUps[r] IN
  /\ q.phase = "insee"
  /\ SetRequest(r, IF insee[q.siren] = "closed" THEN AfterFailure(q)
                   ELSE [q EXCEPT !.phase = "store"])
  /\ UNCHANGED <<registered, insee, ceasedJob, outages>>

InseeIsDown(r) ==
  /\ signUps[r].phase = "insee" /\ Outage
  /\ SetRequest(r, [signUps[r] EXCEPT !.phase = "store"])
  /\ UNCHANGED <<registered, insee, ceasedJob>>

NextRow == Cardinality(Rows) + 1

Employed(status, start) == [status |-> status, start |-> start, ended |-> FALSE]

Nobody == [status |-> "none", start |-> 0, ended |-> FALSE]

Stored(q) ==
  [siren |-> q.siren, sirets |-> q.item, ceased |-> FALSE, infoAge |-> 0,
   admin |-> IF q.by = "software" THEN Nobody ELSE Employed("approved", 0),
   worker |-> Nobody, seen |-> q.seen]

\* The company and the employment of its administrator, in one transaction;
\* only an administrator is made known to Brevo.
StoreCompany(r) ==
  LET q == signUps[r] IN
  /\ q.phase = "store" /\ SiretIsFree(q.siren, q.item) /\ NextRow \in CompanyRow
  /\ registered' = [registered EXCEPT ![NextRow] = Stored(q)]
  /\ SetRequest(r, IF q.by = "software" THEN AfterSuccess(q)
                   ELSE [q EXCEPT !.phase = "contact"])
  /\ UNCHANGED <<insee, ceasedJob, outages>>

SiretAlreadySignedUp(r) ==
  LET q == signUps[r] IN
  /\ q.phase = "store" /\ ~SiretIsFree(q.siren, q.item)
  /\ SetRequest(r, AfterFailure(q))
  /\ UNCHANGED <<registered, insee, ceasedJob, outages>>

NextPhase == [contact |-> "company", company |-> "link"]

\* Brevo is asked for a contact, a company and their link: the first that
\* fails ends it, and nothing asks again.
SendToBrevo(r) ==
  LET q == [signUps[r] EXCEPT !.crm = @ \cup {signUps[r].phase}] IN
  /\ signUps[r].phase \in {"contact", "company", "link"}
  /\ SetRequest(r, IF signUps[r].phase = "link" THEN AfterSuccess(q)
                   ELSE [q EXCEPT !.phase = NextPhase[@]])
  /\ UNCHANGED <<registered, insee, ceasedJob, outages>>

BrevoIsDown(r) ==
  /\ signUps[r].phase \in {"contact", "company", "link"} /\ Outage
  /\ SetRequest(r, AfterSuccess(signUps[r]))
  /\ UNCHANGED <<registered, insee, ceasedJob>>

SignUpStep(r) ==
  \/ \E item \in signUps[r].todo : ReadStatus(r, item)
  \/ AskInsee(r) \/ InseeIsDown(r) \/ StoreCompany(r) \/ SiretAlreadySignedUp(r)
  \/ SendToBrevo(r) \/ BrevoIsDown(r)

-----------------------------------------------------------------------------
(* The employments of a company, as far as the job looks at them.           *)

SetWorker(c, w) ==
  /\ registered' = [registered EXCEPT ![c].worker = w]
  /\ UNCHANGED <<signUps, insee, ceasedJob, outages>>

\* Nothing refuses a new employment in a company that has ceased.
Hire(c, start) ==
  c \in Rows /\ registered[c].worker = Nobody
  /\ SetWorker(c, Employed("pending", start))

WorkerAccepts(c) ==
  c \in Rows /\ registered[c].worker.status = "pending"
  /\ SetWorker(c, [registered[c].worker EXCEPT !.status = "approved"])

-----------------------------------------------------------------------------
(* The job update_ceased_activity_status.                                    *)

\* Seeded fault: the latest answers first.
Freshest(cs) ==
  {S \in SUBSET cs :
     /\ Cardinality(S) = IF Cardinality(cs) < RowsPerNight
                         THEN Cardinality(cs) ELSE RowsPerNight
     /\ \A c \in S, d \in cs \ S : registered[c].infoAge <= registered[d].infoAge}

\* The companies whose answer is the oldest; those of one day in any order.
Oldest(cs) ==
  {S \in SUBSET cs :
     /\ Cardinality(S) = IF Cardinality(cs) < RowsPerNight
                         THEN Cardinality(cs) ELSE RowsPerNight
     /\ \A c \in S, d \in cs \ S : registered[c].infoAge >= registered[d].infoAge}

StartCeasedJob ==
  /\ ~ceasedJob.on /\ ~ceasedJob.ran
  /\ \E S \in Oldest({c \in Rows : ~registered[c].ceased}) :
       ceasedJob' = [ceasedJob EXCEPT !.on = TRUE, !.ran = TRUE, !.todo = S]
  /\ UNCHANGED <<registered, signUps, insee, outages>>

HasCompanyCeasedActivity(s) == insee[s] = "closed"

OpenEmployments(c) ==
  {p \in {"admin", "worker"} :
     registered[c][p].status \in {"pending", "approved"} /\ ~registered[c][p].ended}

\* The INSEE answers that the company is open, or does not know it.
StillOpen(c) ==
  /\ ceasedJob.on /\ ceasedJob.current = 0 /\ c \in ceasedJob.todo
  /\ ~HasCompanyCeasedActivity(registered[c].siren)
  /\ registered' = [registered EXCEPT ![c].infoAge = 0]
  /\ ceasedJob' = [ceasedJob EXCEPT !.todo = @ \ {c}]
  /\ UNCHANGED <<signUps, insee, outages>>

\* The employments are read, with the status each has now.
ReadEmployments(c) ==
  /\ ceasedJob.on /\ ceasedJob.current = 0 /\ c \in ceasedJob.todo
  /\ HasCompanyCeasedActivity(registered[c].siren)
  /\ ceasedJob' = [ceasedJob EXCEPT !.current = c,
        !.read = {<<p, registered[c][p].status>> : p \in OpenEmployments(c)}]
  /\ UNCHANGED <<registered, signUps, insee, outages>>

\* The database refuses an employment that would end before it starts.
EndsAreValid(c) ==
  \A p \in {"admin", "worker"} :
     <<p, "approved">> \in ceasedJob.read => registered[c][p].start < 0

Terminated(c, p) ==
  IF <<p, "approved">> \in ceasedJob.read THEN [registered[c][p] EXCEPT !.ended = TRUE]
  ELSE IF <<p, "pending">> \in ceasedJob.read THEN Nobody
  ELSE registered[c][p]

\* Approved employments end yesterday, pending ones are deleted.
CeaseCompany ==
  LET c == ceasedJob.current IN
  /\ c # 0 /\ EndsAreValid(c)
  /\ registered' = [registered EXCEPT ![c] =
        [@ EXCEPT !.ceased = TRUE, !.infoAge = 0,
                  !.admin = Terminated(c, "admin"),
                  !.worker = Terminated(c, "worker")]]
  /\ ceasedJob' = [ceasedJob EXCEPT !.todo = @ \ {c}, !.current = 0, !.read = {}]
  /\ UNCHANGED <<signUps, insee, outages>>

CeasedJobStops == ceasedJob' = [ceasedJob EXCEPT !.on = FALSE, !.todo = {},
                                  !.current = 0, !.read = {}]

\* An error ends the job: the companies that follow wait for the next night.
CeaseIsRefused ==
  /\ ceasedJob.current # 0 /\ ~EndsAreValid(ceasedJob.current)
  /\ CeasedJobStops
  /\ UNCHANGED <<registered, signUps, insee, outages>>

JobAsksInVain ==
  /\ ceasedJob.on /\ ceasedJob.todo # {} /\ Outage
  /\ CeasedJobStops
  /\ UNCHANGED <<registered, signUps, insee>>

EndCeasedJob ==
  /\ ceasedJob.on /\ ceasedJob.todo = {}
  /\ CeasedJobStops
  /\ UNCHANGED <<registered, signUps, insee, outages>>

CeasedJobStep ==
  \/ StartCeasedJob \/ CeaseCompany \/ CeaseIsRefused \/ EndCeasedJob
  \/ \E c \in ceasedJob.todo : StillOpen(c) \/ ReadEmployments(c)

-----------------------------------------------------------------------------
(* The rest of the world.                                                    *)

Closes(s) ==
  /\ insee[s] = "open"
  /\ insee' = [insee EXCEPT ![s] = "closed"]
  /\ UNCHANGED <<registered, signUps, ceasedJob, outages>>

Older(c) ==
  LET Sooner(e) == [e EXCEPT !.start = IF e = Nobody THEN 0 ELSE IF @ < 0 THEN -1 ELSE @ - 1] IN
  IF registered[c] = NoRow THEN NoRow
  ELSE [registered[c] EXCEPT !.infoAge = IF @ < OldInfo THEN @ + 1 ELSE @,
                             !.admin = Sooner(@), !.worker = Sooner(@)]

\* A night has passed, with its job.
NextRegistryDay ==
  /\ ceasedJob.ran /\ ~ceasedJob.on
  /\ registered' = [c \in CompanyRow |-> Older(c)]
  /\ ceasedJob' = [ceasedJob EXCEPT !.ran = FALSE]
  /\ UNCHANGED <<signUps, insee, outages>>

RegistryNext ==
  \/ \E r \in SignUpRequest :
        \/ SignUpStep(r)
        \/ \E s \in Siren :
             \/ CompanySignUp(r, s)
             \/ \E es \in SUBSET Establishment : CompaniesSignUp(r, s, es)
             \/ \E item \in {{}} \cup {{e} : e \in Establishment} :
                   CompanySoftwareRegistration(r, s, item)
  \/ CeasedJobStep \/ JobAsksInVain \/ NextRegistryDay
  \/ \E c \in Rows : WorkerAccepts(c) \/ \E start \in 0..1 : Hire(c, start)
  \/ \E s \in Siren : Closes(s)

\* The job is scheduled every night.
RegistrySpec ==
  /\ RegistryInit /\ [][RegistryNext]_registryVars
  /\ WF_registryVars(CeasedJobStep) /\ WF_registryVars(NextRegistryDay)

-----------------------------------------------------------------------------
(* Properties.                                                               *)

\* Every variable holds a value of its type, the rows are numbered in the
\* order they were inserted, and the job is at one of the night's companies.
RegistryTypeOK ==
  /\ Rows = 1..Cardinality(Rows)
  /\ \A c \in Rows :
        /\ registered[c].siren \in Siren
        /\ registered[c].sirets \subseteq Establishment
        /\ registered[c].infoAge \in 0..OldInfo
        /\ \A p \in {"admin", "worker"} : registered[c][p].start \in -1..1
  /\ \A r \in SignUpRequest :
        signUps[r].phase \in {"none", "status", "insee", "store", "contact",
                              "company", "link", "answered"}
  /\ ceasedJob.todo \subseteq Rows /\ ceasedJob.current \in ceasedJob.todo \cup {0}
  /\ outages \in 0..MaxOutages

\* Two companies stand for one establishment.
Shared(c, d) ==
  \/ registered[c].sirets = {} \/ registered[d].sirets = {}
  \/ registered[c].sirets \cap registered[d].sirets # {}

\* Two companies stand for one establishment, a whole SIREN beside another or
\* beside one of its establishments, only if they were registered at once: the
\* later had looked at the SIREN before the former was stored, and no table
\* refuses it (store_company, the constraint only_one_company_per_siret).
SharedOnlyAtOnce ==
  \A d \in Rows : \A c \in registered[d].seen : ~Shared(c, d)

Covers(c, item) ==
  registered[c].sirets = {} \/ (item # {} /\ item \subseteq registered[c].sirets)

\* Once a request is answered, each establishment it asked for has a company,
\* its own or one that was there before, unless the SIREN had ceased; a whole
\* SIREN is refused only if something of it is registered.
AnswerIsComplete ==
  \A r \in SignUpRequest :
     LET q == signUps[r] IN
     q.phase = "answered" /\ insee[q.siren] # "closed" =>
       \A item \in q.asked :
          \E c \in RowsOf(q.siren) : Covers(c, item) \/ item = {}

\* Only a company the INSEE declares closed is marked so and loses its staff.
OnlyClosedCease ==
  \A c \in Rows :
     registered[c].ceased \/ registered[c].admin.ended \/ registered[c].worker.ended
       => insee[registered[c].siren] = "closed"

\* A company whose SIREN is closed is marked one night, whatever the number
\* of companies, the nights the INSEE did not answer and the employments
\* that could not end yet.
ClosedIsMarked ==
  \A c \in CompanyRow :
     [](registered[c] # NoRow /\ (\E s \in Siren : registered[c].siren = s /\ insee[s] = "closed")
        => <>(registered[c] # NoRow /\ registered[c].ceased))

\* Companies share an establishment only if they were registered at once, a
\* request is answered in full, and a company is marked as closed only if the
\* INSEE closed it.
RegistryIsSound ==
  /\ RegistryTypeOK
  /\ SharedOnlyAtOnce
  /\ AnswerIsComplete
  /\ OnlyClosedCease
=============================================================================
