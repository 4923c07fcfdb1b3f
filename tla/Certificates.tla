----------------------------- MODULE Certificates -----------------------------
(***************************************************************************)
(* The certificates of the companies: the monthly job that computes them   *)
(* (domain/certificate_criteria.py), the mails to the managers of those    *)
(* about to lose theirs, what the API and the public pages tell of them     *)
(* (domain/company.py, data_access, controllers/certificate.py) and the     *)
(* steps kept in company_stats.                                             *)
(*                                                                         *)
(* A month has three days: 3m, its first; 3m + 1; 3m + 2, its last.        *)
(***************************************************************************)
EXTENDS Integers, FiniteSets, FiniteSetsExt

CONSTANTS
  CertFirm,             \* companies
  FirmManager,      \* the administrators
  ManagersOf(_),    \* those of a company
  MonthFacts,       \* what months may show of a company: a sequence of
                    \* [activities, alerts of each check, realTime, changed]
  LastCertDay,      \* bound: the days
  MaxCertFaults     \* bound: how often the job, a computation or a mail fails

\* A month is counted against the same checks for every company.
ASSUME CertAssumption ==
  /\ LastCertDay \in Nat
  /\ \A i \in DOMAIN MonthFacts :
       LET f == MonthFacts[i] IN
       /\ {f.activities, f.realTime, f.changed} \subseteq Nat
       /\ IsFiniteSet(DOMAIN f.alerts)
       /\ \A k \in DOMAIN f.alerts : f.alerts[k] \in Nat
       /\ \A j \in DOMAIN MonthFacts : DOMAIN MonthFacts[j].alerts = DOMAIN f.alerts

VARIABLES
  certDay,        \* today
  certificates,   \* the rows of company_certification
  certJob,        \* the command run_certificate
  lossMails,      \* the rows of email of type COMPANY_ABOUT_TO_LOSE_CERTIFICATE
  steps,          \* the steps a company has taken, and company_stats
  certFaults

certVars == <<certDay, certificates, certJob, lossMails, steps, certFaults>>

FirstOfMonth(t) == (t \div 3) * 3

EndOfMonth(t) == FirstOfMonth(t) + 2

-----------------------------------------------------------------------------
(* The criteria.                                                            *)

CeilingOfHalfPercent(n) == (n + 199) \div 200

\* compute_compliancy: the checks that have not too many alerts.
ComputeCompliancy(alerts, activities) ==
  Cardinality({k \in DOMAIN alerts : alerts[k] < CeilingOfHalfPercent(activities)})

ReachesShare(part, whole, percent) == whole = 0 \/ 100 * part >= percent * whole

StaysUnderShare(part, whole, percent) == whole = 0 \/ 100 * part <= percent * whole

Reaches(f, compliancy, realTime, changes) ==
  /\ ComputeCompliancy(f.alerts, f.activities) >= compliancy
  /\ ReachesShare(f.realTime, f.activities, realTime)
  /\ StaysUnderShare(f.changed, f.activities, changes)

\* 0 for none, then bronze, silver, gold, diamond.
GetCertificationLevel(f) ==
  IF Reaches(f, 6, 95, 1) THEN 4
  ELSE IF Reaches(f, 4, 80, 10) THEN 3
  ELSE IF Reaches(f, 2, 70, 20) THEN 2
  ELSE IF Reaches(f, 0, 60, 30) THEN 1
  ELSE 0

\* set_certification, before a row is written.
SetCertification == [i \in DOMAIN MonthFacts |-> GetCertificationLevel(MonthFacts[i])]

\* Two months: this one and the next.
CertificateExpiration(t) == EndOfMonth(t) + 3

-----------------------------------------------------------------------------
(* What is told of a company.                                               *)

CertificatesOf(c) == {x \in certificates : x.firm = c}

MedalsOf(c) == {x \in CertificatesOf(c) : x.level > 0}

\* Seeded fault: the newest certificate, whatever its medal.
Newest(x, y) == x.from >= y.from

\* The highest medal first, then the newest.
Precedes(x, y) ==
  x.level > y.level \/ (x.level = y.level /\ x.from >= y.from)

\* get_current_certificate: at most one, as a set.
GetCurrentCertificate(c) ==
  LET valid == {x \in CertificatesOf(c) : x.until >= certDay} IN
  {x \in valid : \A y \in valid : Precedes(x, y)}

\* find_certified_companies_query: a date is before any hour of its day.
ListedAsCertified(c) == \E x \in MedalsOf(c) : x.until > certDay

\* get_start_last_certification_period: back as long as the medals touch.
TouchesAllAfter(c, x) ==
  \A y \in MedalsOf(c) : y.from > x.from =>
    \E z \in MedalsOf(c) : z.from < y.from /\ z.from >= x.from /\ y.from <= z.until + 1

GetStartLastCertificationPeriod(c) ==
  Min({x.from : x \in {m \in MedalsOf(c) : TouchesAllAfter(c, m)}})

\* get_company_certificate_badge: a badge, or a blank image.
Badge(c) == {x \in GetCurrentCertificate(c) : x.level > 0}

\* compute_certified_companies_output, for the public pages and the partners.
PublicOutput(c) ==
  [from |-> GetStartLastCertificationPeriod(c),
   until |-> Max({x.until : x \in MedalsOf(c)}),
   level |-> Max({0} \cup {x.level : x \in GetCurrentCertificate(c)})]

\* send_certificate_compute_end_notification: who had a medal, not this month.
LostCertification ==
  {c \in CertFirm :
     /\ \E x \in MedalsOf(c) : x.until >= certDay /\ x.from < FirstOfMonth(certDay)
     /\ ~(\E x \in MedalsOf(c) : x.from = FirstOfMonth(certDay))}

-----------------------------------------------------------------------------
(* The job.                                                                 *)

IdleCertJob == [phase |-> "none", asOf |-> 0, mails |-> FALSE, todo |-> {}]

CertInit ==
  /\ certDay = 0
  /\ certificates = {}
  /\ certJob = IdleCertJob
  /\ lossMails = {}
  /\ steps = [c \in CertFirm |-> [invited |-> FALSE, validated |-> FALSE, loaded |-> 0]]
  /\ certFaults = 0

CertFault == certFaults < MaxCertFaults /\ certFaults' = certFaults + 1

RemovedCertificates(asOf) == {x \in certificates : x.from # asOf}

\* By the schedule on the first of the month, or by hand.
RunCertificate(asOf, mails) ==
  /\ certJob = IdleCertJob
  /\ mails => asOf = certDay
  /\ certificates' = RemovedCertificates(asOf)
  /\ certJob' = [phase |-> "compute", asOf |-> asOf, mails |-> mails, todo |-> CertFirm]
  /\ UNCHANGED <<certDay, lossMails, steps, certFaults>>

Computed(c) == certJob' = [certJob EXCEPT !.todo = @ \ {c}]

\* A fork computes a company: here, with any facts of a month.
ComputeCompanyCertification(c, i) ==
  /\ certJob.phase = "compute" /\ c \in certJob.todo
  /\ certificates' = certificates \cup
       {[firm |-> c, from |-> certJob.asOf, until |-> CertificateExpiration(certJob.asOf),
         month |-> i, level |-> SetCertification[i]]}
  /\ Computed(c)
  /\ UNCHANGED <<certDay, lossMails, steps, certFaults>>

\* Fewer than 12 missions created in the month.
IsNotEligible(c) ==
  /\ certJob.phase = "compute" /\ c \in certJob.todo
  /\ Computed(c)
  /\ UNCHANGED <<certDay, certificates, lossMails, steps, certFaults>>

ComputationFails(c) == CertFault /\ certJob.phase = "compute" /\ c \in certJob.todo
  /\ Computed(c) /\ UNCHANGED <<certDay, certificates, lossMails, steps>>

\* Companies whose medal is of last month, or older, and ends this month.
CompaniesAboutToLoseCertification(t) ==
  {c \in CertFirm :
     /\ \E x \in MedalsOf(c) : x.from <= FirstOfMonth(t) - 3 /\ x.until > t
     /\ ~(\E x \in MedalsOf(c) : x.from = FirstOfMonth(t))}

AllComputed ==
  /\ certJob.phase = "compute" /\ certJob.todo = {}
  /\ certJob' = IF certJob.mails
                THEN [certJob EXCEPT !.phase = "mails",
                        !.todo = {p \in CompaniesAboutToLoseCertification(certJob.asOf)
                                               \X FirmManager : p[2] \in ManagersOf(p[1])}]
                ELSE IdleCertJob
  /\ UNCHANGED <<certDay, certificates, lossMails, steps, certFaults>>

\* check_email_exists: a mail to that person, of any company.
CheckEmailExists(a, since) == \E x \in lossMails : x.to = a /\ x.day >= since

\* The company's row of the month decides what the mail says.
SendAboutToLoseCertificate(c, a) ==
  LET since == GetStartLastCertificationPeriod(c) IN
  /\ certJob.phase = "mails" /\ <<c, a>> \in certJob.todo
  /\ lossMails' = IF CheckEmailExists(a, since) THEN lossMails
                  ELSE lossMails \cup {[to |-> a, firm |-> c, since |-> since, day |-> certDay]}
  /\ Computed(<<c, a>>)
  /\ UNCHANGED <<certDay, certificates, steps, certFaults>>

MailFails(c, a) ==
  /\ CertFault
  /\ certJob.phase = "mails" /\ <<c, a>> \in certJob.todo
  /\ Computed(<<c, a>>)
  /\ UNCHANGED <<certDay, certificates, lossMails, steps>>

CertJobEnds ==
  /\ certJob.phase = "mails" /\ certJob.todo = {}
  /\ certJob' = IdleCertJob
  /\ UNCHANGED <<certDay, certificates, lossMails, steps, certFaults>>

CertJobStops ==
  /\ CertFault
  /\ certJob.phase # "none" /\ certJob' = IdleCertJob
  /\ UNCHANGED <<certDay, certificates, lossMails, steps>>

-----------------------------------------------------------------------------
(* company_stats: 0, or the last of the three steps it knows.               *)

TakesStep(c, step) ==
  /\ ~steps[c][step]
  /\ steps' = [steps EXCEPT ![c][step] = TRUE]
  /\ UNCHANGED <<certDay, certificates, certJob, lossMails, certFaults>>

\* load_company_stats stops at the first step that is missing.
StepsSeen(c) ==
  IF ~steps[c].invited THEN 0
  ELSE IF ~steps[c].validated THEN 1
  ELSE IF MedalsOf(c) = {} THEN 2 ELSE 3

LoadCompanyStats(c) ==
  /\ StepsSeen(c) > steps[c].loaded
  /\ steps' = [steps EXCEPT ![c].loaded = StepsSeen(c)]
  /\ UNCHANGED <<certDay, certificates, certJob, lossMails, certFaults>>

\* The command does not run on for days.
NextCertDay ==
  /\ certDay < LastCertDay /\ certJob = IdleCertJob
  /\ certDay' = certDay + 1
  /\ UNCHANGED <<certificates, certJob, lossMails, steps, certFaults>>

CertNext ==
  \/ \E asOf \in {certDay, FirstOfMonth(certDay)}, mails \in BOOLEAN : RunCertificate(asOf, mails)
  \/ \E c \in CertFirm :
       \/ \E i \in DOMAIN MonthFacts : ComputeCompanyCertification(c, i)
       \/ IsNotEligible(c) \/ ComputationFails(c)
       \/ \E step \in {"invited", "validated"} : TakesStep(c, step)
       \/ LoadCompanyStats(c)
       \/ \E a \in FirmManager : SendAboutToLoseCertificate(c, a) \/ MailFails(c, a)
  \/ AllComputed \/ CertJobEnds \/ CertJobStops \/ NextCertDay

CertSpec == CertInit /\ [][CertNext]_certVars

-----------------------------------------------------------------------------
(* A company has at most one certificate of a date, what the mails read     *)
(* with one_or_none (send_about_to_lose_certificate_emails.py:35), however  *)
(* often the job is stopped and run again.                                  *)
CertificateTypeOK ==
  /\ \A x \in certificates :
       /\ x.firm \in CertFirm /\ x.month \in DOMAIN MonthFacts /\ x.level \in 0..4
       /\ x.until = CertificateExpiration(x.from)
  /\ \A x, y \in certificates : x.firm = y.firm /\ x.from = y.from => x = y
  /\ certJob.phase \in {"none", "compute", "mails"}

(* "a company has the best certification level still valid"                 *)
(* (models/company_certification.py:14): no valid medal is better than the  *)
(* one that is told; whoever is on the public list has its badge, whose     *)
(* date the list does not outlive; and whoever is warned is counted as lost. *)
EveryPageAgrees ==
  /\ \A c \in CertFirm :
       /\ Cardinality(GetCurrentCertificate(c)) <= 1
       /\ \A x \in MedalsOf(c), y \in GetCurrentCertificate(c) :
            x.until >= certDay => x.level <= y.level
       /\ ListedAsCertified(c) =>
            /\ PublicOutput(c).level > 0 /\ PublicOutput(c).from <= certDay
            /\ \E b \in Badge(c) : b.level = PublicOutput(c).level /\ b.until <= PublicOutput(c).until
  /\ CompaniesAboutToLoseCertification(certDay) \subseteq LostCertification

(* A month that is better in everything never brings a lesser medal         *)
(* (models/company_certification.py:61).                                    *)
BetterMonthBetterMedal ==
  \A x, y \in certificates :
    LET f == MonthFacts[x.month]  g == MonthFacts[y.month] IN
    /\ f.activities = g.activities /\ f.realTime <= g.realTime /\ f.changed >= g.changed
    /\ \A k \in DOMAIN f.alerts : f.alerts[k] >= g.alerts[k]
    => x.level <= y.level

(* "if we already sent the email since company is certified, do not send it *)
(* again" (send_about_to_lose_certificate_emails.py:54): one mail to a      *)
(* manager for a period of certification, reruns included.                  *)
WarnedOncePerPeriod ==
  \A x, y \in lossMails : x.to = y.to /\ x.firm = y.firm /\ x.since = y.since => x = y

\* The pages agree on who is certified, a better month earns no worse medal,
\* and a loss is announced once, over computations that crash and start
\* again.
CertificatesAreFair ==
  /\ CertificateTypeOK
  /\ EveryPageAgrees
  /\ BetterMonthBetterMedal
  /\ WarnedOncePerPeriod
=============================================================================
